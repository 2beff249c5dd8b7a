# Proofbound Runtime: TLA+ models and proofs

Proofbound Runtime runs one declared command inside an operating-system boundary and writes a receipt of what it saw.
This directory holds TLA+ modules translated from the sources under `src/`, the TLC configurations that check them on
small instances, and proofs that TLAPS checks for every value of the constants. `PROJECT.json` maps every definition to
the lines it models and lists runs, mutants, findings, hazards and theorems.

Paths below are relative to `src/crates/proofbound-runtime-<crate>/src/`, written `<crate>/<file>`.

## The system: parts, state and interactions

| Part | State it keeps | Operations | What is hard |
|---|---|---|---|
| Plan and authority (`core/plan`, `authority`, `network`, `normalize`, `policy`, `service_policy`) | none after parsing | parse, normalize, compile | in-place deduplication and sorting; limits that bound each other |
| Plan SDKs (`sdk/lib`, the Python and TypeScript packages) | a started `pbr`, two bounded streams | validate, encode, run, decode the result | four validators that must agree; two pipes read at once |
| Run command (`cli/run`, `linux/output`, `resolve`, `inventory`) | retained descriptors, output root, temporary receipt | identify, revalidate, inventory, publish | drift between check and use; concurrent invocations; crash between sync, link and unlink |
| Supervisor (`linux/supervisor`) | child process, cgroup, two reader threads, deadline | spawn, place, release, monitor, drain, reap, join | late failures, deadline against exit, descendants, cleanup after errors |
| Cgroup (`linux/cgroup`) | directory, controls, counters | create, revalidate, place, drain, observe, remove | controls the kernel rounds or another process writes; unknown counters |
| Launcher (`linux/launcher`, `privilege`, `landlock`, `seccomp`) | control point, installed layers | pause, install, acknowledge, exec | order of layers, acknowledgement and release |
| Receipt and eligibility (`core/receipt`, `receipt/lib`) | none | construct, order, encode, derive | two independent implementations must agree |
| Verifier (`verify/*`) | none | decode, validate, derive, compare commitment | altered receipts |
| Codecs (`core/wire_v2` and its copies) | none | decode, encode, project | one accepted encoding per value, in every copy |
| Service connector (`linux/connector_process`, `core/service_lifecycle`) | process, control socket, data channel, reaper | prepare, spawn, transfer, finish, drop | deadlines, reports out of order, reaping |
| Resolution and TLS (`connector/dns`, `tls`) | chain, records with expiry, attempts, byte counts | query, follow, connect, handshake, proxy | expiry on a running clock, half-closes, limits |
| Diagnostic observer (`linux/trace`, `diagnose/observer`, `diagnose-linux/adapter`) | tracee table, protocol ledger, gaps | start, observe, drain, publish | creation, exec and death of tasks in any order |
| Diagnostic command (`diagnose-cli/main`, `diagnose/artifact`, `draft`, `diagnose-linux/mapping`) | events, receipt, draft, staged files | map, check, draft, publish the pair | two files published together, rivals, crashes |
| Scaffold (`cli/scaffold`) | inspected files, queue of objects | inspect, resolve, revalidate, write | files that change during the walk; bounds |
| Composition and acceptance (`compose/*`, `accept/*`) | held input bytes, reports, decision | read, verify, join, decide, publish | inputs replaced between two reads |

The parts form a pipeline. An SDK builds a plan and starts `pbr run`; `pbr run` calls the supervisor; the supervisor's
result becomes the facts of a receipt; the receipt is verified by `pbr-verify` and joined with a release by
`pbr-compose` or `pbr-accept`. The connector gives the child one authenticated channel. `pbr scaffold` describes an
executable before there is a plan; `pbr-diagnose` reads that description, runs the same launcher under ptrace in place
of the supervisor and drafts what a plan might declare.

## Modules

| Module | Models | Composition |
|---|---|---|
| `Supervision` | `supervise_launcher`, `run_launcher`, `FreshCgroup`, the readers, child and host | |
| `Eligibility` | `derive_receipt_eligibility` and the verifier's `derive_eligibility` | operators only |
| `Evidence` | the facts `build_receipt` takes from a supervised attempt | extends `Supervision`, `Eligibility` |
| `ResourceGroup` | `FreshCgroup` control by control and counter by counter, the kernel and a meddler | |
| `RunAttempt` | `execute_observed`, `persist_receipt`, several invocations on one file system | supervision is two steps of it |
| `Receipt` | `ExecutionReceipt::new`, `canonical_bytes`, `verify_receipt` | uses `Eligibility` |
| `Normalization` | `sort_and_deduplicate_paths`, one action per loop step | |
| `PlanContract` | both plan parsers, authority values, policy compilation | instantiates `Normalization` |
| `PlanSdk` | the three validators of plan input | extends `PlanContract` |
| `SdkRun` | the run helpers of Python and TypeScript, the pipes, `pbr`, three result decoders | |
| `Codec` | the CBOR decoders and the encoder | |
| `ModelCodec` | composed receipts and decisions between CBOR and their model | |
| `ServiceLifecycle` | `ServiceSessionLifecycle::transition`, the abstract specification of a session | |
| `ConnectorProcess` | supervisor and connector sides of a session | implements `ServiceLifecycle` |
| `Resolution`, `Authentication` | `resolve_service`; `authenticate_service` on the same clock | `Authentication` extends `Resolution` |
| `ChannelProxy` | `proxy_authenticated_channel` | |
| `ServiceSession` | the connector's work from bootstrap to last report | extends `Authentication`, `ChannelProxy` |
| `Tracees` | the tree of tasks and its ptrace stops | external, from how `trace.rs` uses it |
| `ObserverProtocol` | the pure `ObserverProtocol` as operators on a record | |
| `DiagnosticTrace` | `ActiveTrace`, `DrainingTrace`, the adapter and the command's loop | extends both |
| `DiagnosticArtifact`, `PlanDraft` | the mapping of events and the artifact's checks; the draft | operators only |
| `DiagnoseCommand` | several `pbr-diagnose` on one file system, `publish_pair` | extends `PlanDraft` |
| `Scaffold` | `pbr scaffold` over a changing tree; its report read by `pbr-diagnose` | |
| `Composition`, `Acceptance` | `compose`; both command lines with their files | `Acceptance` extends `Composition` |
| `MC*` | instances for TLC; `MCDocuments` holds the programs around a run, one per behaviour | |
| `*Proofs` | theorems | extend the module they are about |

How state and actions correspond to the code:

* **Supervision.** `sup` is the control point of `supervise_lifecycle` and of the cleanup after it; `proc` that of
  `run_launcher`, ending in `"child"` after `execveat`. `down` and `up` are the two directions of the sequence-packet
  channel; closing it with an unread packet resets the other end. `layers` and `placed` are what the process has really
  installed; `boundary` is what the supervisor believes. Descendants are a count. The host may end any process, with the
  signal of the seccomp filter too; the launcher's failure report may be lost, because `report_failure` ignores a failed
  send (`hidden` is the history of both). `written` and `kept` count the bytes of each stream; one read may bring any
  number of them. With `ControlFaults` every control-file operation may fail. The clock is one bit, before or after the
  deadline.
* **ResourceGroup.** `at` is the step of `create_v2`, of placement and of `finish`. `control` is what a file holds,
  after the kernel rounded it to pages; `installed` what was read back; `counter` what the kernel counted. Event files
  are sequences of names and counts, parsed as the code does. Another process may write a control at any time.
* **RunAttempt.** A file-system name holds an object; `held` is what an invocation retains through a descriptor.
  `Edit` changes an object in place, `Replace` puts another at its name. `data` and `slot` are the bytes and the link of
  a receipt; `PowerLoss` drops unsynced bytes and may drop a link that no directory sync protects.
* **Receipt.** `Assemble` collects the parts a caller may pass, a base record with up to `MaxEdits` unusual values.
  `Construct` runs all checks of the producer in order. `Alter` is the carrier of the stored file. `Verify` runs the
  verifier's own checks, tables and orders, translated from its own sources and not from the producer's.
* **PlanContract, PlanSdk.** A plan is the record its bytes decode to; a text is its form (empty, with a null byte,
  relative, absolute, with `..` and so on) and its rank in byte order. Each parser is the list of its checks in order.
  Normalization runs step by step inside `PlanContract`. Each SDK validator has its own operators.
* **SdkRun.** Helper, program and two pipes are actors. A pipe holds `PipeSize` bytes and a read takes at most `Chunk`.
  Python takes from whichever pipe has data; TypeScript handles `data` and `close` events; both kill at the bound. The
  program may close a stream before it ends (`shut`), and descendants may hold a stream open after it (`heirs`); they
  are not taken to write. A result object whose text is not UTF-8 is refused by Rust and Python and repaired by
  TypeScript.
* **Codec, ModelCodec.** A byte is an integer and a 64-bit number the sequence of its significant bytes, so that
  arguments of every width keep their meaning: the rule of the shortest form compares them. The four decoders have the
  same control and are one reader, `DecodeWith`; what each of them accepts (widths, least numbers, kinds, simple values,
  keys, limits) is a record of its own, read off its own source, so that a table edited in one copy only makes them
  differ. An input grows byte by byte while the decoder runs off its end. A
  document of the model codec is seen one leaf at a time with the fields that lead to it.
* **ConnectorProcess.** `sup` is inside `spawn` or `finish`, `conn` inside `run_connector_process`. In a rogue scene the
  executable sends any report and exits as it likes.
* **Resolution, Authentication, ChannelProxy, ServiceSession.** The resolver's answer is any set of records within
  `RecordsPerResponse`. Time is a number up to `MaxClock`. The proxy moves counted bytes through four buffers.
  `SendReady` ends the setup; nothing of it is read afterwards, so that its variables are reset.
* **DiagnosticTrace.** `trace` is `ActiveTrace`, `protocol` the pure ledger; `task` and `message` in `Tracees` are the
  kernel's view. Each wait status has an operator that gives its possible outcomes. Thread groups may be killed at any
  time by a task of the tree or by the host, and the whole cgroup by the kernel (`Slay`).
* **DiagnoseCommand.** `files` is what each path holds now and `maybe` what a power failure may leave there; `undo` is
  the list of removals a failed publication still has to do. Other processes take targets, commands are killed.
* **Scaffold.** A path is nothing, a directory, a link or an inode; `versions` change with every write. `task` and
  `handle` are the inspection under way: the links are followed one by one, then the last `symlink_metadata` and the
  opening are separate steps, between which a path may change. `queue` and `position` are the walk over needed
  libraries. Bounds are constants.
* **Acceptance.** `disk` changes by `Drift`; `held` are bytes the command read; `saw` (history) are the bytes a verifier
  read. A verifier replaced by another program may print anything of `FalseReports` or `FalseVerifications`.

## Runs

| Run | Checks | Result |
|---|---|---|
| `supervision` | `ChildOnlyInsideBoundary`, `ResultIsTruthful`, `NothingOutlivesResult`, `ReusableIsCleanRun`, `SupervisorReturns` | hold |
| `supervision_signal` | `SignaledMeansChildRan` | violated, see Findings |
| `receipt` | `ProducedIsAccepted`, `AcceptedIsProduced` | hold |
| `run_attempt` | `OutputRootIsOwn`, `PublishedReceiptIsOwn`, `LaunchIsFresh`, `ReceiptNeverReplaced` | hold |
| `run_attempt_launcher` | `LauncherIsRecorded` | violated, see Findings |
| `connector` | `ResultIsTruthful`, `ChannelOnlyWhenAuthenticated`, `NoUnwatchedConnector`, `ImplementsLifecycle`, `CallsReturn` | hold |
| `session` | `EndpointIsEvidenced`, `LimitsHold`, `OkIsComplete`, `NotifyFollowsLastByte`, `SessionEnds` | hold |
| `trace` | `TargetOnlyObserved`, `LedgersAgree`, `CompleteIsWhole`, `ObserverReturns` | hold |
| `trace_limits` | `PublishDirectiveIsHonoured` | violated, see Findings |
| `acceptance` | `ReportsAreAboutHeld`, `AcceptedSatisfiesPolicy`, `ExitTellsOutput` | hold |
| `documents` | `CarrierIsCanonical`, `PolicyIsExact`, `SdkAgreesWithParser`, `HelperIsTruthful`, `ReportIsExact`, `PairIsWhole`, `ExitTellsPublication`, `DraftIsJustified`, `EventsAreRecordable`, `ModelsAreFaithful`, `GroupIsExact`, `TargetsNeverReplaced` | hold |
| `sdk` | `SdkPlanIsAccepted` | violated, see Findings |

The passing runs take between some seconds and three minutes with two workers; the largest are `acceptance` (1,051,294
distinct states), `documents` (490,684) and `connector` (335,412).

Every property is stated in words above its definition. Each one of a passing run has a mutant in `PROJECT.json`: a
plausible bug in one mapped definition under which TLC finds the property violated.

What the `documents` run shows, program by program:

* A CBOR value has one accepted encoding, which the encoder gives back, and the four decoders read it alike.
* A compiled policy grants what the plan declares, whatever the order and repetition of its entries.
* The SDK validators build the same plans; they differ from the parser only in two path forms and in repetitions.
* An SDK helper never stands still with the program it started, and answers with a result only for a whole line of a
  program that ended by itself with status 0.
* A scaffold report is exact when it is written, although files change while it is made; what `pbr-diagnose` takes from
  it later is true of the files it then finds.
* A diagnostic receipt at its target has its own draft beside it; exit codes tell what was published, power failures
  included; a draft has no candidate that no event justifies; every event within the capture bounds can be recorded.
* A composed document or decision survives the way to its model and back.
* A resource group is what the receipt says, or its creation is refused.

Some properties rest on conditions worth knowing. `ResultIsTruthful` of `Supervision` has two exceptions, which the
supervisor cannot see: a nonzero exit code may be the 125 of a launcher whose failure report was lost, and a denial may
be a SIGSYS the host sent before `execveat`; an exit with zero has none, so a reusable receipt is never affected.
`CompleteIsWhole` does not say that nothing was killed: `record_process_exit` leaves no gap for a task killed from
outside. `ExitTellsPublication` counts a command that could not print its report as one that published; it exempts
commands whose removals failed and, like `PairIsWhole`, is no promise that a power failure between the two directory
syncs keeps the pair together: the directory of the receipt is synchronised first. `DraftIsJustified` exempts a link
read inside the reviewed roots, which yields neither a candidate nor an open item. `ProducedIsAccepted` assumes
`ResourcesAreObserved`: a peak above its limit comes with its limit event, as the kernel reports it; the verifier checks
this and the producer does not. `SupervisorReturns` names the one case in which the supervisor may wait for ever:
`cgroup.kill` could not be written, neither by `finish` nor by `Drop`, and a descendant keeps a stream pipe open.
`GroupIsExact` allows a directory that stays behind in one case of the code: `create_v2` set it up and then could not
read its inode.

### Findings

* **A signal before exec.** The comment on `ExecutionOutcome::Signaled` says the child received the signal. A launcher
  killed between reading the release and `execveat` is reported the same way. The receipt is not reusable in any case.
* **The launcher is spawned by path.** It is revalidated through a retained descriptor. If its file is replaced, every
  check passes and the receipt names bytes that did not run, against `docs/receipt-semantics.md`.
* **The event beyond a bound.** The observer's drain step still carries that event and the command keeps it. The
  artifact's own check then refuses it, so an incomplete result that should be published is not.
* **Plans the SDKs build and the parser refuses.** An empty path in `read` or `write`, and an absolute `runtime_read`
  path with `..`, pass all three SDKs and are refused by the parser. `docs/specs/0012_plan_sdks.md` promises bytes of
  the schema, which excludes the empty path; it says nothing of `..`.

Smaller observations that no run is about: the TypeScript result decoder accepts a code written with a fraction (`1.0`)
where Rust and Python refuse it; `pbr-diagnose` passes no path scope, so that its drafts carry no path candidates from
observation; `readlink` is listed as a read candidate and never yields one, because `path_event_can_write` takes a call
without flags for a write; a scaffold report may record two digests for one path when
the file changes between two inspections, and is then refused on load.

## Bounds, and why they are enough

* `supervision`: two descendants and one more drain poll after the first. One descendant can die between two polls and
  another stay; the loop has a first and a last check. Two streams with limits of one byte and of none, and one byte in
  excess: a stream ends below, at and above its limit, in one read or in two.
* `receipt`: two unusual parts and three altered fields. Checks relate at most two parts (a peak and its event, a role
  and its table); a consistent forgery needs at most three fields (status, reasons and one fact).
* `run_attempt`: two invocations, two output roots and one receipt path, on a host without drift but with failing
  removals; and one invocation with one change of any artifact at any time. Contention needs two actors, and a stale
  check needs one change; the two kinds of trouble do not share state. Symmetry permutes the invocations.
* `connector`: a byte limit of two, so that one byte lies under it and one over; two scenes. In one the connector may be
  a foreign executable and plan, connector and closure change, under a caller that may end without taking the channel;
  in the other the repository's connector serves a caller that takes it first, and plan and trust roots change.
* `session`: three names allow a chain of two and a loop, though not a loop-free chain beyond the declared depth, which
  the theorem `SessionEndpointIsEvidenced` covers; three lifetimes expire before, during and after setup; two
  IPv4 and one IPv6 address; two endpoint attempts. Each side may write one byte more than its limit, and the buffer is
  smaller than the service's limit, so partial writes and the read at the limit happen.
* `trace`: bounds of one process and of two; four tasks, the most a drain set for two may hold; three captured calls in
  the tree.
* `acceptance`: two replacements of any input; releases, policies and receipts that differ in one decisive respect each,
  a component with another's role or another's bytes among them.
* `documents`: the programs share no memory, so a behaviour runs one of them and the others rest.
  - Carrier: up to three bytes after thirteen seeds, from 21 bytes that select every case of the decoder; the seeds
    reach maps with a key read, arguments of four and eight bytes, a length near 2^64, and `MaxItems` items and one
    more. `MaxDepth` is exceeded too.
  - Plan: a valid plan, and a valid service plan, with one field or one group of related fields changed to every form
    and to every boundary of its numbers; lists of up to three entries in every order with repetitions.
  - Helper: a bound of three bytes, pipes of three, reads of two; programs that write up to five bytes to either stream,
    close either early, or leave descendants behind.
  - Scaffold: an application with three libraries, links, a directory in the place of a file, a loader cache and a cycle
    of needs; eighteen images, each bad
    in one respect; two edits at any time; each bound exceeded by one tree.
  - Diagnose: one command with two events of every shape; three pairs of commands that share targets, swap them, or
    cannot succeed; one target taken by another process; a kill of each command at any step.
  - Group: pages of two bytes, up to two counted events, hosts and kernels that lack or add one thing, one control
    written by another process.
* `sdk`: the plans of `documents`.

## Fairness, and why the code justifies it

Fairness is weak, and given only to steps that run by themselves: threads of the process under study, the clock, and
the delivery of SIGKILL by the kernel. Nothing is assumed of child, target, service or resolver, nor of a launcher or
connector that has not been killed: every wait for them has a deadline in the code (`monitor_process`, `wait_readable`,
`reap_before`, `require_active`, `TraceDeadline`), and it is this deadline that the liveness properties use. A failure
that the code may meet is never assumed to happen, except the one a passed deadline forces: the fairness of the
connector's supervisor leaves out its failing receives and waits. The SDK helpers have no
deadline; `HelperIsTruthful` therefore says that helper and program are never both stuck, and not that a call returns.

Deadlock is checked, with an explicit stuttering step at the end, except in the runs of `DiagnosticTrace`, `Acceptance`
and `MCDocuments` and in `sdk`, where a command has ended and nothing remains to be done.

## Proofs

TLAPS checks these for all values of the constants. An invariant of a run is seldom inductive; the invariant that is,
and why it is needed, is named with each.

* **Supervision** (`MaxForks \in Nat`, `CleanupPolls \in Nat \ {0}`, `ControlFaults \in BOOLEAN`, any limit of each
  stream), in `SupervisionProofs`.
  - `TypeCorrect`: `Spec => []TypeOK`. It bounds the drain polls and the vocabulary of both channels.
  - `BoundaryBeforeChild`: `Spec => []ChildOnlyInsideBoundary`. That the layers are complete when child code starts
    follows from the control point of the launcher, and that the supervisor accepted the acknowledgement follows from
    the release being in the channel. `LaunchInv` says both: each control point has its layers (`LayersAt`), nothing
    passes the pause before placement, and before the boundary is accepted only `Install` has been sent.
  - `NothingIsLeft`: `Spec => []NothingOutlivesResult`. `EndInv` says what each step towards the result established: a
    drained group stays empty because only its members fork, and an attempt that drops its group has an error.
  - `ResultsAreTruthful`: `Spec => []ResultIsTruthful`. `ChannelInv` follows the launcher's packets, so that its
    `Failure`, unless it was lost, is still there for `receive_late_failure`; `OutcomeInv` ties the outcome to the wait
    status, and `EvidenceInv` the captures and the observation to the ended tree: a stream that is not truncated holds
    all that was written, and a truncated one exactly its limit.
* **Eligibility**, in the same module: `DerivationsAgree`. For every element of `ReceiptFacts` the producer's
  derivation, which appends a reason if it is absent, and the verifier's, which pushes, give the same sequence; it is
  empty exactly for a clean execution. The lemmas go reason by reason: a reason that is not yet in the list is appended
  as it is pushed.
* **Evidence**, in the same module: `ReusableMeansClean`, `Spec => []ReusableIsCleanRun`, from the above, from
  `DecidedInv` (a result has an outcome and a boundary state) and from `DerivationsAgree`.
* **Normalization**: `NormalizationIsExact`. For every list of entries, of any length, normalization ends with the
  declared entries, each once and strictly sorted. `IInv` describes both loops: the prefix up to `write` has the entries
  seen so far, each once; and below `index` all pairs are in order but those with the sinking entry. `Order` shows
  `comes_before` a strict total order.
* **RunAttempt**, for any sets of invocations, roots and targets: `RootsAreOwn`, `ReceiptsAreOwn`, `ReceiptsAreKept` and
  `LaunchesAreFresh` state the four properties of the run. `ReceiptInv` says how far the receipt of an invocation has
  come at each control point, and that a name is linked only to one that has come all the way; `FreshInv` that what
  passed its last check has the recorded identity unless it was edited since.
* **ConnectorProcess**, for every byte limit, every set of scenes and whatever executable is started
  (`LimitAssumption`, `SceneAssumption`): `ConnectorResultsAreTruthful`, `ChannelsAreAuthenticated` and
  `ConnectorsAreWatched` state the three invariants of the run. None is inductive, because the supervisor learns of the
  connector only through packets. `ConnectorInv` therefore says, for each control point of the supervisor, which
  reports it has taken; for each stage of the connector, which ones it has sent and are still in the socket; who owns
  the process; and that the repository's connector sends one `Ready` and then one last report.
* **The session lifecycle**, in the same module: `SessionsFollowLifecycle`, `Spec => ImplementsLifecycle`. The mapping
  reads the phase of a session from both sides (`SetupPhase`, `SessionPhase`). The initial state maps to the initial
  state; then each action, under `ConnectorInv` before and after it, maps to a transition of `ServiceLifecycle` or to
  a stuttering step.
* **ServiceSession**, for every limit, buffer and byte stream: `SessionKeepsLimits`, `SessionLosesNothing` and
  `SessionClosesLast`. `ProxyInv` keeps an account of the bytes in each direction, from their sender through every
  buffer to the counters, and what the closed ends of the two streams stand for.
* **The setup before it**, in the same module: `SessionEndpointIsEvidenced`, for every set of names, addresses and
  lifetimes. `SetupInv` follows the setup in the order of the code: the links walked so far form a path of distinct
  names that ends at the name asked for next (`PathInv`), what each query kind left in `found` has one answer for an
  address (`FoundInv`), a sorted answer rests on a record of its address and outlives no record it was reached through
  (`AnswerInv`), and only the last attempt can be connected (`AttemptInv`). The clock may pass an expiry between any
  two of these steps; `authAt` is compared when it matters.
* **DiagnoseCommand**, for any commands, targets and rivals: `PairsAreWhole`, `TargetsAreKept` and
  `ExitsTellPublication`. `OrderInv` says the draft stays at its target from its link until the receipt is linked, or
  until the removals that begin with it. `ExitInv` adds which files a command may have at each control point, and what
  a power failure may still bring back there, step by step through `publish_pair` and its removals.
* **Drafts and recorded events** (`PlanDraftProofs`, `DiagnosticReceiptProofs`), for any trace within the capture bounds
  (`TraceAssumption`), any comparison with typed candidates (`ComparisonAssumption`) and observations that stay below
  the counts (`LoadAssumption`; what happens at the counts is the subject of `trace` and `trace_limits`):
  `EventsRecordable` and `DraftsAreJustified`. `RecordInv` says that what a command holds are mapped trace events
  numbered without a gap and that a built draft is the draft of its receipt. Each mapped event satisfies the checks of
  the artifact (`Sound`). What the loop of `build_plan_draft` leaves after `n` turns is proved by induction over `n`:
  `CandidatesExact` gives the candidates and their provenances, `ItemsExact` the open items, `CountsExact` the counts.

On induction: the library's induction rules take a predicate as a parameter, which the provers cannot instantiate. Where
a loop over data has to be followed (`Drafts`), the set of turns at which the claim fails is formed explicitly, and has
a least element because `<` on `Nat` is well-founded (`WFMin`); the recursive function itself is shown to exist in the
same way. That is one pair of lemmas for each loop, and it was done where the property is about the loop.

Only model-checked, and why:

* All liveness: `SupervisorReturns`, `CallsReturn`, `SessionEnds`, `ObserverReturns`. Fairness and `ENABLED` are outside
  this prover's reach.
* `CarrierIsCanonical` and `ReportIsExact`: `Codec` and `Scaffold` are written with recursive operators, for which the
  prover has no SMT backend.
* `ModelsAreFaithful`, `ProducedIsAccepted` and `AcceptedIsProduced`: long case analyses of pure functions over nested
  records, whose difficulty is in the number of cases and not in the length of a behaviour.
* `PolicyIsExact`, `SdkAgreesWithParser`, `HelperIsTruthful`, the properties of `acceptance` and of `trace`, and
  `GroupIsExact`: not yet proved.

Only proved, not in a run by itself: `NormalizedExactly`, which `PolicyIsExact` contains for plans of three entries.

## Not modelled

* What the seccomp filter and the Landlock rules permit: installing a layer is one step.
* Path walking below a root, parsing of ELF files (a function of the bytes in `Scaffold`) and host probing.
* JSON, DNS and launcher messages as bytes, and the CBOR layout of each document: they are the records of fields they
  carry, with the checks on them. The encoders of the three SDKs, the wire value of policies and of a service session.
* The decoding of system-call arguments: a captured call is its class, its operands and its result.
* Of the scaffold, the bound on searched directories, the suggested runtime roots and the standard open items.
* The version 1 constructor of a cgroup.
* `doctor`, `inspect`, `preflight`, `plan`, wording of errors, benchmarks, Kani harnesses, the Lean development and the
  tools: stateless, or not part of the running system.
* Windows that the repository assigns to the host: an executable edited between the launcher's last check and
  `execveat`, and reuse of a process number.

## Plan

1. Done: every part of the table above; theorems about supervision, evidence, run attempts, the connector and its
   lifecycle, sessions from the first query to the last byte, normalization, the diagnostic pair, events and drafts.
2. Modules to add: the seccomp program as an interpreter over its instructions, checked against the list of denied
   calls; confined path resolution; the encoders of the SDKs against `Codec`.
3. An abstract launch contract (installed, accepted, released, running, ended) that both `Supervision` and
   `DiagnosticTrace` implement.
4. Theorems to add: `LedgersAgree` of `DiagnosticTrace`; `GroupIsExact` of `ResourceGroup`; the properties of
   `Acceptance`.
