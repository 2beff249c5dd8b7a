------------------------------ MODULE Receipt ------------------------------
(***************************************************************************)
(* A receipt from its parts to the independent decision about it:          *)
(* ExecutionReceipt::new and canonical_bytes (core/src/receipt.rs) build   *)
(* and encode it, the carrier may alter the stored bytes, and              *)
(* verify_receipt (verify/src/lib.rs) decodes, checks and decides again,   *)
(* with its own tables of roles and its own derivation.                    *)
(*                                                                         *)
(* An artifact is a role and a digest (size and mode are compared the same *)
(* way, after the digest); text in a canonical set is a number, 0 for the  *)
(* empty string, in the order of the strings; a counter is nonzero or not. *)
(* A commitment is the value it commits to: SHA-256 is taken as injective. *)
(***************************************************************************)
EXTENDS Integers, FiniteSets, TLC, Eligibility

CONSTANTS MaxEdits,       \* parts in which a caller deviates from Base
          MaxAlterations  \* wire fields the carrier changes; an edited part
                          \* counts as three of them

VARIABLES stage,      \* "parts", "refused", "stored", "verified"
          parts,      \* ExecutionReceiptParts
          edits,      \* the parts that were changed
          failure,    \* the ReceiptError of a refused construction, or "none"
          produced,   \* the canonical bytes, or Null
          file,       \* the bytes at the path, or Null
          altered,    \* the wire fields that were changed
          expected,   \* the commitment the verifier is given, or Null
          verdict     \* what verify_receipt returned, or Null

vars == <<stage, parts, edits, failure, produced, file, altered, expected,
          verdict>>

Null == [kind |-> "null"]

-----------------------------------------------------------------------------
(* Identities and their order, on both sides. *)

Art(role, digest) == [role |-> role, digest |-> digest]
Entry(role, identity) == [role |-> role, identity |-> identity]

Rank(order, x) == CHOOSE i \in DOMAIN order : order[i] = x

\* ArtifactRole, with its derived order.
ArtifactRoles == <<"execution-plan", "normalized-plan", "compiled-policy",
    "runtime-binary", "launcher-binary", "verifier-binary",
    "runtime-executable", "runtime-loader-executable", "runtime-library",
    "working-directory", "project-input", "output-root", "standard-output",
    "standard-error", "output-artifact">>

\* Mutant: the verifier lists two roles in another order.
WireArtifactRolesSwapped == <<"execution-plan", "normalized-plan",
    "compiled-policy", "runtime-binary", "launcher-binary", "verifier-binary",
    "runtime-executable", "runtime-loader-executable", "project-input",
    "working-directory", "runtime-library", "output-root", "standard-output",
    "standard-error", "output-artifact">>

\* WireArtifactRole, the verifier's own list.
WireArtifactRoles == <<"execution-plan", "normalized-plan", "compiled-policy",
    "runtime-binary", "launcher-binary", "verifier-binary",
    "runtime-executable", "runtime-loader-executable", "runtime-library",
    "working-directory", "project-input", "output-root", "standard-output",
    "standard-error", "output-artifact">>

\* TrustedComputingBaseRole; the first twelve are always required.
TcbRoles == <<"host-hardware-firmware", "linux-kernel", "landlock", "seccomp",
    "cgroup-v2", "no-new-privileges", "filesystem", "runtime-binary",
    "launcher-binary", "rust-toolchain", "cryptographic-digest",
    "runtime-executable", "runtime-loader-executable", "runtime-library">>

\* TcbRole, the verifier's own list, and ALWAYS_REQUIRED_TCB_ROLES.
WireTcbRoles == <<"host-hardware-firmware", "linux-kernel", "landlock",
    "seccomp", "cgroup-v2", "no-new-privileges", "filesystem",
    "runtime-binary", "launcher-binary", "rust-toolchain",
    "cryptographic-digest", "runtime-executable", "runtime-loader-executable",
    "runtime-library">>
AlwaysRequiredTcbRoles == {WireTcbRoles[i] : i \in 1 .. 12}

Before(order, a, b, text(_)) ==
    \/ Rank(order, a.role) < Rank(order, b.role)
    \/ a.role = b.role /\ text(a) < text(b)

Digest(a) == a.digest
Identity(e) == e.identity
ArtifactOrd(a, b) == Before(ArtifactRoles, a, b, Digest)
TcbOrd(a, b) == Before(TcbRoles, a, b, Identity)

\* Consecutive entries are related by op: slice::windows(2).
Pairwise(s, op(_, _)) == \A i \in 1 .. Len(s) - 1 : op(s[i], s[i + 1])

Elements(s) == {s[i] : i \in DOMAIN s}

\* Checks made in order: the error of the first that fails.
FirstFailure(checks) ==
    LET failing == {i \in DOMAIN checks : ~checks[i][1]}
    IN  IF failing = {} THEN "none"
        ELSE checks[CHOOSE i \in failing : \A j \in failing : i <= j][2]

-----------------------------------------------------------------------------
(* The parts and the producer. *)

RequiredAssumptions == {1, 2, 3}
Limits == [processes |-> 1, memory |-> 1, swap |-> 0]

RequiredTcb == [i \in 1 .. 12 |-> Entry(TcbRoles[i], 1)]

Quiet == [configured |-> Limits, oomGroup |-> 1, complete |-> TRUE,
          memoryPeak |-> 0, swapPeak |-> 0, counters |-> {}]

\* The role each identity of the receipt must have.
FixedRoles ==
    [planSource |-> "execution-plan", normalizedPlan |-> "normalized-plan",
     policy |-> "compiled-policy", launcher |-> "launcher-binary",
     executable |-> "runtime-executable", loader |-> "runtime-loader-executable",
     workingDirectory |-> "working-directory", stdout |-> "standard-output",
     stderr |-> "standard-error"]

\* What build_receipt assembles for a command with nothing but an executable;
\* kernel stands for the Landlock version, of which 0 is invalid.
Base ==
    [execution |-> 1, policy |-> 1, roles |-> FixedRoles, kernel |-> 1,
     features |-> <<>>, started |-> 0, finished |-> 1,
     boundary |-> [state |-> "Installed", execution |-> 1, policy |-> 1],
     runtime |-> Art("runtime-binary", 1),
     producer |-> Art("runtime-binary", 1),
     outputRoot |-> Art("output-root", 1), loader |-> FALSE,
     inputs |-> <<>>, outputs |-> <<>>, environment |-> <<>>,
     assumptions |-> <<1, 2, 3>>, tcb |-> RequiredTcb,
     stdout |-> "Complete", stderr |-> "Complete", outcome |-> "Exited0",
     limits |-> Limits, resources |-> Quiet]

UpTo(n, S) == UNION {[1 .. k -> S] : k \in 0 .. n}
Without(s, i) == [j \in 1 .. Len(s) - 1 |-> s[IF j < i THEN j ELSE j + 1]]
Turned(s) == [i \in DOMAIN s |-> s[Len(s) + 1 - i]]

\* What a caller may put in each part.
PartValues ==
    [boundary |-> [state : Boundaries, execution : 1 .. 2, policy : 1 .. 2],
     producer |-> {Art("runtime-binary", 1), Art("runtime-binary", 2),
                   Art("launcher-binary", 1)},
     outputRoot |-> {Art("output-root", 2), Art("working-directory", 1)},
     roles |-> {[FixedRoles EXCEPT ![f] = r] : f \in DOMAIN FixedRoles,
                    r \in {"project-input", "standard-error"}},
     kernel |-> {0}, features |-> UpTo(2, 0 .. 2), started |-> {2},
     loader |-> BOOLEAN,
     inputs |-> UpTo(2, {Art("project-input", 1), Art("project-input", 2),
                         Art("runtime-library", 2), Art("output-artifact", 1)}),
     outputs |-> UpTo(2, {Art("output-artifact", 1), Art("output-artifact", 2),
                          Art("project-input", 1)}),
     environment |-> UpTo(2, 0 .. 2),
     assumptions |-> [1 .. 3 -> 1 .. 3] \union
                     {<<1, 2>>, <<4, 1, 2, 3>>, <<0, 1, 2, 3>>},
     tcb |-> {Without(RequiredTcb, i) : i \in 1 .. 12}
             \union {Append(RequiredTcb, Entry(TcbRoles[i], k)) :
                        i \in {1, 12, 13, 14}, k \in 1 .. 2}
             \union {<<>>, Turned(RequiredTcb)},
     stdout |-> StreamCaptures, stderr |-> StreamCaptures,
     outcome |-> ExecutionOutcomes,
     limits |-> {Null},
     resources |->
        {Null} \union
        [configured : {Limits, [Limits EXCEPT !.memory = 2],
                       [Limits EXCEPT !.swap = 1],
                       [Limits EXCEPT !.processes = 2]},
         oomGroup : {1}, complete : {TRUE}, memoryPeak : 0 .. 2,
         swapPeak : 0 .. 1,
         counters : {{}, {"memory-low"}, LimitEvents} \union
                    {{e} : e \in LimitEvents}
                    \union {LimitEvents \ {e} : e \in LimitEvents}]
        \union {[Quiet EXCEPT !.complete = FALSE],
                [Quiet EXCEPT !.oomGroup = 0]}]

\* canonical_string_set.
CanonicalStringSet(s) == SortSeq(s, LAMBDA a, b : a < b)

Distinct(s) == Pairwise(s, LAMBDA a, b : a # b)

HasLibrary(inputs) == \E a \in Elements(inputs) : a.role = "runtime-library"

\* require_tcb_roles.
TcbRolesPresent(p) ==
    LET roles == {e.role : e \in Elements(p.tcb)}
    IN  /\ {TcbRoles[i] : i \in 1 .. 12} \subseteq roles
        /\ p.loader => "runtime-loader-executable" \in roles
        /\ HasLibrary(p.inputs) => "runtime-library" \in roles

\* The parts as ExecutionReceipt::new leaves them: sorted inventories and sets.
\* Mutant: the inputs keep the order in which the caller registered them.
CanonicalPartsUnsorted(p) ==
    [p EXCEPT !.outputs = SortSeq(@, ArtifactOrd),
              !.tcb = SortSeq(@, TcbOrd),
              !.environment = CanonicalStringSet(@),
              !.features = CanonicalStringSet(@),
              !.assumptions = CanonicalStringSet(@)]

CanonicalParts(p) ==
    [p EXCEPT !.inputs = SortSeq(@, ArtifactOrd),
              !.outputs = SortSeq(@, ArtifactOrd),
              !.tcb = SortSeq(@, TcbOrd),
              !.environment = CanonicalStringSet(@),
              !.features = CanonicalStringSet(@),
              !.assumptions = CanonicalStringSet(@)]

HasRole(p, f) ==
    <<p.roles[f] = FixedRoles[f], "RoleMismatch">>

\* canonical_string_set: no empty text, no value twice.
SetChecks(s) == <<
    <<0 \notin Elements(s), "EmptyText">>,
    <<Distinct(CanonicalStringSet(s)), "DuplicateSetValue">> >>

\* The constructors of the parts, in the order of build_receipt.
ResourceChecks(p) == <<
    <<p.resources = Null \/ p.resources.oomGroup = 1,
        "ConfiguredResourcesInvalid">> >>
PlanChecks(p) == <<HasRole(p, "planSource"), HasRole(p, "normalizedPlan"),
                   HasRole(p, "policy")>>
PlatformChecks(p) ==
    << <<p.kernel # 0, "InvalidPlatform">> >> \o SetChecks(p.features)
CommandChecks(p) == <<
    HasRole(p, "launcher"), HasRole(p, "executable"),
    <<p.loader => HasRole(p, "loader")[1], "RoleMismatch">>,
    HasRole(p, "workingDirectory")>>
StreamChecks(p) == <<
    <<p.started <= p.finished, "ObservationOrder">>,
    HasRole(p, "stdout"), HasRole(p, "stderr")>>

\* ExecutionReceipt::new.
ReceiptChecks(p) ==
    LET c == CanonicalParts(p) IN <<
    <<\A a \in Elements(p.inputs) : a.role \in {"project-input", "runtime-library"},
        "RoleMismatch">>,
    <<\A a \in Elements(p.outputs) : a.role = "output-artifact", "RoleMismatch">>,
    <<p.outputRoot.role = "output-root", "RoleMismatch">>,
    <<p.producer.role = "runtime-binary", "RoleMismatch">>,
    <<p.boundary.execution = p.execution, "IdentityMismatch(Execution)">>,
    <<p.boundary.policy = p.policy, "IdentityMismatch(Policy)">>,
    <<p.producer = p.runtime, "IdentityMismatch(Producer)">>,
    <<Distinct(c.inputs) /\ Distinct(c.outputs), "DuplicateArtifact">>,
    <<Distinct(c.tcb), "DuplicateSetValue">>,
    <<p.tcb # <<>>, "TrustedComputingBaseEmpty">> >>
    \o SetChecks(p.environment) \o SetChecks(p.assumptions) \o <<
    <<RequiredAssumptions \subseteq Elements(p.assumptions), "AssumptionMissing">>,
    <<TcbRolesPresent(p), "TrustedComputingBaseRoleMissing">>,
    <<(p.resources = Null) = (p.limits = Null), "ResourceProfileIncomplete">> >>

ConstructionFailure(p) ==
    FirstFailure(ResourceChecks(p) \o PlanChecks(p) \o PlatformChecks(p)
                 \o CommandChecks(p) \o StreamChecks(p) \o ReceiptChecks(p))

\* LimitEvents of ReceiptResources::from_configured and incomplete.
EventsOf(resources) ==
    IF resources # Null /\ resources.complete
    THEN resources.counters \ {"memory-low"} ELSE {}

FactsOf(p) ==
    [boundary |-> p.boundary.state, outcome |-> p.outcome,
     stdout |-> p.stdout, stderr |-> p.stderr,
     structure |-> IF p.resources # Null /\ ~p.resources.complete
                   THEN "Malformed" ELSE "Valid",
     events |-> EventsOf(p.resources)]

\* The wire form of an outcome, by cbor_outcome and by serde: a kind, with the
\* exit code or the signal number.
EncodeOutcome(outcome) ==
    CASE outcome = "Exited0"        -> [kind |-> "exited", code |-> 0]
      [] outcome = "ExitedNonzero"  -> [kind |-> "exited", code |-> 1]
      [] outcome = "Signaled"       -> [kind |-> "signaled", signal |-> 1]
      [] outcome = "TimedOut"       -> [kind |-> "timed-out"]
      [] outcome = "Denied"         -> [kind |-> "denied"]
      [] outcome = "LauncherFailed" -> [kind |-> "launcher-failed"]
      [] outcome = "Incomplete"     -> [kind |-> "incomplete"]

\* cbor_resources: no terminal record for an incomplete observation.
EncodeResources(r) ==
    [configured |-> IF r = Null THEN Null ELSE r.configured,
     oomGroup |-> IF r = Null THEN 1 ELSE r.oomGroup,
     terminal |-> IF r # Null /\ r.complete
                  THEN [memoryPeak |-> r.memoryPeak, swapPeak |-> r.swapPeak,
                        counters |-> r.counters]
                  ELSE Null,
     limitEvents |-> SelectSeq(LimitEventOrder, LAMBDA e : e \in EventsOf(r))]

\* cbor_eligibility and WireEligibility::from.
EncodeEligibility(reasons) ==
    [status |-> IF reasons = <<>> THEN "reusable" ELSE "non-reusable",
     reasons |-> reasons]

\* The plan, policy, platform, runtime, command, boundary and stream records.
EncodeRecords(c) ==
    [execution |-> c.execution, policy |-> c.policy, roles |-> c.roles,
     kernel |-> c.kernel, features |-> c.features, limits |-> c.limits,
     runtime |-> c.runtime, loader |-> c.loader, boundary |-> c.boundary,
     stdout |-> c.stdout, stderr |-> c.stderr]

\* The fields of the receipt itself.
EncodeFields(c) ==
    [producer |-> c.producer, outputRoot |-> c.outputRoot,
     inputs |-> c.inputs, outputs |-> c.outputs,
     environment |-> c.environment, assumptions |-> c.assumptions,
     tcb |-> c.tcb, started |-> c.started, finished |-> c.finished,
     outcome |-> EncodeOutcome(c.outcome)]

\* canonical_bytes: JSON for version 1, deterministic CBOR for version 2.
CanonicalBytes(p) ==
    LET c == CanonicalParts(p)
    IN  [encoding |-> IF p.resources = Null THEN "json" ELSE "cbor",
         form |-> "canonical", schema |-> IF p.resources = Null THEN 1 ELSE 2]
        @@ EncodeRecords(c) @@ EncodeFields(c) @@ EncodeResources(p.resources)
        @@ EncodeEligibility(DeriveReceiptEligibility(FactsOf(p)))

-----------------------------------------------------------------------------
(* The verifier. *)

\* What a carrier may put in each wire field.
WireValues ==
    [form |-> {"canonical", "noncanonical", "duplicate-key", "diagnostic"},
     encoding |-> {"json", "cbor"}, schema |-> 1 .. 2,
     execution |-> {2}, policy |-> {2},
     boundary |-> [state : Boundaries, execution : 1 .. 2, policy : 1 .. 2],
     producer |-> {Art("runtime-binary", 2), Art("launcher-binary", 1)},
     inputs |-> UpTo(2, {Art("project-input", 1), Art("runtime-library", 2),
                         Art("output-artifact", 1)}),
     environment |-> UpTo(2, 0 .. 1),
     assumptions |-> {<<1, 2>>, <<1, 3, 2>>, <<1, 2, 3, 4>>},
     tcb |-> {<<>>, Without(RequiredTcb, 12), Turned(RequiredTcb),
              Append(RequiredTcb, Entry("runtime-library", 1))},
     roles |-> {[FixedRoles EXCEPT ![f] = "project-input"] :
                    f \in DOMAIN FixedRoles},
     kernel |-> {0}, features |-> UpTo(2, 0 .. 1), started |-> {2},
     stdout |-> StreamCaptures,
     outcome |-> {EncodeOutcome(o) : o \in ExecutionOutcomes} \union
                 {[kind |-> "signaled", signal |-> 0]},
     configured |-> {[Limits EXCEPT !.memory = 2], [Limits EXCEPT !.memory = 0]},
     limits |-> {[Limits EXCEPT !.memory = 2]}, oomGroup |-> {0},
     terminal |-> {Null} \union
        [memoryPeak : {0, 2}, swapPeak : 0 .. 1,
         counters : {{}, {"memory-low"}, {"memory-max"}, {"swap-max"},
                     {"swap-fail"}}],
     limitEvents |-> {<<>>, <<"memory-max">>, <<"swap-max">>, <<"swap-fail">>},
     status |-> {"reusable", "non-reusable"},
     reasons |-> {<<>>, <<"memory-max">>, <<"swap-max">>, <<"swap-fail">>,
                  <<"receipt-malformed">>, <<"timed-out">>,
                  <<"boundary-incomplete">>}]

\* parse_plan and parse_resources: a zero memory limit is out of range.
InRange(limits) == limits # Null /\ limits.processes # 0 /\ limits.memory # 0

\* parse_resources: the configured controls.
ParseConfigured(w) == InRange(w.configured) /\ w.oomGroup = 1

\* parse_outcome: the fields of the kind, and a nonzero signal.
ParseOutcome(w) ==
    \/ w.outcome.kind # "signaled"
    \/ w.outcome.signal # 0

\* outcome_state.
OutcomeState(outcome) ==
    CASE outcome.kind = "exited"          ->
            IF outcome.code = 0 THEN "Exited0" ELSE "ExitedNonzero"
      [] outcome.kind = "signaled"        -> "Signaled"
      [] outcome.kind = "timed-out"       -> "TimedOut"
      [] outcome.kind = "denied"          -> "Denied"
      [] outcome.kind = "launcher-failed" -> "LauncherFailed"
      [] outcome.kind = "incomplete"      -> "Incomplete"

StatusMatchesReasons(w) == (w.status = "reusable") = (w.reasons = <<>>)

\* decode_v2_receipt: deterministic CBOR with the closed structure of version 2.
DecodeV2Failure(w) == FirstFailure(<<
    <<w.form = "canonical", "MalformedCbor">>,
    <<w.configured # Null, "InvalidSchema">>,
    <<w.schema = 2, "UnsupportedVersion">>,
    <<InRange(w.limits), "InvalidSchema">>,
    <<w.kernel # 0, "InvalidSchema">>,
    <<ParseOutcome(w), "InvalidSchema">>,
    <<w.tcb # <<>>, "InvalidSchema">>,
    <<ParseConfigured(w), "InvalidSchema">>,
    <<StatusMatchesReasons(w), "InvalidSchema">> >>)

\* validate_canonical_receipt with decode_v1_receipt: strict JSON of version 1,
\* whose bytes are compared with their canonical form last.
DecodeV1Failure(w) == FirstFailure(<<
    <<w.form # "duplicate-key", "DuplicateKey">>,
    <<w.configured = Null /\ w.limits = Null, "InvalidSchema">>,
    <<w.schema = 1, "UnsupportedVersion">>,
    <<ParseOutcome(w), "InvalidSchema">>,
    <<StatusMatchesReasons(w), "InvalidSchema">>,
    <<w.form = "canonical", "BytesMismatch">> >>)

DecodeFailure(w) ==
    IF w.encoding = "cbor" THEN DecodeV2Failure(w) ELSE DecodeV1Failure(w)

\* EligibilityInput of the decoded receipt.
InputOf(w) ==
    [boundary |-> w.boundary.state, outcome |-> OutcomeState(w.outcome),
     stdout |-> w.stdout, stderr |-> w.stderr,
     structure |-> IF w.encoding = "cbor" /\ w.terminal = Null
                   THEN "Malformed" ELSE "Valid",
     events |-> IF w.encoding = "cbor" /\ w.terminal # Null
                THEN w.terminal.counters \ {"memory-low"} ELSE {}]

WireArtifactOrd(a, b) == Before(WireArtifactRoles, a, b, Digest)
WireTcbOrd(a, b) == Before(WireTcbRoles, a, b, Identity)

\* validate_string_set.
ValidateStringSet(s) ==
    0 \notin Elements(s) /\ Pairwise(s, LAMBDA a, b : a < b)

\* validate_tcb: the role part.
WireTcbRolesPresent(w) ==
    LET roles == {e.role : e \in Elements(w.tcb)}
    IN  /\ AlwaysRequiredTcbRoles \subseteq roles
        /\ w.loader => "runtime-loader-executable" \in roles
        /\ HasLibrary(w.inputs) => "runtime-library" \in roles

\* Mutant: a peak beyond its limit is never questioned.
PeaksExplainedLax(w) == TRUE

\* A peak beyond the limit of the plan needs the event that reports it.
PeaksExplained(w) ==
    /\ w.terminal.memoryPeak > w.limits.memory
           => "memory-max" \in w.terminal.counters
    /\ w.terminal.swapPeak > w.limits.swap
           => w.terminal.counters \intersect {"swap-max", "swap-fail"} # {}

\* validate_resources.
ResourcesFailure(w) ==
    IF w.encoding = "json" THEN "none"
    ELSE IF w.configured # w.limits THEN "ResourcePlanMismatch"
    ELSE IF w.terminal = Null
    THEN IF w.limitEvents = <<>> THEN "none" ELSE "ResourceEventsMismatch"
    ELSE FirstFailure(<<
        <<PeaksExplained(w), "ResourcePlanMismatch">>,
        <<w.limitEvents = LimitFailures(<<>>, InputOf(w).events),
            "ResourceEventsMismatch">> >>)

\* require_artifact for each identity with a fixed role.
RequireArtifacts(w) ==
    \A f \in DOMAIN FixedRoles :
        (f = "loader" => w.loader) => w.roles[f] = FixedRoles[f]

\* validate_receipt.
ValidationFailure(w) == FirstFailure(<<
    <<w.kernel # 0, "InvalidPlatform">>,
    <<RequireArtifacts(w), "RoleMismatch">>,
    <<w.outputRoot.role = "output-root" /\ w.producer.role = "runtime-binary",
        "RoleMismatch">>,
    <<\A a \in Elements(w.inputs) : a.role \in {"project-input", "runtime-library"},
        "RoleMismatch">>,
    <<Pairwise(w.inputs, WireArtifactOrd), "ArtifactListNotCanonical">>,
    <<\A a \in Elements(w.outputs) : a.role = "output-artifact", "RoleMismatch">>,
    <<Pairwise(w.outputs, WireArtifactOrd), "ArtifactListNotCanonical">>,
    <<ValidateStringSet(w.environment) /\ ValidateStringSet(w.features)
        /\ ValidateStringSet(w.assumptions), "SetNotCanonical">>,
    <<w.started <= w.finished, "ObservationOrder">>,
    <<w.boundary.execution = w.execution, "ExecutionIdentityMismatch">>,
    <<w.boundary.policy = w.policy, "PolicyIdentityMismatch">>,
    <<w.producer = w.runtime, "ProducerIdentityMismatch">>,
    <<RequiredAssumptions \subseteq Elements(w.assumptions), "AssumptionMissing">>,
    <<w.tcb # <<>> /\ Pairwise(w.tcb, WireTcbOrd), "TcbNotCanonical">>,
    <<WireTcbRolesPresent(w), "TcbRoleMissing">>,
    <<ResourcesFailure(w) = "none", ResourcesFailure(w)>>,
    <<w.reasons = DeriveEligibility(InputOf(w)), "EligibilityMismatch">> >>)

\* Mutant: the supplied commitment is not compared.
CommitmentMatchesAny(commitment, w) == TRUE

\* ReceiptCommitment::verify.
CommitmentMatches(commitment, w) == commitment = w

\* verify_receipt.
VerifyReceipt(w, commitment) ==
    LET error == FirstFailure(<<
            <<~(w.encoding = "json" /\ w.form = "diagnostic"),
                "DiagnosticProfileNotReusable">>,
            <<DecodeFailure(w) = "none", DecodeFailure(w)>>,
            <<CommitmentMatches(commitment, w), "CommitmentMismatch">>,
            <<ValidationFailure(w) = "none", ValidationFailure(w)>> >>)
    IN  [error |-> error,
         reasons |-> IF error = "none" THEN DeriveEligibility(InputOf(w))
                     ELSE <<>>]

-----------------------------------------------------------------------------
Init ==
    /\ stage = "parts" /\ parts = Base /\ edits = {} /\ failure = "none"
    /\ produced = Null /\ file = Null /\ altered = {} /\ expected = Null
    /\ verdict = Null

Assemble(f) ==
    /\ stage = "parts" /\ f \notin edits
    /\ Cardinality(edits) < MaxEdits
    /\ \E v \in PartValues[f] \ {parts[f]} : parts' = [parts EXCEPT ![f] = v]
    /\ edits' = edits \union {f}
    /\ UNCHANGED <<stage, failure, produced, file, altered, expected, verdict>>

\* construct_execution_receipt, canonical_bytes, commitment and persist_receipt.
Construct ==
    /\ stage = "parts"
    /\ failure' = ConstructionFailure(parts)
    /\ IF failure' = "none"
       THEN stage' = "stored" /\ produced' = CanonicalBytes(parts)
       ELSE stage' = "refused" /\ produced' = Null
    /\ file' = produced'
    /\ UNCHANGED <<parts, edits, altered, expected, verdict>>

Alter(f) ==
    /\ stage = "stored" /\ f \notin altered
    /\ Cardinality(altered) + 3 * Cardinality(edits) < MaxAlterations
    /\ \E v \in WireValues[f] \ {file[f]} : file' = [file EXCEPT ![f] = v]
    /\ altered' = altered \union {f}
    /\ UNCHANGED <<stage, parts, edits, failure, produced, expected, verdict>>

\* pbr-verify, with the commitment of the producer or with one computed from
\* the stored bytes.
Verify ==
    /\ stage = "stored" /\ stage' = "verified"
    /\ expected' \in {produced, file}
    /\ verdict' = VerifyReceipt(file, expected')
    /\ UNCHANGED <<parts, edits, failure, produced, file, altered>>

Finished == stage \in {"refused", "verified"} /\ UNCHANGED vars

Next ==
    \/ \E f \in DOMAIN PartValues : Assemble(f)
    \/ Construct \/ (\E f \in DOMAIN WireValues : Alter(f)) \/ Verify
    \/ Finished

Spec == Init /\ [][Next]_vars

-----------------------------------------------------------------------------
(* Properties. *)

Done == stage = "verified"
Accepted == Done /\ verdict.error = "none"

\* What the kernel and the run guarantee of the resources in a receipt: the
\* read-back limits are those of the plan (create_v2 compares them), and usage
\* beyond a limit is reported by its event.
ResourcesAreObserved(r) ==
    r = Null \/ (/\ r.configured = Limits
                 /\ r.memoryPeak > Limits.memory => "memory-max" \in r.counters
                 /\ r.swapPeak > Limits.swap =>
                        r.counters \intersect {"swap-max", "swap-fail"} # {})

\* The verifier accepts what the producer made: a receipt that
\* ExecutionReceipt::new built, stored unaltered and checked with its own
\* commitment, passes every independent check, and both sides give the same
\* reasons in the same order.  Its bytes do not depend on the order in which
\* a caller lists inputs, outputs, names, assumptions or the trusted
\* computing base.
ProducedIsAccepted ==
    /\ Done /\ altered = {} /\ ResourcesAreObserved(parts.resources) =>
          verdict.error = "none" /\ verdict.reasons = produced.reasons
    /\ produced # Null =>
          produced = CanonicalBytes(
              [parts EXCEPT !.inputs = Turned(@), !.outputs = Turned(@),
                            !.environment = Turned(@), !.tcb = Turned(@),
                            !.assumptions = Turned(@)])

\* With the commitment of the producer, nothing but the produced bytes is ever
\* accepted, whatever consistent set of fields the carrier changed.  Whatever
\* bytes were stored and whatever commitment was given, the verifier calls
\* reusable only what says, in itself, that the boundary of this very execution
\* and policy was complete, the child exited with zero, both streams are whole,
\* and the counters were read, are zero and stay within the plan.
AcceptedIsProduced ==
    /\ Accepted /\ expected = produced => file = produced
    /\ Accepted /\ verdict.reasons = <<>> =>
        /\ file.boundary = [state |-> "Installed", execution |-> file.execution,
                            policy |-> file.policy]
        /\ file.outcome = EncodeOutcome("Exited0")
        /\ file.stdout = "Complete" /\ file.stderr = "Complete"
        /\ file.encoding = "cbor" =>
              /\ file.configured = file.limits
              /\ file.terminal # Null
              /\ file.terminal.counters \subseteq {"memory-low"}
              /\ file.terminal.memoryPeak <= file.limits.memory
              /\ file.terminal.swapPeak <= file.limits.swap

=============================================================================
