----------------------------- MODULE RunAttempt -----------------------------
(***************************************************************************)
(* `pbr run`: execute_observed and persist_receipt (cli/src/run.rs), the   *)
(* fresh output root (linux/src/output.rs), the retained artifact          *)
(* descriptors (linux/src/resolve.rs) and the fresh cgroup, for several    *)
(* invocations that share one file system.  The host may edit or replace   *)
(* an artifact, kill an invocation, or lose power.  supervise_launcher is  *)
(* one Spawn step and one result step: module Supervision models it.       *)
(*                                                                         *)
(* A name of the file system holds an object.  Editing changes the content *)
(* of the object at a name; replacing puts a new object there and leaves   *)
(* the old one to whoever retains a descriptor of it.  Contents are        *)
(* numbered: a change always makes a new content.                          *)
(***************************************************************************)
EXTENDS Naturals, Sequences, FiniteSets

CONSTANTS
    Runs,           \* invocations of pbr run
    Roots,          \* names an output root can have
    Targets,        \* names a receipt can have
    Hosts,          \* what a host does: bounds on the invocations started
                    \* and on the changes of artifacts, and whether removing
                    \* a temporary file or a cgroup may fail
    None, Other     \* nobody; something that is not of these invocations

ASSUME HostsAssumption ==
    Hosts \subseteq [invocations : Nat, changes : Nat, faults : BOOLEAN]
ASSUME OwnersAssumption == None \notin Runs /\ Other \notin Runs
                             /\ None # Other

VARIABLES
    pc,         \* control point of each invocation
    step,       \* artifacts identified or checked at this control point
    rootOf, targetOf,   \* the output root and the receipt path it was given
    dirs,       \* creator of the directory at each output root name
    files,      \* who has written files in it
    outputs,    \* the output inventory of each invocation
    disk,       \* content at the name of each artifact
    held,       \* what each invocation retains of each artifact
    missed,     \* artifacts changed after their last check (history)
    launched,   \* content of the launcher that was spawned (history)
    outcome,    \* result of supervise_launcher
    group,      \* the invocation's cgroup directory
    temp,       \* the temporary receipt name exists
    data,       \* bytes of the invocation's receipt file
    slot,       \* whose receipt file each receipt name is linked to
    result,     \* what the invocation reports
    host,       \* the host, one of Hosts
    powerLost   \* the host has lost power once

vars == <<pc, step, rootOf, targetOf, dirs, files, outputs, disk, held,
          missed, launched, outcome, group, temp, data, slot, result,
          host, powerLost>>

hostVars    == <<disk, host, powerLost>>
fileVars    == <<temp, data, slot>>
attemptVars == <<held, missed, launched, outcome>>
givenVars   == <<rootOf, targetOf>>
dirVars     == <<dirs, files, outputs>>

\* The artifacts in the order they are identified, and the order in which
\* they are revalidated before the launcher is spawned.
IdentifyOrder   == <<"plan", "workdir", "executable", "input", "runtime",
                     "launcher">>
RevalidateOrder == <<"plan", "runtime", "launcher", "executable", "workdir",
                     "input">>
Artifacts == {"plan", "workdir", "executable", "input", "runtime", "launcher"}

Contents == UNION {0 .. h.changes : h \in Hosts}
\* recorded: the ArtifactIdentity; now: the content of the retained object;
\* linked: the retained object is still the one at the name.
Held == [recorded : Contents, now : Contents, linked : BOOLEAN]

Points == {"start", "plan", "root", "identify", "cgroup", "request",
           "revalidate", "empty", "spawn", "supervise", "inventory", "outputs",
           "build", "create", "write", "sync", "link", "unlink", "report", "done",
           "failed", "crashed"}
Ended == {"done", "failed", "crashed"}

Init ==
    /\ pc = [r \in Runs |-> "start"] /\ step = [r \in Runs |-> 0]
    /\ rootOf = [r \in Runs |-> None] /\ targetOf = [r \in Runs |-> None]
    /\ dirs \in [Roots -> {None, Other}]
    /\ files = [o \in Roots |-> {}] /\ outputs = [r \in Runs |-> {}]
    /\ slot \in [Targets -> {None, Other}]
    /\ disk = [a \in Artifacts |-> 0]
    /\ held = [r \in Runs |-> [a \in Artifacts |->
                  [recorded |-> 0, now |-> 0, linked |-> FALSE]]]
    /\ missed = [r \in Runs |-> {}]
    /\ launched = [r \in Runs |-> 0]
    /\ outcome = [r \in Runs |-> "none"]
    /\ group = [r \in Runs |-> "absent"]
    /\ temp = [r \in Runs |-> FALSE] /\ data = [r \in Runs |-> "none"]
    /\ result = [r \in Runs |-> "none"] /\ powerLost = FALSE
    /\ host \in Hosts

\* The invocations the host starts.
Started == {r \in Runs : pc[r] # "start"}
MayStart(r) == r \in Started \/ Cardinality(Started) < host.invocations

-----------------------------------------------------------------------------
(* Control of one invocation. *)

Goto(r, from, to) == pc[r] = from /\ pc' = [pc EXCEPT ![r] = to]

\* An invocation returns an error.  The owned FreshCgroup and the
\* TemporaryReceipt guard are dropped: both removals ignore their errors.
Fail(r) ==
    /\ pc' = [pc EXCEPT ![r] = "failed"]
    /\ result' = [result EXCEPT ![r] = "error"]
    /\ \E left \in IF host.faults THEN BOOLEAN ELSE {FALSE} :
          /\ temp' = [temp EXCEPT ![r] = @ /\ left]
          /\ group' = [group EXCEPT ![r] =
                          IF @ = "present" /\ ~left THEN "removed" ELSE @]
    /\ UNCHANGED <<data, slot>>

\* An invocation starts with its arguments.  prepare_receipt_path: the target
\* must not exist.
PrepareReceiptPath(r) ==
    /\ Goto(r, "start", "plan")
    /\ \E o \in Roots, t \in Targets :
          /\ slot[t] = None
          /\ rootOf' = [rootOf EXCEPT ![r] = o]
          /\ targetOf' = [targetOf EXCEPT ![r] = t]
    /\ UNCHANGED <<step, dirVars, hostVars, attemptVars, group,
                   fileVars, result>>

\* identify_external_artifact, resolve_working_directory,
\* discover_executable, resolve_read_path: open, retain, record the identity.
Identified(r, a) ==
    held' = [held EXCEPT ![r][a] =
                [recorded |-> disk[a], now |-> disk[a], linked |-> TRUE]]

\* The plan is identified, read through the descriptor, parsed, normalized
\* and compiled; the host capabilities are probed.
IdentifyPlan(r) ==
    /\ Goto(r, "plan", "root") /\ Identified(r, "plan")
    /\ step' = [step EXCEPT ![r] = 1]
    /\ UNCHANGED <<givenVars, dirVars, hostVars, missed, launched, outcome,
                   group, fileVars, result>>

\* Mutant: an existing directory is taken over.
CreateOutputRootReused(r) ==
    /\ Goto(r, "root", "identify")
    /\ dirs' = [dirs EXCEPT ![rootOf[r]] = r]
    /\ UNCHANGED <<step, givenVars, files, outputs, hostVars, attemptVars,
                   group, fileVars, result>>

\* FreshOutputRoot::create: mkdirat does not accept an existing name.
CreateOutputRoot(r) ==
    /\ Goto(r, "root", "identify")
    /\ dirs[rootOf[r]] = None
    /\ dirs' = [dirs EXCEPT ![rootOf[r]] = r]
    /\ UNCHANGED <<step, givenVars, files, outputs, hostVars, attemptVars,
                   group, fileVars, result>>

\* A check after mkdirat fails, or the receipt path is inside the new root:
\* the directory stays.
OutputRootRefused(r) ==
    /\ pc[r] = "root" /\ dirs[rootOf[r]] = None
    /\ dirs' = [dirs EXCEPT ![rootOf[r]] = r]
    /\ Fail(r)
    /\ UNCHANGED <<step, givenVars, files, outputs, hostVars, attemptVars>>

\* The other artifacts, one after the other.
Identify(r) ==
    LET n == step[r] + 1 IN
    /\ Goto(r, "identify", IF n = Len(IdentifyOrder) THEN "cgroup"
                                                     ELSE "identify")
    /\ Identified(r, IdentifyOrder[n])
    /\ step' = [step EXCEPT ![r] = IF n = Len(IdentifyOrder) THEN 0 ELSE n]
    /\ UNCHANGED <<givenVars, dirVars, hostVars, missed, launched, outcome,
                   group, fileVars, result>>

\* fresh_execution_id and FreshCgroup::create_v2.
CreateCgroup(r) ==
    /\ Goto(r, "cgroup", "request")
    /\ group' = [group EXCEPT ![r] = "present"]
    /\ UNCHANGED <<step, givenVars, dirVars, hostVars, attemptVars, fileVars,
                   result>>

\* create_v2 cannot read the inode of the directory it has set up: the one
\* failure that leaves the directory.
CgroupLeaked(r) ==
    /\ pc[r] = "cgroup" /\ host.faults
    /\ pc' = [pc EXCEPT ![r] = "failed"]
    /\ result' = [result EXCEPT ![r] = "error"]
    /\ group' = [group EXCEPT ![r] = "present"]
    /\ UNCHANGED <<step, givenVars, dirVars, hostVars, attemptVars, fileVars>>

\* The rules and the InstallRequest.
BuildRequest(r) ==
    /\ Goto(r, "request", "revalidate")
    /\ missed' = [missed EXCEPT ![r] = {}]
    /\ UNCHANGED <<step, givenVars, dirVars, hostVars, held, launched, outcome,
                   group, fileVars, result>>

\* Mutant: the identities are not compared.
RevalidateUnchecked(r) ==
    LET n == step[r] + 1
        a == RevalidateOrder[n]
    IN  /\ Goto(r, "revalidate", IF n = Len(RevalidateOrder) THEN "empty"
                                                             ELSE "revalidate")
        /\ step' = [step EXCEPT ![r] = IF n = Len(RevalidateOrder) THEN 0
                                                                   ELSE n]
        /\ UNCHANGED <<givenVars, dirVars, hostVars, attemptVars, group,
                       fileVars, result>>

\* revalidate_identity, artifact after artifact: the content of the retained
\* object is compared with the recorded identity.
Revalidate(r) ==
    LET n == step[r] + 1
        a == RevalidateOrder[n]
    IN  /\ pc[r] = "revalidate" /\ held[r][a].now = held[r][a].recorded
        /\ Goto(r, "revalidate", IF n = Len(RevalidateOrder) THEN "empty"
                                                             ELSE "revalidate")
        /\ step' = [step EXCEPT ![r] = IF n = Len(RevalidateOrder) THEN 0
                                                                   ELSE n]
        /\ UNCHANGED <<givenVars, dirVars, hostVars, attemptVars, group,
                       fileVars, result>>

\* FreshOutputRoot::revalidate_empty.
RevalidateEmpty(r) ==
    /\ Goto(r, "empty", "spawn") /\ files[rootOf[r]] = {}
    /\ UNCHANGED <<step, givenVars, dirVars, hostVars, attemptVars, group,
                   fileVars, result>>

\* supervise_launcher starts the launcher by its path.
Spawn(r) ==
    /\ Goto(r, "spawn", "supervise")
    /\ launched' = [launched EXCEPT ![r] = disk["launcher"]]
    /\ UNCHANGED <<step, givenVars, dirVars, hostVars, held, missed, outcome,
                   group, fileVars, result>>

\* supervise_launcher returns a result: the cgroup is gone.  The launcher
\* checks the executable through the inherited descriptor before execveat,
\* so after a change of it there is no child.
Supervised(r) ==
    /\ Goto(r, "supervise", "inventory")
    /\ \E o \in {"child", "launcherFailed"} :
          /\ o = "child" => held[r]["executable"].now
                              = held[r]["executable"].recorded
          /\ outcome' = [outcome EXCEPT ![r] = o]
    /\ files' = [files EXCEPT ![rootOf[r]] =
                    IF outcome'[r] = "child" THEN @ \union {"child"} ELSE @]
    /\ group' = [group EXCEPT ![r] = "removed"]
    /\ UNCHANGED <<step, givenVars, dirs, outputs, hostVars, held, missed,
                   launched, fileVars, result>>

\* FreshOutputRoot::inventory, then revalidate_identities of the entries.
Inventory(r) ==
    /\ Goto(r, "inventory", "outputs")
    /\ outputs' = [outputs EXCEPT ![r] = files[rootOf[r]]]
    /\ UNCHANGED <<step, givenVars, dirs, files, hostVars, attemptVars, group,
                   fileVars, result>>

RevalidateOutputs(r) ==
    /\ Goto(r, "outputs", "build") /\ outputs[r] \subseteq files[rootOf[r]]
    /\ UNCHANGED <<step, givenVars, dirVars, hostVars, attemptVars, group,
                   fileVars, result>>

\* build_receipt and canonical_bytes.
BuildReceipt(r) ==
    /\ Goto(r, "build", "create")
    /\ UNCHANGED <<step, givenVars, dirVars, hostVars, attemptVars, group,
                   fileVars, result>>

-----------------------------------------------------------------------------
(* persist_receipt. *)

\* The temporary name carries the fresh execution identity: it is unused.
CreateTemporary(r) ==
    /\ Goto(r, "create", "write")
    /\ temp' = [temp EXCEPT ![r] = TRUE]
    /\ data' = [data EXCEPT ![r] = "partial"]
    /\ UNCHANGED <<step, givenVars, dirVars, hostVars, attemptVars, group, slot,
                   result>>

WriteAll(r) ==
    /\ Goto(r, "write", "sync")
    /\ data' = [data EXCEPT ![r] = "written"]
    /\ UNCHANGED <<step, givenVars, dirVars, hostVars, attemptVars, group, temp,
                   slot, result>>

\* Mutant: the bytes are not flushed before they are published.
SyncAllOmitted(r) ==
    /\ Goto(r, "sync", "link")
    /\ UNCHANGED <<step, givenVars, dirVars, hostVars, attemptVars, group,
                   fileVars, result>>

SyncAll(r) ==
    /\ Goto(r, "sync", "link")
    /\ data' = [data EXCEPT ![r] = "synced"]
    /\ UNCHANGED <<step, givenVars, dirVars, hostVars, attemptVars, group, temp,
                   slot, result>>

\* Mutant: rename semantics, an existing receipt is replaced.
PublishReplacing(r) ==
    /\ Goto(r, "link", "unlink")
    /\ slot' = [slot EXCEPT ![targetOf[r]] = r]
    /\ UNCHANGED <<step, givenVars, dirVars, hostVars, attemptVars, group, temp,
                   data, result>>

\* hard_link refuses an existing target.
Publish(r) ==
    /\ Goto(r, "link", "unlink")
    /\ slot[targetOf[r]] = None
    /\ slot' = [slot EXCEPT ![targetOf[r]] = r]
    /\ UNCHANGED <<step, givenVars, dirVars, hostVars, attemptVars, group, temp,
                   data, result>>

\* Mutant: the result is reported although the target was not linked.
RemoveTemporaryUnlinked(r) ==
    /\ pc[r] \in {"link", "unlink"} /\ pc' = [pc EXCEPT ![r] = "report"]
    /\ temp' = [temp EXCEPT ![r] = FALSE]
    /\ UNCHANGED <<step, givenVars, dirVars, hostVars, attemptVars, group, data,
                   slot, result>>

RemoveTemporary(r) ==
    /\ Goto(r, "unlink", "report")
    /\ temp' = [temp EXCEPT ![r] = FALSE]
    /\ UNCHANGED <<step, givenVars, dirVars, hostVars, attemptVars, group, data,
                   slot, result>>

\* run_result_json, printed by main.
Report(r) ==
    /\ Goto(r, "report", "done")
    /\ result' = [result EXCEPT ![r] = "ok"]
    /\ UNCHANGED <<step, givenVars, dirVars, hostVars, attemptVars, group,
                   fileVars>>

\* Every step from the receipt path to the printed result may fail.
StepFails(r) ==
    /\ pc[r] \notin Ended
    /\ Fail(r)
    /\ UNCHANGED <<step, givenVars, dirVars, hostVars, attemptVars>>

-----------------------------------------------------------------------------
(* The host. *)

Changes == disk["plan"] + disk["workdir"] + disk["executable"]
             + disk["input"] + disk["runtime"] + disk["launcher"]

\* The artifacts that have already passed their last check.
Passed(r) ==
    CASE pc[r] = "revalidate" -> {RevalidateOrder[i] : i \in 1..step[r]}
      [] pc[r] \in {"empty", "spawn"} -> Artifacts
      [] OTHER -> {}

\* The content of the object at a name changes.
Edit(a) ==
    /\ Changes < host.changes
    /\ disk' = [disk EXCEPT ![a] = @ + 1]
    /\ held' = [r \in Runs |-> [held[r] EXCEPT ![a].now =
                  IF held[r][a].linked THEN disk[a] + 1 ELSE @]]
    /\ missed' = [r \in Runs |-> missed[r] \union (Passed(r) \intersect {a})]
    /\ UNCHANGED <<pc, step, givenVars, dirVars, launched, outcome, group,
                   fileVars, result, host, powerLost>>

\* A new object takes the name.
Replace(a) ==
    /\ Changes < host.changes
    /\ disk' = [disk EXCEPT ![a] = @ + 1]
    /\ held' = [r \in Runs |-> [held[r] EXCEPT ![a].linked = FALSE]]
    /\ UNCHANGED <<pc, step, givenVars, dirVars, missed, launched, outcome,
                   group, fileVars, result, host, powerLost>>

\* Another program adds a file to an output root, or overwrites the files.  A
\* root that no invocation uses is left alone.
WriteIntoRoot(o) ==
    /\ dirs[o] # None /\ \E r \in Runs : rootOf[r] = o
    /\ \E kept \in {files[o], {}} :
          files' = [files EXCEPT ![o] = kept \union {"host"}]
    /\ UNCHANGED <<pc, step, givenVars, dirs, outputs, hostVars, attemptVars,
                   group, fileVars, result>>

\* The invocation is killed: nothing is cleaned up.
Crash(r) ==
    /\ pc[r] \notin {"start"} \union Ended
    /\ pc' = [pc EXCEPT ![r] = "crashed"]
    /\ UNCHANGED <<step, givenVars, dirVars, hostVars, attemptVars, group,
                   fileVars, result>>

\* The host loses power: every started invocation ends, cgroups are gone,
\* bytes that were not synced may be lost and so may names, since no
\* directory is synced.
PowerLoss ==
    /\ ~powerLost /\ powerLost' = TRUE
    /\ pc' = [r \in Runs |-> IF pc[r] \in {"start"} \union Ended THEN pc[r]
                                                               ELSE "crashed"]
    /\ group' = [r \in Runs |-> IF group[r] = "present" THEN "removed"
                                                        ELSE group[r]]
    /\ \E lost \in SUBSET Runs :
          /\ data' = [r \in Runs |->
                        IF data[r] = "written" /\ r \in lost THEN "partial"
                                                             ELSE data[r]]
          /\ temp' = [r \in Runs |-> temp[r] /\ r \notin lost]
    /\ \E lost \in SUBSET Targets :
          slot' = [t \in Targets |-> IF t \in lost /\ slot[t] # Other
                                     THEN None ELSE slot[t]]
    /\ \E lost \in SUBSET Roots :
          /\ dirs' = [o \in Roots |-> IF o \in lost /\ dirs[o] # Other
                                      THEN None ELSE dirs[o]]
          /\ files' = [o \in Roots |-> IF dirs'[o] = None THEN {}
                                                          ELSE files[o]]
    /\ UNCHANGED <<step, givenVars, outputs, disk, host, attemptVars, result>>

-----------------------------------------------------------------------------
RunNext(r) ==
    \/ PrepareReceiptPath(r) \/ IdentifyPlan(r) \/ CreateOutputRoot(r)
    \/ OutputRootRefused(r) \/ Identify(r) \/ CreateCgroup(r)
    \/ CgroupLeaked(r) \/ BuildRequest(r) \/ Revalidate(r)
    \/ RevalidateEmpty(r) \/ Spawn(r) \/ Supervised(r) \/ Inventory(r)
    \/ RevalidateOutputs(r) \/ BuildReceipt(r) \/ CreateTemporary(r)
    \/ WriteAll(r) \/ SyncAll(r) \/ Publish(r) \/ RemoveTemporary(r) \/ Report(r) \/ StepFails(r)

HostNext ==
    \/ \E a \in Artifacts : Edit(a) \/ Replace(a)
    \/ \E o \in Roots : WriteIntoRoot(o)
    \/ \E r \in Runs : Crash(r)
    \/ PowerLoss

Finished == (\A r \in Runs : MayStart(r) => pc[r] \in Ended)
              /\ UNCHANGED vars

Next == (\E r \in Runs : MayStart(r) /\ RunNext(r)) \/ HostNext \/ Finished

Spec == Init /\ [][Next]_vars

-----------------------------------------------------------------------------
(* Properties. *)

\* An invocation past FreshOutputRoot::create works in a directory that it
\* created itself: two invocations never share an output root, and a root
\* left by an earlier attempt is never taken over.
OutputRootIsOwn ==
    \A r \in Runs :
        pc[r] \notin {"start", "plan", "root"} \union Ended =>
            dirs[rootOf[r]] = r

\* When the launcher is about to be spawned, every retained artifact still has
\* the recorded identity, unless it was edited after its own last check: a
\* change made at any earlier time ends the attempt (revalidate_identity).
LaunchIsFresh ==
    \A r \in Runs : pc[r] = "spawn" =>
        \A a \in Artifacts \ missed[r] :
            held[r][a].now = held[r][a].recorded

\* A receipt name, once it exists, keeps its file: no invocation replaces a
\* receipt, not even when two of them publish at the same time.  Only a power
\* loss can take a name away.
ReceiptNeverReplaced ==
    [][\A t \in Targets : slot[t] # None /\ slot'[t] # slot[t] =>
          powerLost' # powerLost /\ slot'[t] = None]_vars

\* A receipt that is visible is complete and about a supervised attempt whose
\* cgroup is gone, whatever was killed and even after a power loss
\* (sync_all before hard_link, both after supervise_launcher); and a reported
\* success means that the receipt at the requested path is this invocation's,
\* and that its temporary file and its cgroup are gone.
PublishedReceiptIsOwn ==
    /\ \A t \in Targets : \A r \in Runs : slot[t] = r =>
          /\ data[r] = "synced" /\ targetOf[r] = t
          /\ outcome[r] # "none" /\ group[r] = "removed"
    /\ \A r \in Runs : result[r] = "ok" =>
          /\ slot[targetOf[r]] = r \/ powerLost
          /\ ~temp[r] /\ group[r] = "removed"

\* "names the runtime and launcher bytes it used": the launcher recorded in a
\* published receipt is the one that was spawned, if its file was not edited
\* after the last check.  (The check reads the retained descriptor but the
\* launcher is spawned by its path: this does not hold.)
LauncherIsRecorded ==
    \A t \in Targets : \A r \in Runs :
        slot[t] = r /\ "launcher" \notin missed[r] =>
            launched[r] = held[r]["launcher"].recorded

=============================================================================
