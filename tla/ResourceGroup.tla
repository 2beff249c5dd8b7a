---------------------------- MODULE ResourceGroup ----------------------------
(***************************************************************************)
(* The cgroup of one attempt as FreshCgroup makes and reads it             *)
(* (linux/src/cgroup.rs): the controls are written and read back one by    *)
(* one, the counters are read once before and once after the run.  The     *)
(* kernel rounds, counts and formats; another process with access to the   *)
(* delegated tree may write the same controls.                             *)
(***************************************************************************)
EXTENDS Integers, FiniteSets, Sequences, SequencesExt

CONSTANTS
    GroupLimits,  \* the limits of a plan
    Hosts,        \* what the capability and the parent directory hold
    Kernels,      \* the names in the event files of a kernel, in order
    PageSize,     \* memory controls are kept in pages
    MaxCount,     \* bound on the events counted
    MaxMeddling,  \* how often another process writes a control
    NoGroup

ASSUME PageAssumption == PageSize \in Nat \ {0}

VARIABLES
    at,           \* the step of create_v2 or finish
    limits, host, kernel,
    directory,    \* "absent", "ours" or "other"
    control,      \* the value of each control file
    counter,      \* the kernel's counters
    members,      \* whether a process is in the group
    installed,    \* the controls written and read back
    group,        \* the FreshCgroup, or NoGroup
    refusal,      \* the error of create_v2
    stuck,        \* why the directory could not be removed
    observation,  \* the result of finish
    meddled,      \* how often another process wrote a control
    touched       \* the controls it wrote after they were read back

groupVars == <<at, limits, host, kernel, directory, control, counter, members,
               installed, group, refusal, stuck, observation, meddled,
               touched>>

Controls == <<"pids.max", "memory.max", "memory.swap.max", "memory.oom.group">>
MemoryNames == {"low", "high", "max", "oom", "oom_kill", "oom_group_kill"}
SwapNames == {"max", "fail"}
\* A newer kernel counts more than the names known here.
MemoryCounters == {<<"memory", n>> : n \in MemoryNames \union {"new"}}
SwapCounters == {<<"swap", n>> : n \in SwapNames \union {"high"}}
Peaks == {<<"memory", "peak">>, <<"swap", "peak">>}
Counters == MemoryCounters \union SwapCounters \union Peaks

-----------------------------------------------------------------------------
(* The kernel's files and their parsers. *)

\* installed_control_values.
Wanted(name) ==
    CASE name = "pids.max" -> limits.processes
      [] name = "memory.max" -> limits.memory
      [] name = "memory.swap.max" -> limits.swap
      [] OTHER -> 1

\* The kernel keeps whole pages.
Kept(name, value) ==
    IF name \in {"memory.max", "memory.swap.max"} THEN value - (value % PageSize)
    ELSE value

\* Mutant: a name that is not known is skipped.
ParsesNamedKnown(lines, names, ignored) ==
    /\ IsInjective(lines) /\ names \subseteq ToSet(lines)

\* parse_named_counters: every name once, no other but the ignored ones, and
\* those at most once.
ParsesNamed(lines, names, ignored) ==
    /\ ToSet(lines) \subseteq names \union ignored
    /\ IsInjective(lines) /\ names \subseteq ToSet(lines)

\* parse_resource_snapshot; the peak files hold one number.
Parses ==
    /\ ParsesNamed(kernel.memory, MemoryNames, {})
    /\ ParsesNamed(kernel.swap, SwapNames, {"high"})
    /\ kernel.peaks

Snapshot ==
    [c \in Counters \ {<<"swap", "high">>, <<"memory", "new">>} |-> counter[c]]
IsZero(snapshot) == \A c \in DOMAIN snapshot : snapshot[c] = 0

\* checked_delta: the peaks as they are, the counts since the first snapshot.
Regressed(terminal, initial) == \E c \in DOMAIN terminal : terminal[c] < initial[c]
Delta(terminal, initial) ==
    [c \in DOMAIN terminal |->
        IF c \in Peaks THEN terminal[c] ELSE terminal[c] - initial[c]]

\* limit_events: no event stands for "low".
LimitEvents(delta) ==
    {c \in DOMAIN delta : c \notin Peaks \union {<<"memory", "low">>} /\ delta[c] # 0}

-----------------------------------------------------------------------------
(* create_v2. *)

GroupInit ==
    /\ at = "capability" /\ limits \in GroupLimits /\ host \in Hosts
    /\ kernel \in Kernels
    /\ directory = IF host.exists THEN "other" ELSE "absent"
    /\ control = [i \in ToSet(Controls) |-> 0]
    /\ counter = [c \in Counters |-> 0] /\ members = FALSE
    /\ installed = 0 /\ group = NoGroup /\ refusal = NoGroup
    /\ stuck = NoGroup /\ observation = NoGroup /\ meddled = 0 /\ touched = {}

surroundings == <<limits, host, kernel, counter, members, meddled, touched>>

RefuseGroup(error) == at' = "refused" /\ refusal' = error

\* What create_v2 checks before it makes anything.
CapabilityError ==
    IF ~host.mounted \/ ~({"memory", "pids"} \subseteq host.controllers)
    THEN "capability-mismatch"
    ELSE IF limits.memory = NoGroup \/ limits.swap = NoGroup
    THEN "profile-incomplete"
    ELSE IF ~host.opens THEN "parent-unavailable"
    ELSE IF ~host.sameParent THEN "capability-mismatch"
    ELSE IF ~({"memory", "pids"} \subseteq host.enabled)
    THEN "controller-unavailable"
    ELSE NoGroup

CheckCapability ==
    /\ at = "capability"
    /\ IF CapabilityError # NoGroup THEN RefuseGroup(CapabilityError)
       ELSE at' = "make" /\ UNCHANGED refusal
    /\ UNCHANGED <<surroundings, directory, control, installed, group, stuck, observation>>

MakeDirectory ==
    /\ at = "make"
    /\ \/ directory = "absent" /\ directory' = "ours" /\ at' = "open"
          /\ UNCHANGED refusal
       \/ directory = "other" /\ RefuseGroup("exists") /\ UNCHANGED directory
       \/ directory = "absent" /\ RefuseGroup("creation-failed") /\ UNCHANGED directory
    /\ UNCHANGED <<surroundings, control, installed, group, stuck, observation>>

\* A failed set-up removes the directory, if the kernel lets it.
Abandon(error) ==
    /\ RefuseGroup(error)
    /\ \/ ~members /\ directory' = "absent" /\ UNCHANGED stuck
       \/ stuck' = "rmdir" /\ UNCHANGED directory

OpenDirectory ==
    /\ at = "open"
    /\ \/ at' = "install" /\ UNCHANGED <<refusal, directory, stuck>>
       \/ Abandon("open-failed")
    /\ UNCHANGED <<surroundings, control, installed, group, observation>>

WriteControl ==
    /\ at = "install" /\ installed < Len(Controls)
    /\ LET name == Controls[installed + 1] IN
       \/ /\ control' = [control EXCEPT ![name] = Kept(name, Wanted(name))]
          /\ at' = "readback" /\ UNCHANGED <<refusal, directory, stuck>>
       \/ Abandon("control-unavailable") /\ UNCHANGED control
    /\ UNCHANGED <<surroundings, installed, group, observation>>

\* Mutant: what the kernel kept is not compared.
ReadControlUncompared ==
    /\ at = "readback"
    /\ \/ /\ at' = "install" /\ installed' = installed + 1
          /\ UNCHANGED <<refusal, directory, stuck>>
       \/ Abandon("control-unavailable") /\ UNCHANGED installed
    /\ UNCHANGED <<surroundings, control, group, observation>>

ReadControl ==
    /\ at = "readback"
    /\ LET name == Controls[installed + 1] IN
       \/ /\ control[name] = Wanted(name)
          /\ at' = "install" /\ installed' = installed + 1
          /\ UNCHANGED <<refusal, directory, stuck>>
       \/ /\ control[name] # Wanted(name)
          /\ Abandon("limit-mismatch") /\ UNCHANGED installed
       \/ Abandon("control-unavailable") /\ UNCHANGED installed
    /\ UNCHANGED <<surroundings, control, group, observation>>

\* read_resource_snapshot, then cgroup.events and cgroup.procs.
CheckFresh ==
    /\ at = "install" /\ installed = Len(Controls)
    /\ \/ /\ Parses /\ IsZero(Snapshot) /\ ~members
          /\ group' = [configured |-> [name \in ToSet(Controls) |-> Wanted(name)],
                       initial |-> Snapshot]
          /\ at' = "identify" /\ UNCHANGED <<refusal, directory, stuck>>
       \/ /\ ~(Parses /\ IsZero(Snapshot) /\ ~members)
          /\ Abandon(IF ~Parses THEN "observation-invalid"
                     ELSE IF ~IsZero(Snapshot) THEN "observation-nonzero"
                     ELSE "not-fresh")
          /\ UNCHANGED group
       \/ Abandon("control-unavailable") /\ UNCHANGED group
    /\ UNCHANGED <<surroundings, control, installed, observation>>

\* directory_inode, outside the part that cleans up.
IdentifyGroup ==
    /\ at = "identify"
    /\ \/ at' = "ready" /\ UNCHANGED <<refusal, stuck, group>>
       \/ RefuseGroup("identity-unavailable") /\ stuck' = "inode" /\ group' = NoGroup
    /\ UNCHANGED <<surroundings, directory, control, installed, observation>>

-----------------------------------------------------------------------------
(* The run and its end. *)

\* revalidate_resources and revalidate_fresh, which the observer calls; a
\* group that fails them is dropped, and so removed.
Revalidates ==
    /\ control = group.configured
    /\ Parses /\ Snapshot = group.initial /\ ~members

Revalidate ==
    /\ at = "ready"
    /\ \/ Revalidates /\ at' = "checked" /\ UNCHANGED <<refusal, directory, members, stuck>>
       \/ /\ ~Revalidates /\ RefuseGroup("revalidation")
          /\ \/ directory' = "absent" /\ members' = FALSE /\ UNCHANGED stuck
             \/ stuck' = "rmdir" /\ UNCHANGED <<directory, members>>
    /\ UNCHANGED <<limits, host, kernel, counter, meddled, touched, control,
                   installed, group, observation>>

\* An error drops the group: members are killed and the directory removed,
\* when that works.
DropGroup ==
    /\ at' = "failed"
    /\ \/ directory' = "absent" /\ members' = FALSE /\ UNCHANGED stuck
       \/ stuck' = "rmdir" /\ UNCHANGED <<directory, members>>

Place ==
    /\ at \in {"ready", "checked"}
    /\ \/ at' = "running" /\ members' = TRUE /\ UNCHANGED <<directory, stuck>>
       \/ DropGroup
    /\ UNCHANGED <<limits, host, kernel, counter, meddled, touched, control,
                   installed, group, refusal, observation>>

\* The kernel counts.
Count(c) ==
    /\ members /\ FoldFunction(+, 0, counter) < MaxCount
    /\ counter' = [counter EXCEPT ![c] = @ + 1]
    /\ UNCHANGED <<at, limits, host, kernel, directory, control, members, installed,
                   group, refusal, stuck, observation, meddled, touched>>

\* drain_in_place: it fails when the group cannot be killed or stays populated.
DrainGroup ==
    /\ at = "running"
    /\ \/ at' = "drained" /\ members' = FALSE /\ UNCHANGED <<directory, stuck>>
       \/ DropGroup
    /\ UNCHANGED <<limits, host, kernel, counter, meddled, touched, control,
                   installed, group, refusal, observation>>

Complete(delta) ==
    [kind |-> "complete", configured |-> group.configured, delta |-> delta,
     events |-> LimitEvents(delta)]
Incomplete == [kind |-> "incomplete", configured |-> group.configured]

\* retain_resource_observation.
FinishGroup ==
    /\ at = "drained" /\ at' = "observed"
    /\ \/ /\ Parses /\ ~Regressed(Snapshot, group.initial)
          /\ observation' = Complete(Delta(Snapshot, group.initial))
       \/ observation' = Incomplete
    /\ UNCHANGED <<surroundings, directory, control, installed, group, refusal, stuck>>

\* remove_in_place: the kernel keeps a directory with members; without the
\* removal, finish has no result.
RemoveGroup ==
    /\ at = "observed"
    /\ \/ /\ ~members /\ directory' = "absent" /\ at' = "finished"
          /\ UNCHANGED <<members, stuck, observation>>
       \/ DropGroup /\ observation' = NoGroup
    /\ UNCHANGED <<limits, host, kernel, counter, meddled, touched, control,
                   installed, group, refusal>>

-----------------------------------------------------------------------------
(* Another process with access to the tree. *)

Meddle(name) ==
    /\ directory = "ours" /\ at # "refused" /\ meddled < MaxMeddling
    /\ control' = [control EXCEPT ![name] = Kept(name, Wanted(name) + PageSize)]
    /\ meddled' = meddled + 1
    /\ touched' = touched \union
          (IF name \in {Controls[i] : i \in 1..installed} THEN {name} ELSE {})
    /\ UNCHANGED <<at, limits, host, kernel, directory, counter, members, installed,
                   group, refusal, stuck, observation>>

\* A process that joins stays until it is killed.
JoinGroup ==
    /\ directory = "ours" /\ at \notin {"refused", "failed"}
    /\ ~members /\ meddled < MaxMeddling
    /\ members' = TRUE /\ meddled' = meddled + 1
    /\ UNCHANGED <<at, limits, host, kernel, directory, control, counter, installed,
                   group, refusal, stuck, observation, touched>>

GroupNext ==
    \/ CheckCapability \/ MakeDirectory \/ OpenDirectory \/ WriteControl
    \/ ReadControl \/ CheckFresh \/ IdentifyGroup \/ Revalidate \/ Place
    \/ DrainGroup \/ FinishGroup \/ RemoveGroup \/ JoinGroup
    \/ \E name \in ToSet(Controls) : Meddle(name)
    \/ \E c \in Counters : Count(c)

GroupSpec == GroupInit /\ [][GroupNext]_groupVars

-----------------------------------------------------------------------------
(* Properties. *)

\* The group of an attempt is what its receipt says.  A control that was read
\* back has the planned value until another process writes it later: one that
\* writes between the write and the read is noticed.  The directory of another
\* attempt is never taken or removed, and one that was made is left behind
\* only when it could not be removed or its inode not read.  A complete
\* observation holds every count the kernel made since the group was empty,
\* and a limit event for each but "low" and the ignored "high" of swap.
GroupIsExact ==
    /\ \A i \in 1..installed :
          control[Controls[i]] = Wanted(Controls[i]) \/ Controls[i] \in touched
    /\ host.exists => directory = "other" /\ group = NoGroup
    /\ at \in {"refused", "failed", "finished"} /\ directory = "ours" =>
          stuck # NoGroup
    /\ at = "finished" /\ observation.kind = "complete" =>
          \A file \in {"memory", "swap"} : \A i \in DOMAIN kernel[file] :
             LET name == kernel[file][i]
                 count == <<file, name>> IN
             count \notin {<<"memory", "low">>, <<"swap", "high">>} =>
                /\ count \in DOMAIN observation.delta
                /\ counter[count] = observation.delta[count]
                /\ counter[count] > 0 <=> count \in observation.events
=============================================================================
