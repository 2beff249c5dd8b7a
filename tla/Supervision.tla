---------------------------- MODULE Supervision ----------------------------
(***************************************************************************)
(* One supervised execution attempt: supervise_launcher and its helpers    *)
(* (linux/src/supervisor.rs), the launcher process it creates              *)
(* (run_launcher, linux/src/launcher.rs), the private sequence-packet      *)
(* channel between the two, the fresh cgroup that contains the process     *)
(* tree (FreshCgroup, linux/src/cgroup.rs), and what the host may do to    *)
(* them: time passes, a signal ends a process, the memory limit is hit.    *)
(*                                                                         *)
(* The process created by `spawn` first runs launcher code and, after      *)
(* execveat, child code: one variable (`proc`) follows it through both.    *)
(* Identities carried by the messages are not modelled: the channel is     *)
(* private to the two processes and both ends hold the identity of the     *)
(* same request.                                                           *)
(***************************************************************************)
EXTENDS Naturals, Sequences, FiniteSets

CONSTANTS
    MaxForks,       \* bound on the descendants the child has alive at a time
    CleanupPolls,   \* CLEANUP_POLLS: bound on the polls of one drain
    ControlFaults,  \* TRUE: reads and writes of cgroup control files may fail
    OutputLimit,    \* OutputByteLimit of each stream
    MaxExcess       \* bound on the bytes written past the limit of a stream

Streams == {"stdout", "stderr"}

ASSUME ForksAssumption == MaxForks \in Nat
ASSUME PollsAssumption == CleanupPolls \in Nat \ {0}
ASSUME FaultsAssumption == ControlFaults \in BOOLEAN
ASSUME LimitAssumption == OutputLimit \in [Streams -> Nat] /\ MaxExcess \in Nat

VARIABLES
    sup,          \* control point of the supervisor
    proc,         \* control point of the spawned process
    layers,       \* boundary layers the process has installed on itself
    ran,          \* child code has started (history, read by no action)
    hidden,       \* history: "failure" if the launcher's failure report was
                  \* not sent, "sigsys" if the host sent it SIGSYS
    placed,       \* the process is a member of the fresh cgroup
    down, up,     \* channel: supervisor to launcher, launcher to supervisor
    reset,        \* the launcher's end closed with unread messages
    late,         \* the wall-time deadline has passed
    doomed,       \* kill targets with SIGKILL pending: "process", "group"
    status,       \* wait status of the process
    reaped,       \* the wait status has been collected
    forks,        \* live descendants of the child, all in the cgroup
    memoryEvent,  \* the cgroup recorded memory or swap limit activity
    group,        \* the cgroup directory: "present" or "removed"
    polls,        \* polls made by the current drain
    observation,  \* ResourceObservation kept by finish
    written,      \* history: bytes of each stream its reader has been given
    kept,         \* bytes of each stream its reader has retained
    truncated,    \* streams whose reader has dropped bytes
    capture,      \* result of each stream reader
    boundary, outcome,  \* LifecycleResult
    error,        \* SupervisorError of the lifecycle, the spawn or the join
    dirty         \* FreshCgroup::finish returned an error

vars == <<sup, proc, layers, ran, hidden, placed, down, up, reset, late, doomed,
          status, reaped, forks, memoryEvent, group, polls, observation,
          written, kept, truncated, capture, boundary, outcome, error, dirty>>

selfVars    == <<layers, ran, hidden, status>>
memberVars  == <<placed, forks, memoryEvent>>
killVars    == <<doomed, reaped>>
channelVars == <<down, up, reset>>
groupVars   == <<group, polls, observation, dirty>>
byteVars    == <<written, kept, truncated>>
streamVars  == <<byteVars, capture>>
resultVars  == <<boundary, outcome, error>>

Layers  == {"descriptors", "privileges", "landlock", "seccomp"}

\* Control points of the spawned process.  "acked" waits in
\* receive_exec_release, "child" is after a successful execveat.
Installing == {"resumed", "prepared", "closed", "locked", "landlocked",
               "filtered"}
LauncherPoints == {"starting", "stopped", "acked", "released", "failing"}
                    \union Installing
ProcPoints == {"absent", "dead", "child"} \union LauncherPoints

Alive == proc \in LauncherPoints \union {"child"}

\* The kernel lists live members only: a zombie has left cgroup.procs.
Populated == (placed /\ Alive) \/ forks > 0

SupPoints == {"spawn", "guardWait", "waitPause", "place", "resume",
              "sendInstall", "await", "sendRelease", "tryWait",
              "checkDeadline", "lateFailure", "drain", "poll", "observe",
              "remove", "dropDrain", "dropPoll", "dropRemove", "reap",
              "joinOut", "joinErr", "returned"}

SupervisorErrors == {"DescriptorSetInvalid", "SpawnFailed",
    "PauseNotObserved", "CgroupPlacementFailed", "ResumeFailed",
    "ProtocolSendFailed", "ProtocolFailed", "WaitFailed", "StreamReadFailed"}
Statuses == {"none", "zero", "nonzero", "sigsys", "signal"}
Outcomes == {"Exited0", "ExitedNonzero", "Signaled", "TimedOut", "Denied",
             "LauncherFailed", "Incomplete"}

Init ==
    /\ sup = "spawn" /\ proc = "absent" /\ layers = {} /\ ran = FALSE
    /\ hidden = {} /\ placed = FALSE
    /\ down = <<>> /\ up = <<>> /\ reset = FALSE /\ late = FALSE
    /\ doomed = {} /\ status = "none" /\ reaped = FALSE /\ forks = 0
    /\ memoryEvent = FALSE /\ group = "present" /\ polls = 0
    /\ observation = "none" /\ truncated = {}
    /\ written = [s \in Streams |-> 0] /\ kept = [s \in Streams |-> 0]
    /\ capture = [s \in Streams |-> "reading"]
    /\ boundary = "none" /\ outcome = "none" /\ error = "none"
    /\ dirty = FALSE

-----------------------------------------------------------------------------
(* The spawned process. *)

\* A sequence-packet socket closed with unread packets makes the peer's next
\* read fail.  The launcher's end is already closed in child code.
Unread == proc # "child" /\ down # <<>>

\* The process ends with a wait status and its descriptors close.
End(s) ==
    /\ proc' = "dead"
    /\ status' = s
    /\ reset' = IF Unread THEN TRUE ELSE reset
    /\ UNCHANGED <<sup, layers, ran, memberVars, killVars, down, up,
                   groupVars, streamVars, resultVars, late>>
Die(s) == End(s) /\ UNCHANGED hidden

\* pause_for_supervisor: SIGSTOP raised on itself.
Pause ==
    /\ proc = "starting"
    /\ proc' = "stopped"
    /\ UNCHANGED <<sup, selfVars, memberVars, killVars, channelVars,
                   groupVars, streamVars, resultVars, late>>

\* The bootstrap is refused or the pause fails: exit 125 without a message.
BootstrapFail == proc = "starting" /\ Die("nonzero")

\* One step of run_launcher that succeeds: the control point moves and, for
\* a boundary step, its layer is installed.
Advance(from, to, layer) ==
    /\ proc = from
    /\ proc' = to
    /\ layers' = layers \union layer
    /\ ran' = IF to = "child" THEN TRUE ELSE ran
    /\ UNCHANGED <<sup, status, hidden, memberVars, killVars, reset, groupVars,
                   streamVars, resultVars, late>>

\* receive_install_request: a blocking read of the first message.
ReceiveInstall ==
    /\ down # <<>> /\ Head(down) = "Install"
    /\ down' = Tail(down)
    /\ Advance("resumed", "prepared", {})
    /\ UNCHANGED up

\* The declared descriptors become close-on-exec, the executable identity is
\* checked and every other descriptor is closed.
CloseDescriptors ==
    Advance("prepared", "closed", {"descriptors"}) /\ UNCHANGED <<down, up>>

LockPrivileges ==
    Advance("closed", "locked", {"privileges"}) /\ UNCHANGED <<down, up>>

InstallLandlock ==
    Advance("locked", "landlocked", {"landlock"}) /\ UNCHANGED <<down, up>>

InstallDenyNetwork ==
    /\ Advance("landlocked", "filtered", {"seccomp"})
    /\ UNCHANGED <<down, up>>

\* record_boundary_installed and acknowledge.
Acknowledge ==
    /\ up' = Append(up, "BoundaryInstalled")
    /\ Advance("filtered", "acked", {})
    /\ UNCHANGED down

\* Mutant: exec is authorized without waiting for the release.
ReceiveExecReleaseMissing ==
    Advance("acked", "released", {}) /\ UNCHANGED <<down, up>>

ReceiveExecRelease ==
    /\ down # <<>> /\ Head(down) = "ExecRelease"
    /\ down' = Tail(down)
    /\ Advance("acked", "released", {})
    /\ UNCHANGED up

\* The last identity check, fchdir and execveat.  The launcher's channel end
\* is close-on-exec, so child code cannot write to it.
Exec == Advance("released", "child", {}) /\ UNCHANGED <<down, up>>

\* A step of run_launcher fails.  The blocking reads fail only once they have
\* something to read.
LauncherStops ==
    /\ proc \in (Installing \union {"acked", "released"})
    /\ proc \in {"resumed", "acked"} => down # <<>>
    /\ proc' = "failing"
    /\ down' = IF proc \in {"resumed", "acked"} THEN Tail(down) ELSE down
    /\ UNCHANGED <<sup, layers, ran, status, memberVars, killVars, reset,
                   groupVars, streamVars, resultVars, late>>

\* report_failure, then return to main.
LauncherFail ==
    /\ LauncherStops
    /\ up' = Append(up, "Failure")
    /\ UNCHANGED hidden

\* report_failure does not look at the result of its send.
LauncherFailUnheard ==
    /\ LauncherStops
    /\ hidden' = hidden \union {"failure"}
    /\ UNCHANGED up

\* The launcher's main exits with code 125.
LauncherExit == proc = "failing" /\ Die("nonzero")

\* Child code ends by itself, or dies from the seccomp filter or a signal.
ChildEnd == proc = "child" /\ \E s \in Statuses \ {"none"} : Die(s)

\* Mutant: what was kept before is not counted.
RemainingOfAll(s) == OutputLimit[s]

\* What is left of the limit of a stream.
Remaining(s) == OutputLimit[s] - kept[s]

\* capture_stream is given `count` more bytes of a stream by one read, keeps
\* what is left of the limit and drops the rest.
CaptureStream(s, count) ==
    LET retained == IF count < Remaining(s) THEN count ELSE Remaining(s) IN
    /\ capture[s] = "reading"
    /\ written[s] + count <= OutputLimit[s] + MaxExcess
    /\ written' = [written EXCEPT ![s] = @ + count]
    /\ kept' = [kept EXCEPT ![s] = @ + retained]
    /\ truncated' = IF retained < count THEN truncated \union {s} ELSE truncated
    /\ UNCHANGED <<sup, proc, selfVars, memberVars, killVars, channelVars,
                   groupVars, capture, resultVars, late>>

\* Child code writes.  The line that a failing launcher prints before it exits
\* is left out: no result depends on it.
ChildWrite ==
    /\ proc = "child" \/ forks > 0
    /\ \E s \in Streams : \E count \in 1 .. OutputLimit[s] + MaxExcess :
          CaptureStream(s, count)

\* Child code forks inside the cgroup; a group kill also ends new forks.
Fork ==
    /\ proc = "child" \/ forks > 0
    /\ forks < MaxForks /\ "group" \notin doomed
    /\ forks' = forks + 1
    /\ UNCHANGED <<sup, proc, selfVars, placed, memoryEvent, killVars,
                   channelVars, groupVars, streamVars, resultVars, late>>

DescendantEnd ==
    /\ forks > 0
    /\ forks' = forks - 1
    /\ UNCHANGED <<sup, proc, selfVars, placed, memoryEvent, killVars,
                   channelVars, groupVars, streamVars, resultVars, late>>

\* A pending SIGKILL takes effect, possibly after further steps.
ProcessKilled ==
    /\ Alive
    /\ "process" \in doomed \/ (placed /\ "group" \in doomed)
    /\ Die("signal")

\* The host ends the process with a signal of its own, which may be the one
\* the seccomp filter uses.
HostKill ==
    /\ Alive
    /\ \E s \in {"sigsys", "signal"} :
          End(s) /\ hidden' = hidden \union ({s} \ {"signal"})

\* The cgroup reaches its memory limit; memory.oom.group kills every member.
MemoryLimit ==
    /\ Populated
    /\ memoryEvent' = TRUE
    /\ doomed' \in {doomed, doomed \union {"group"}}
    /\ UNCHANGED <<sup, proc, selfVars, placed, forks, reaped, channelVars,
                   groupVars, streamVars, resultVars, late>>

\* The wall-time deadline passes.
Tick ==
    /\ ~late
    /\ late' = TRUE
    /\ UNCHANGED <<sup, proc, selfVars, memberVars, killVars, channelVars,
                   groupVars, streamVars, resultVars>>

\* capture_stream reads to the end of the pipe, which every process of the
\* tree holds open, and then knows whether bytes were dropped.
ReaderEnd(s) ==
    /\ capture[s] = "reading" /\ proc # "absent" /\ ~Alive /\ forks = 0
    /\ capture' = [capture EXCEPT ![s] =
                      IF s \in truncated THEN "Truncated" ELSE "Complete"]
    /\ UNCHANGED <<sup, proc, selfVars, memberVars, killVars, channelVars,
                   groupVars, byteVars, resultVars, late>>

\* A read of the pipe returns an error.
ReaderFail(s) ==
    /\ capture[s] = "reading" /\ proc # "absent"
    /\ capture' = [capture EXCEPT ![s] = "failed"]
    /\ UNCHANGED <<sup, proc, selfVars, memberVars, killVars, channelVars,
                   groupVars, byteVars, resultVars, late>>

-----------------------------------------------------------------------------
(* The supervisor. *)

Goto(point) ==
    /\ sup' = point
    /\ UNCHANGED <<streamVars, late>>

\* Mutant: a lifecycle error does not kill the process.
FailWithoutKill(e) ==
    /\ Goto("drain")
    /\ error' = e
    /\ UNCHANGED <<doomed, groupVars, boundary, outcome>>

\* supervise_lifecycle returns an error: the process is killed and the
\* cgroup is finished.
Fail(e) ==
    /\ Goto("drain")
    /\ error' = e
    /\ doomed' = doomed \union {"process"}
    /\ UNCHANGED <<groupVars, boundary, outcome>>

\* The checks of the request and the spawn; the two capture threads start.
Spawn ==
    /\ sup = "spawn" /\ Goto("waitPause")
    /\ proc' = "starting"
    /\ UNCHANGED <<selfVars, memberVars, killVars, channelVars, groupVars,
                   resultVars>>

\* The request is refused or no process is created: the cgroup is dropped.
SpawnFail ==
    /\ sup = "spawn" /\ Goto("dropDrain")
    /\ error' \in {"DescriptorSetInvalid", "SpawnFailed", "WaitFailed"}
    /\ UNCHANGED <<proc, selfVars, memberVars, killVars, channelVars,
                   groupVars, boundary, outcome>>

\* A capture thread cannot start: ChildGuard kills the process and waits.
CaptureSpawnFail ==
    /\ sup = "spawn" /\ Goto("guardWait")
    /\ proc' = "starting"
    /\ error' = "StreamReadFailed"
    /\ doomed' = {"process"}
    /\ UNCHANGED <<selfVars, memberVars, reaped, channelVars, groupVars,
                   boundary, outcome>>

GuardWait ==
    /\ sup = "guardWait" /\ proc = "dead" /\ Goto("dropDrain")
    /\ reaped' = TRUE
    /\ UNCHANGED <<proc, selfVars, memberVars, doomed, channelVars,
                   groupVars, resultVars>>

\* wait_for_pause sees the stop.
PauseObserved ==
    /\ sup = "waitPause" /\ proc = "stopped" /\ Goto("place")
    /\ UNCHANGED <<proc, selfVars, memberVars, killVars, channelVars,
                   groupVars, resultVars>>

\* wait_for_pause collects the status of a process that ended instead.
PauseExited ==
    /\ sup = "waitPause" /\ proc = "dead" /\ Fail("PauseNotObserved")
    /\ reaped' = TRUE
    /\ UNCHANGED <<proc, selfVars, memberVars, channelVars>>

PauseTimeout ==
    /\ sup = "waitPause" /\ late /\ Fail("PauseNotObserved")
    /\ UNCHANGED <<proc, selfVars, memberVars, reaped, channelVars>>

\* FreshCgroup::place_process: write cgroup.procs, check the membership.
PlaceProcess ==
    /\ sup = "place" /\ Alive /\ Goto("resume")
    /\ placed' = TRUE
    /\ UNCHANGED <<proc, selfVars, forks, memoryEvent, killVars,
                   channelVars, groupVars, resultVars>>

PlaceFail ==
    /\ sup = "place" /\ Fail("CgroupPlacementFailed")
    /\ placed' \in {FALSE, Alive}
    /\ UNCHANGED <<proc, selfVars, forks, memoryEvent, reaped, channelVars>>

\* continue_process: a SIGCONT sent to a zombie succeeds without effect.
Resume ==
    /\ sup = "resume" /\ Goto("sendInstall")
    /\ proc' = IF proc = "stopped" THEN "resumed" ELSE proc
    /\ UNCHANGED <<selfVars, memberVars, killVars, channelVars, groupVars,
                   resultVars>>

ResumeFail ==
    /\ sup = "resume" /\ Fail("ResumeFailed")
    /\ UNCHANGED <<proc, selfVars, memberVars, reaped, channelVars>>

\* LauncherChannel::send: a closed peer refuses the packet.
Send(message, point) ==
    /\ Alive /\ Goto(point)
    /\ down' = Append(down, message)
    /\ UNCHANGED <<proc, selfVars, memberVars, killVars, up, reset,
                   groupVars>>

SendInstall ==
    /\ sup = "sendInstall" /\ Send("Install", "await")
    /\ UNCHANGED resultVars

SendRelease ==
    /\ sup = "sendRelease" /\ Send("ExecRelease", "tryWait")
    /\ UNCHANGED resultVars

SendFail ==
    /\ sup \in {"sendInstall", "sendRelease"} /\ Fail("ProtocolSendFailed")
    /\ UNCHANGED <<proc, selfVars, memberVars, reaped, channelVars>>

\* The channel is readable with a packet, or with the end of the channel.
HasPacket == up # <<>> /\ ~reset
AtEof     == reset \/ (up = <<>> /\ proc \in {"dead", "child"})

\* The answer to Install.  Both continue with monitor_process.
ReceiveInstalled ==
    /\ sup = "await" /\ HasPacket /\ Head(up) = "BoundaryInstalled"
    /\ Goto("sendRelease")
    /\ up' = Tail(up) /\ boundary' = "Installed"
    /\ UNCHANGED <<proc, selfVars, memberVars, killVars, down, reset,
                   groupVars, outcome, error>>

ReceiveFailure ==
    /\ sup = "await" /\ HasPacket /\ Head(up) = "Failure" /\ Goto("tryWait")
    /\ up' = Tail(up) /\ boundary' = "Incomplete"
    /\ UNCHANGED <<proc, selfVars, memberVars, killVars, down, reset,
                   groupVars, outcome, error>>

\* The deadline ends the wait: no failure is read and no error is returned.
ReceiveTimeout ==
    /\ sup = "await" /\ late /\ ~HasPacket /\ ~AtEof /\ Goto("drain")
    /\ doomed' = doomed \union {"process"}
    /\ boundary' = "Incomplete" /\ outcome' = "TimedOut"
    /\ UNCHANGED <<proc, selfVars, memberVars, reaped, channelVars,
                   groupVars, error>>

\* The channel ended, or the answer is not a launcher's.
ReceiveError ==
    /\ sup = "await"
    /\ AtEof \/ (HasPacket
                   /\ Head(up) \notin {"BoundaryInstalled", "Failure"})
    /\ Fail("ProtocolFailed")
    /\ UNCHANGED <<proc, selfVars, memberVars, reaped, channelVars>>

\* classify_process_result of a collected wait status.
Classify(s) ==
    CASE s = "sigsys"  -> "Denied"
      [] s = "signal"  -> "Signaled"
      [] s = "zero"    -> "Exited0"
      [] s = "nonzero" -> "ExitedNonzero"
      [] OTHER         -> "Incomplete"

\* The step after monitor_process: a Failure already received decides the
\* outcome, an acknowledged launcher may still have sent one.
AfterMonitor(o) ==
    IF boundary = "Incomplete"
    THEN Goto("drain") /\ outcome' = "LauncherFailed"
    ELSE Goto("lateFailure") /\ outcome' = o

TryWaitEnded ==
    /\ sup = "tryWait" /\ proc = "dead" /\ AfterMonitor(Classify(status))
    /\ reaped' = TRUE
    /\ UNCHANGED <<proc, selfVars, memberVars, doomed, channelVars,
                   groupVars, boundary, error>>

TryWaitRunning ==
    /\ sup = "tryWait" /\ proc # "dead" /\ Goto("checkDeadline")
    /\ UNCHANGED <<proc, selfVars, memberVars, killVars, channelVars,
                   groupVars, resultVars>>

TryWaitFail ==
    /\ sup = "tryWait" /\ Fail("WaitFailed")
    /\ UNCHANGED <<proc, selfVars, memberVars, reaped, channelVars>>

MonitorAgain ==
    /\ sup = "checkDeadline" /\ ~late /\ Goto("tryWait")
    /\ UNCHANGED <<proc, selfVars, memberVars, killVars, channelVars,
                   groupVars, resultVars>>

MonitorTimeout ==
    /\ sup = "checkDeadline" /\ late /\ AfterMonitor("TimedOut")
    /\ doomed' = doomed \union {"process"}
    /\ UNCHANGED <<proc, selfVars, memberVars, reaped, channelVars,
                   groupVars, boundary, error>>

\* Mutant: a Failure sent after the acknowledgement is not looked for.
LateFailureIgnored ==
    /\ sup = "lateFailure" /\ ~reset /\ Goto("drain")
    /\ UNCHANGED <<proc, selfVars, memberVars, killVars, channelVars,
                   groupVars, resultVars>>

\* receive_late_failure: one poll without waiting.
LateFailure ==
    /\ sup = "lateFailure" /\ ~reset /\ Goto("drain")
    /\ up # <<>> => Head(up) = "Failure"
    /\ up' = IF up # <<>> THEN Tail(up) ELSE up
    /\ outcome' = IF up # <<>> THEN "LauncherFailed" ELSE outcome
    /\ UNCHANGED <<proc, selfVars, memberVars, killVars, down, reset,
                   groupVars, boundary, error>>

LateError ==
    /\ sup = "lateFailure"
    /\ reset \/ (up # <<>> /\ Head(up) # "Failure")
    /\ Fail("ProtocolFailed")
    /\ UNCHANGED <<proc, selfVars, memberVars, reaped, channelVars>>

-----------------------------------------------------------------------------
(* FreshCgroup::finish and Drop, still steps of the supervisor. *)

GroupOnly ==
    UNCHANGED <<proc, selfVars, memberVars, reaped, channelVars, resultVars>>

\* Where Drop for FreshCgroup returns to: finish is followed by child.wait,
\* an attempt that failed before the lifecycle is over.
AfterDrop == IF dirty THEN "reap" ELSE "returned"

\* drain_in_place: one cgroup.kill if the group is populated, then polls.
Drain(from, to) ==
    /\ sup = from /\ Goto(to)
    /\ doomed' = IF Populated THEN doomed \union {"group"} ELSE doomed
    /\ polls' = 0
    /\ UNCHANGED <<group, observation, dirty>> /\ GroupOnly

\* Mutant: the drain ends without asking whether the group is empty.
DrainedUnchecked(from, to) ==
    /\ sup = from /\ Goto(to)
    /\ UNCHANGED <<doomed, groupVars>> /\ GroupOnly

Drained(from, to) ==
    /\ sup = from /\ ~Populated /\ Goto(to)
    /\ polls' = 0 /\ UNCHANGED <<doomed, group, observation, dirty>> /\ GroupOnly

PollAgain ==
    /\ sup \in {"poll", "dropPoll"} /\ Populated /\ polls < CleanupPolls
    /\ Goto(sup) /\ polls' = polls + 1
    /\ UNCHANGED <<doomed, group, observation, dirty>> /\ GroupOnly

\* Mutant: the error of a failed finish is dropped.
FinishFailIgnored ==
    /\ sup \in {"drain", "poll", "remove"}
    /\ ControlFaults \/ (sup = "poll" /\ polls = CleanupPolls)
    /\ Goto("reap")
    /\ UNCHANGED <<doomed, groupVars>> /\ GroupOnly

\* finish returns an error and drops the group.
FinishFail ==
    /\ sup \in {"drain", "poll", "remove"}
    /\ ControlFaults \/ (sup = "poll" /\ polls = CleanupPolls)
    /\ Goto("dropDrain") /\ dirty' = TRUE /\ polls' = 0
    /\ UNCHANGED <<doomed, group, observation>> /\ GroupOnly

\* Drop ignores the error and leaves the directory.
DropFail ==
    /\ sup \in {"dropDrain", "dropPoll", "dropRemove"}
    /\ ControlFaults \/ (sup = "dropPoll" /\ polls = CleanupPolls)
    /\ Goto(AfterDrop) /\ polls' = 0
    /\ UNCHANGED <<doomed, group, observation, dirty>> /\ GroupOnly

\* retain_resource_observation: a failed read keeps an incomplete result.
Observe ==
    /\ sup = "observe" /\ Goto("remove")
    /\ observation' \in {IF memoryEvent THEN "limited" ELSE "complete",
                         "incomplete"}
    /\ UNCHANGED <<doomed, group, polls, dirty>> /\ GroupOnly

\* remove_in_place: the kernel refuses to remove a populated group.
Remove(from, to) ==
    /\ sup = from /\ ~Populated /\ Goto(to)
    /\ group' = "removed"
    /\ UNCHANGED <<doomed, polls, observation, dirty>> /\ GroupOnly

FinishNext ==
    \/ Drain("drain", "poll") \/ Drained("poll", "observe") \/ Observe
    \/ Remove("remove", "reap") \/ FinishFail \/ PollAgain
    \/ Drain("dropDrain", "dropPoll") \/ Drained("dropPoll", "dropRemove")
    \/ Remove("dropRemove", AfterDrop) \/ DropFail

-----------------------------------------------------------------------------
(* The end of supervise_launcher. *)

\* child.wait blocks until the process has ended.
Reap ==
    /\ sup = "reap" /\ proc = "dead" /\ Goto("joinOut")
    /\ reaped' = TRUE
    /\ UNCHANGED <<proc, selfVars, memberVars, doomed, channelVars,
                   groupVars, resultVars>>

\* join_capture blocks until the reader has ended; its error is returned
\* before the lifecycle's and the cleanup's.
Join(from, s, to) ==
    /\ sup = from /\ capture[s] # "reading"
    /\ Goto(IF capture[s] = "failed" THEN "returned" ELSE to)
    /\ error' = IF capture[s] = "failed" THEN "StreamReadFailed" ELSE error
    /\ UNCHANGED <<proc, selfVars, memberVars, killVars, channelVars,
                   groupVars, boundary, outcome>>

-----------------------------------------------------------------------------
LauncherNext ==
    \/ Pause \/ BootstrapFail \/ ReceiveInstall \/ CloseDescriptors
    \/ LockPrivileges \/ InstallLandlock \/ InstallDenyNetwork \/ Acknowledge
    \/ ReceiveExecRelease \/ Exec \/ LauncherFail \/ LauncherFailUnheard
    \/ LauncherExit

ChildNext == ChildEnd \/ ChildWrite \/ Fork \/ DescendantEnd

HostNext == ProcessKilled \/ HostKill \/ MemoryLimit \/ Tick

ReaderNext == \E s \in Streams : ReaderEnd(s) \/ ReaderFail(s)

LifecycleNext ==
    \/ Spawn \/ SpawnFail \/ CaptureSpawnFail \/ GuardWait
    \/ PauseObserved \/ PauseExited \/ PauseTimeout
    \/ PlaceProcess \/ PlaceFail \/ Resume \/ ResumeFail
    \/ SendInstall \/ SendRelease \/ SendFail
    \/ ReceiveInstalled \/ ReceiveFailure \/ ReceiveTimeout \/ ReceiveError
    \/ TryWaitEnded \/ TryWaitRunning \/ TryWaitFail
    \/ MonitorAgain \/ MonitorTimeout
    \/ LateFailure \/ LateError

SupervisorNext ==
    \/ LifecycleNext \/ FinishNext \/ Reap
    \/ Join("joinOut", "stdout", "joinErr")
    \/ Join("joinErr", "stderr", "returned")

\* supervise_launcher has returned and every process of the tree has ended.
Finished == sup = "returned" /\ ~Alive /\ forks = 0 /\ UNCHANGED vars

Next == LauncherNext \/ ChildNext \/ HostNext \/ ReaderNext
          \/ SupervisorNext \/ Finished

\* Scheduling: the supervisor and its two reader threads keep running, time
\* passes, and a process with SIGKILL pending ends.  Nothing is assumed of
\* launcher or child code.
Fairness ==
    /\ WF_vars(SupervisorNext)
    /\ WF_vars(Tick)
    /\ WF_vars(ProcessKilled)
    /\ WF_vars(DescendantEnd /\ "group" \in doomed)
    /\ \A s \in Streams : WF_vars(ReaderEnd(s))

Spec == Init /\ [][Next]_vars
FairSpec == Spec /\ Fairness

-----------------------------------------------------------------------------
(* Properties. *)

\* The type invariant of the attempt.
TypeOK ==
    /\ sup \in SupPoints /\ proc \in ProcPoints /\ layers \subseteq Layers
    /\ ran \in BOOLEAN /\ placed \in BOOLEAN /\ reset \in BOOLEAN
    /\ late \in BOOLEAN /\ reaped \in BOOLEAN /\ memoryEvent \in BOOLEAN
    /\ dirty \in BOOLEAN
    /\ down \in Seq({"Install", "ExecRelease"})
    /\ up \in Seq({"BoundaryInstalled", "Failure"})
    /\ doomed \subseteq {"process", "group"} /\ status \in Statuses
    /\ forks \in 0..MaxForks /\ polls \in 0..CleanupPolls
    /\ group \in {"present", "removed"}
    /\ observation \in {"none", "complete", "limited", "incomplete"}
    /\ hidden \subseteq {"failure", "sigsys"} /\ truncated \subseteq Streams
    /\ written \in [Streams -> Nat] /\ kept \in [Streams -> Nat]
    /\ \A s \in Streams : kept[s] <= OutputLimit[s]
    /\ capture \in [Streams -> {"reading", "Complete", "Truncated", "failed"}]
    /\ boundary \in {"none", "Installed", "Incomplete"}
    /\ outcome \in Outcomes \union {"none"}
    /\ error \in SupervisorErrors \union {"none"}

\* Child code starts only in a process that has installed every boundary
\* layer and is a member of the fresh cgroup, and only after the supervisor
\* has accepted the acknowledgement (run_launcher's order, PBR-SEQUENCE-003).
ChildOnlyInsideBoundary ==
    ran => layers = Layers /\ placed /\ boundary = "Installed"

\* What supervise_launcher returns as Ok.
Accepted == sup = "returned" /\ error = "none" /\ ~dirty

\* A returned result describes what really happened to the process.  An exit
\* code or a denial is the child's own, with two exceptions the supervisor
\* cannot see: a nonzero code may be the 125 of a launcher whose failure report
\* was lost (report_failure ignores a failed send), and a denial may be a
\* SIGSYS the host sent before execveat; an exit with zero has none.  A launcher
\* failure or an incomplete boundary means child code never started, and a
\* time-out is reported only after the deadline (supervise_lifecycle,
\* receive_late_failure).  The evidence is taken from the ended process tree:
\* limit activity at any time of the attempt is in the observation, a complete
\* stream has every byte that was written and no more than its limit, and a
\* truncated one has exactly the bytes its limit allows (capture_stream).
ResultIsTruthful ==
    Accepted =>
        /\ outcome \in {"Exited0", "ExitedNonzero", "Denied"} =>
              /\ outcome = Classify(status)
              /\ \/ ran
                 \/ outcome = "ExitedNonzero" /\ "failure" \in hidden
                 \/ outcome = "Denied" /\ "sigsys" \in hidden
        /\ outcome = "LauncherFailed" \/ boundary = "Incomplete" => ~ran
        /\ outcome = "TimedOut" => late
        /\ memoryEvent => observation \in {"limited", "incomplete"}
        /\ \A s \in Streams :
              \/ capture[s] = "Complete" /\ kept[s] = written[s]
                    /\ kept[s] <= OutputLimit[s]
              \/ capture[s] = "Truncated" /\ kept[s] = OutputLimit[s]
                    /\ kept[s] < written[s]

\* "The child stopped because it received a signal": a Signaled result is
\* about child code.  (A launcher killed between reading the release and
\* execveat is reported the same way: this one does not hold.)
SignaledMeansChildRan == Accepted /\ outcome = "Signaled" => ran

\* When supervise_launcher returns a result, no process of the attempt is
\* left, its cgroup has been removed and its wait status collected.
NothingOutlivesResult ==
    Accepted => ~Alive /\ forks = 0 /\ group = "removed" /\ reaped

\* supervise_launcher returns: neither a launcher that never answers, nor a
\* child that ignores its deadline, nor descendants that keep the stream
\* pipes open can block the supervisor for ever.  The one exception is the
\* host's: cgroup.kill could be written neither by finish nor by Drop, and the
\* descendants that were never killed hold the pipes (join_capture).
SupervisorReturns ==
    \/ <>(sup = "returned")
    \/ <>[](dirty /\ "group" \notin doomed /\ forks > 0)

=============================================================================
