------------------------------ MODULE Tracees -------------------------------
(***************************************************************************)
(* The kernel's side of a diagnostic trace: the tasks of the observed      *)
(* tree, the stops they report, and the launcher that becomes the target.  *)
(* A task is a thread; its group names the thread group leader.  It is     *)
(* written from how trace.rs and sys.rs use ptrace, waitpid, pidfds and    *)
(* the cgroup; the launcher's own steps are those of launcher.rs.          *)
(***************************************************************************)
EXTENDS Naturals, FiniteSets

CONSTANTS
    Procs,     \* task identities
    Root,      \* the identity of the launcher, later of the target
    MaxCalls   \* bound on the captured system calls of the tree

ASSUME RootAssumption == Root \in Procs /\ MaxCalls \in Nat

VARIABLES
    task,      \* the state of every task
    calls,     \* captured system calls entered so far
    message,   \* the packet on the launcher channel
    boundary,  \* the launcher installed its boundary
    target,    \* target code has replaced the launcher
    ran,       \* tasks that entered a system call (history)
    done       \* captured calls of each task whose completion was reported or
               \* is still to be reported (history)

kernelVars == <<task, calls, message, boundary, target, ran, done>>

\* The calls the observer tells apart: path and socket calls it captures,
\* calls it ignores, process creation, and exec.
Classes == {"path", "plain", "create", "exec"}

Absent == [st |-> "absent", stop |-> "none", arg |-> Root, sys |-> "user",
           group |-> Root, doomed |-> FALSE]
Reaped == [Absent EXCEPT !.st = "reaped"]
Born(g) == [Absent EXCEPT !.st = "stopped", !.stop = "initial", !.group = g]
Launcher == [Absent EXCEPT !.st = "running", !.sys = "boot"]

KernelInit ==
    /\ task = [p \in Procs |-> Absent]
    /\ calls = 0 /\ message = "none" /\ boundary = FALSE /\ target = FALSE
    /\ ran = {} /\ done = [p \in Procs |-> 0]

Dead(p) == [Absent EXCEPT !.st = "zombie", !.group = task[p].group]
Live(p) == task[p].st \in {"running", "stopped", "held"}
Group(g) == {q \in Procs : task[q].group = g
                             /\ task[q].st \notin {"absent", "reaped"}}

\* waitpid returns a status for p: an unreported stop, or its exit once no
\* other thread of the group it leads is left.
Waitable(p) ==
    \/ task[p].st = "stopped"
    \/ task[p].st = "zombie" /\ (task[p].group = p => Group(p) = {p})

\* What the tracer's calls do to the tasks.
Consumed(p) ==
    IF task[p].st = "zombie" THEN [task EXCEPT ![p] = Reaped]
    ELSE [task EXCEPT ![p].st = "held"]
Resumed(t, p) ==
    [t EXCEPT ![p].st = "running", ![p].stop = "none",
              ![p].sys = IF t[p].stop = "exit" THEN "user" ELSE @]
Killed(t, groups) ==
    [q \in Procs |->
        IF t[q].group \in groups /\ t[q].st \in {"running", "stopped", "held"}
        THEN [t[q] EXCEPT !.doomed = TRUE] ELSE t[q]]
CgroupKilled(t) == Killed(t, Procs)

-----------------------------------------------------------------------------
(* The launcher before the release. *)

LauncherRuns(sys) ==
    task[Root].st = "running" /\ task[Root].sys = sys /\ ~task[Root].doomed

LauncherStops(kind, from, to) ==
    /\ LauncherRuns(from)
    /\ task' = [task EXCEPT ![Root].st = "stopped", ![Root].stop = kind,
                            ![Root].sys = to]

LauncherExecs ==
    /\ LauncherStops("trap", "boot", "start")
    /\ UNCHANGED <<calls, message, boundary, target, ran, done>>
LauncherPauses ==
    /\ LauncherStops("pause", "start", "install")
    /\ UNCHANGED <<calls, message, boundary, target, ran, done>>

LauncherInstalls ==
    /\ LauncherRuns("install") /\ message = "install"
    /\ boundary' = TRUE /\ message' = "installed"
    /\ task' = [task EXCEPT ![Root].sys = "release"]
    /\ UNCHANGED <<calls, target, ran, done>>

LauncherFails ==
    /\ \E sys \in {"boot", "start", "install", "release"} : LauncherRuns(sys)
    /\ task' = [task EXCEPT ![Root] = Dead(Root)]
    /\ message' = IF task[Root].sys = "install" THEN "failure" ELSE message
    /\ UNCHANGED <<calls, boundary, target, ran, done>>

\* SIGSTOP reaches the launcher while it waits for the release.
LauncherStopped ==
    /\ message = "stop" /\ LauncherStops("pause", "release", "release")
    /\ UNCHANGED <<calls, message, boundary, target, ran, done>>

\* The launcher reads the release.  The stop may have interrupted the receive
\* call, whose exit is then the first stop the tracer sees.
LauncherReleased ==
    /\ LauncherRuns("release") /\ message = "released"
    /\ \/ task' = [task EXCEPT ![Root].sys = "user"]
       \/ task' = [task EXCEPT ![Root].sys = "user", ![Root].st = "stopped",
                               ![Root].stop = "exit"]
    /\ message' = "none"
    /\ UNCHANGED <<calls, boundary, target, ran, done>>

-----------------------------------------------------------------------------
(* The tasks of the tree. *)

Runs(p) == task[p].st = "running" /\ ~task[p].doomed

Enter(p, class) ==
    /\ Runs(p) /\ task[p].sys = "user"
    /\ class # "plain" => calls < MaxCalls
    /\ task' = [task EXCEPT ![p].st = "stopped", ![p].stop = "enter",
                            ![p].sys = class]
    /\ calls' = IF class = "plain" THEN calls ELSE calls + 1
    /\ ran' = ran \union {p}
    /\ UNCHANGED <<message, boundary, target, done>>

\* "leaving" is a creation or an exec whose event has been reported.
Leave(p) ==
    /\ Runs(p) /\ task[p].sys \in Classes \union {"leaving"}
    /\ task' = [task EXCEPT ![p].st = "stopped", ![p].stop = "exit"]
    /\ done' = [done EXCEPT ![p] = IF task[p].sys = "plain" THEN @ ELSE @ + 1]
    /\ UNCHANGED <<calls, message, boundary, target, ran>>

\* The child exists, attached and stopped, before its parent reports it.
\* Identities are fresh; which one is free does not matter.
Create(p, thread) ==
    LET fresh == {q \in Procs : task[q].st = "absent"}
        child == CHOOSE q \in fresh : TRUE
    IN
    /\ Runs(p) /\ task[p].sys = "create" /\ fresh # {}
    /\ task' = [task EXCEPT
          ![child] = Born(IF thread THEN task[p].group ELSE child),
          ![p].sys = "created", ![p].arg = child]
    /\ UNCHANGED <<calls, message, boundary, target, ran, done>>
ReportCreate(p) ==
    /\ Runs(p) /\ task[p].sys = "created"
    /\ task' = [task EXCEPT ![p].st = "stopped", ![p].stop = "create",
                            ![p].sys = "leaving"]
    /\ UNCHANGED <<calls, message, boundary, target, ran, done>>

\* exec ends the other threads of the group, waits until they are collected,
\* and gives the caller the identity of the leader.
Exec(p) ==
    /\ Runs(p) /\ task[p].sys = "exec"
    /\ task' = [q \in Procs |->
          IF q = p THEN [task[q] EXCEPT !.sys = "execing"]
          ELSE Killed(task, {task[p].group})[q]]
    /\ UNCHANGED <<calls, message, boundary, target, ran, done>>
ExecDone(p) ==
    LET g == task[p].group IN
    /\ Runs(p) /\ task[p].sys = "execing"
    /\ Group(g) \subseteq {p, g}
    /\ g # p => task[g].st = "zombie"
    /\ task' = [q \in Procs |->
          IF q = g THEN [task[p] EXCEPT !.st = "stopped", !.stop = "exec",
                                        !.arg = p, !.sys = "leaving"]
          ELSE IF q = p THEN Reaped ELSE task[q]]
    /\ target' = TRUE /\ done' = [done EXCEPT ![g] = @ + 1]
    /\ UNCHANGED <<calls, message, boundary, ran>>

Signal(p) ==
    /\ Runs(p) /\ task[p].sys = "user"
    /\ task' = [task EXCEPT ![p].st = "stopped", ![p].stop = "signal"]
    /\ UNCHANGED <<calls, message, boundary, target, ran, done>>

\* One thread ends, or it ends the whole group.
Exit(p, whole) ==
    /\ Runs(p) /\ task[p].sys = "plain"
    /\ task' = IF whole THEN [Killed(task, {task[p].group}) EXCEPT ![p] = Dead(p)]
               ELSE [task EXCEPT ![p] = Dead(p)]
    /\ UNCHANGED <<calls, message, boundary, target, ran, done>>

\* Thread groups are killed by a task of the tree or by the host, or the
\* whole cgroup is by the kernel (memory.oom.group).
Slay(groups) ==
    /\ \E q \in Procs :
          Live(q) /\ task[q].group \in groups /\ ~task[q].doomed
    /\ task' = Killed(task, groups)
    /\ UNCHANGED <<calls, message, boundary, target, ran, done>>

\* A killed task dies, whatever it was doing: a stop that was not reported
\* is lost, with the completed call it was about, and so is the report of a
\* child it had just created.
Die(p) ==
    LET lost == /\ task[p].st = "stopped" /\ task[p].stop \in {"exit", "exec"}
                /\ task[p].sys \notin {"plain", "user"}
    IN
    /\ task[p].doomed /\ Live(p)
    /\ task' = [task EXCEPT ![p] = Dead(p)]
    /\ done' = [done EXCEPT ![p] = IF lost THEN @ - 1 ELSE @]
    /\ UNCHANGED <<calls, message, boundary, target, ran>>

LauncherStep == \/ LauncherExecs \/ LauncherPauses \/ LauncherInstalls
                \/ LauncherFails \/ LauncherStopped \/ LauncherReleased
TaskStep ==
    \E p \in Procs :
        \/ \E class \in Classes : Enter(p, class)
        \/ Leave(p) \/ ReportCreate(p) \/ Exec(p) \/ ExecDone(p)
        \/ \E thread \in BOOLEAN : Create(p, thread)
        \/ Signal(p) \/ \E whole \in BOOLEAN : Exit(p, whole)
        \/ Slay({p}) \/ Die(p)
KernelStep == LauncherStep \/ TaskStep \/ Slay(Procs)
=============================================================================
