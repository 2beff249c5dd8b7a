-------------------------- MODULE DiagnosticTrace ---------------------------
(***************************************************************************)
(* One diagnostic execution: the ptrace session (trace.rs), the adapter    *)
(* that couples it to the pure protocol (adapter.rs), the event mapper     *)
(* (mapping.rs) and the command's collection loop (diagnose-cli main.rs),  *)
(* over the tasks of Tracees.  A wait and everything done with its status  *)
(* is one step: the task it is about is stopped or dead, and the other     *)
(* tasks cannot see the tracer's state.                                    *)
(***************************************************************************)
EXTENDS Tracees, ObserverProtocol, Functions

CONSTANTS
    Bounds,    \* the bounds of observation to choose from
    None       \* no process

VARIABLES
    pc,          \* the typestate of the session
    trace,       \* retained tracees, pidfds, the held tracee, and whether a
                 \* reported child could not be reconciled
    protocol,    \* the pure protocol
    untracked,   \* children the protocol did not take into its ledger
    late,        \* the execution deadline has passed
    drainLate,   \* the cleanup deadline has passed
    code,        \* the observer error that selected termination; the errors
                 \* of a ptrace, wait or pidfd call are "ControlFailed"
    events,      \* mapped events per process identity
    unresolved,  \* gaps of candidate resolution
    result       \* what the command returned

observerVars == <<pc, trace, protocol, untracked, late, drainLate, code,
                  events, unresolved, result>>
vars == <<kernelVars, observerVars>>

Startup == {"prepared", "awaitExec", "awaitPause", "awaitAcknowledgement",
            "awaitStop", "acknowledged", "ready"}

\* TraceeState: a retained tracee, awaiting its first stop or not, with the
\* system call whose exit is awaited.
TraceeState(g, awaiting, allowExit) ==
    [group |-> g, awaiting |-> awaiting, allowExit |-> allowExit,
     pending |-> "none"]

NoTrace == [processes |-> [p \in {} |-> 0], handles |-> {}, held |-> None,
            unreconciled |-> FALSE]
Retained(tr) == DOMAIN tr.processes

Init ==
    /\ KernelInit
    /\ pc = "prepared" /\ trace = NoTrace
    /\ \E b \in Bounds : protocol = NewProtocol(Root, b)
    /\ untracked = {} /\ late = FALSE /\ drainLate = FALSE /\ code = "none"
    /\ events = [p \in Procs |-> 0] /\ unresolved = {} /\ result = "none"

-----------------------------------------------------------------------------
(* Startup: each typestate consumes the one before it. *)

Setup(from, to, t) ==
    /\ pc = from /\ ~late /\ pc' = to /\ task' = t
    /\ UNCHANGED <<calls, boundary, target, ran, done, untracked,
                   late, drainLate, code, events, unresolved, result>>

RootStopped(kind) == task[Root].st = "stopped" /\ task[Root].stop = kind

\* The child is placed in the cgroup and its streams are drained before any
\* of its stops is awaited.
Spawn ==
    /\ Setup("prepared", "awaitExec", [task EXCEPT ![Root] = Launcher])
    /\ UNCHANGED <<message, trace, protocol>>

WaitForInitialExecStop ==
    /\ RootStopped("trap")
    /\ Setup("awaitExec", "awaitPause", Resumed(task, Root))
    /\ protocol' = Advance(protocol, "Attached")
    /\ UNCHANGED <<message, trace>>

ContinueForBoundary ==
    /\ RootStopped("pause")
    /\ Setup("awaitPause", "awaitAcknowledgement", Resumed(task, Root))
    /\ message' = "install"
    /\ UNCHANGED <<trace, protocol>>

ReceiveAcknowledgement ==
    /\ message = "installed"
    /\ Setup("awaitAcknowledgement", "awaitStop", task)
    /\ message' = "stop"
    /\ UNCHANGED <<trace, protocol>>

AcknowledgedStop ==
    /\ RootStopped("pause")
    /\ Setup("awaitStop", "acknowledged", Consumed(Root))
    /\ protocol' = Advance(protocol, "BoundaryReady")
    /\ UNCHANGED <<message, trace>>

InstallOptions ==
    /\ task[Root].st = "held"
    /\ Setup("acknowledged", "ready", task)
    /\ protocol' = Advance(protocol, "OptionsEnabled")
    /\ UNCHANGED <<message, trace>>

\* Mutant: the release does not wait for the tracing options.
ReleaseUntraced ==
    /\ task[Root].st = "held"
    /\ Setup("acknowledged", "active", Resumed(task, Root))
    /\ protocol' = Advance(protocol, "Released")
    /\ message' = "released"
    /\ trace' = [NoTrace EXCEPT
          !.processes = [p \in {Root} |-> TraceeState(Root, FALSE, TRUE)],
          !.handles = {Root}]

\* The release is sent while the launcher is stopped; only the resumption
\* that follows the pidfd lets it read the release.
Release ==
    /\ task[Root].st = "held"
    /\ Setup("ready", "active", Resumed(task, Root))
    /\ protocol' = Advance(protocol, "Released")
    /\ message' = "released"
    /\ trace' = [NoTrace EXCEPT
          !.processes = [p \in {Root} |-> TraceeState(Root, FALSE, TRUE)],
          !.handles = {Root}]

\* Any failure of a startup step, a deadline included, drops the session:
\* the root is killed and collected and nothing is published.
StartupFail ==
    /\ pc \in Startup
    /\ pc' = "returned" /\ result' = "failed"
    /\ task' = [task EXCEPT ![Root] = Reaped]
    /\ UNCHANGED <<calls, message, boundary, target, ran, done, trace,
                   protocol, untracked, late, drainLate, code, events,
                   unresolved>>

-----------------------------------------------------------------------------
(* What one wait status means to the active trace.  An outcome carries the *)
(* next trace and protocol; "quiet" outcomes resume the tracee and return  *)
(* no event, the others hold it until the next request.                    *)

Outcome(tr, o) == [code |-> "none", quiet |-> FALSE, trace |-> tr,
                   protocol |-> o, mapped |-> FALSE, gap |-> {},
                   untracked |-> {}]
Failed(c) == [Outcome(trace, protocol) EXCEPT !.code = c]
Quiet(tr) == [Outcome(tr, protocol) EXCEPT !.quiet = TRUE]
Hold(tr, p) == [tr EXCEPT !.held = p]

\* Adapter: an event is charged unless its discovery already stops the trace.
Charge(o, p) == IF Draining(o) THEN o ELSE RecordEvent(o, p)

\* reconcile_exec_processes and remove_unused_process_handles.
UsedHandles(ps, hs) == {g \in hs : \E p \in DOMAIN ps : ps[p].group = g}
ExecReconciles(survivor, former) ==
    /\ {survivor, former} \subseteq Retained(trace)
    /\ trace.processes[survivor].group = survivor
    /\ trace.processes[former].group = survivor
Superseded(survivor, former) ==
    {p \in Retained(trace) \ {former} : trace.processes[p].group = survivor}
AfterExec(survivor, former) ==
    LET kept == (Retained(trace) \ ({former}
                   \union Superseded(survivor, former))) \union {survivor}
        ps == [p \in kept |->
                 IF p = survivor
                 THEN [trace.processes[former] EXCEPT !.awaiting = FALSE,
                                                      !.group = survivor]
                 ELSE trace.processes[p]]
    IN  [trace EXCEPT !.processes = ps,
                      !.handles = UsedHandles(ps, @ \union {survivor})]

\* Mutant: a successful exec is a lifecycle event without a record.
ExecOutcomesUnmapped(p) ==
    LET former == task[p].arg
        o == RecordExec(protocol, former, p, Superseded(p, former))
    IN  IF ExecReconciles(p, former)
        THEN {Outcome(Hold(AfterExec(p, former), p), Charge(o, p))}
        ELSE {Failed("ProcessIdentityChanged")}

ExecOutcomes(p) ==
    LET former == task[p].arg
        tr == AfterExec(p, former)
        o == RecordExec(protocol, former, p, Superseded(p, former))
    IN  IF ExecReconciles(p, former)
        THEN {[Outcome(Hold(tr, p), Charge(o, p)) EXCEPT
                 !.mapped = tr.processes[p].pending = "captured"]}
        ELSE {Failed("ProcessIdentityChanged")}

\* Mutant: the drain set is no larger than the declared process count.
DrainCapacityTight == protocol.bounds.processes

DrainCapacity == 2 * protocol.bounds.processes

\* register_child; a creation that cannot be reconciled marks the trace for
\* good.
Registered(child) ==
    LET g == task[child].group IN
    [trace EXCEPT
       !.processes = [p \in Retained(trace) \union {child} |->
                        IF p = child THEN TraceeState(g, TRUE, FALSE)
                        ELSE trace.processes[p]],
       !.handles = @ \union {g}]
FullForDrain == Cardinality(Retained(trace)) >= DrainCapacity
Unreconciled(c) == [Failed(c) EXCEPT !.trace.unreconciled = TRUE]

CreateOutcomes(p) ==
    LET child == task[p].arg
        o == DiscoverChild(protocol, p, child)
    IN  IF child \in Retained(trace)
        THEN {Unreconciled("ProcessIdentityDuplicate")}
        ELSE IF FullForDrain THEN {Unreconciled("ProcessCapacityExceeded")}
        ELSE {Unreconciled("ControlFailed"),
              [Outcome(Hold(Registered(child), p), Charge(o, p)) EXCEPT
                 !.untracked = {child} \ Tracked(o)]}

\* handle_syscall_stop at entry: an unsupported form or unreadable operand
\* fails the observer while the tracee is still stopped at the entry.
EnterOutcomes(p) ==
    LET s == trace.processes[p]
        captured == IF task[p].sys = "plain" THEN "ignored" ELSE "captured"
    IN  IF s.awaiting THEN {Failed("InitialStopMissing")}
        ELSE IF s.pending # "none" THEN {Failed("SyscallOrderInvalid")}
        ELSE {Quiet([trace EXCEPT !.processes[p].pending = captured,
                                  !.processes[p].allowExit = FALSE]),
              Failed("ControlFailed")}

\* observe_failed_candidate: a failed path call of a tree of one process is
\* resolved twice; a drift or too many links leaves a gap of its own.
CandidateGaps(p) ==
    IF Cardinality(Retained(trace)) = 1 
    THEN {{}, {"IdentityDrift"}} ELSE {{}}

\* handle_syscall_stop at exit.
ExitOutcomes(p) ==
    LET s == trace.processes[p]
        tr == [trace EXCEPT !.processes[p].pending = "none",
                            !.processes[p].allowExit =
                               IF s.pending = "none" THEN FALSE ELSE @]
    IN  IF s.awaiting THEN {Failed("InitialStopMissing")}
        ELSE IF s.pending = "none" /\ ~s.allowExit
        THEN {Failed("SyscallOrderInvalid")}
        ELSE IF s.pending = "captured"
        THEN {[Outcome(Hold(tr, p), RecordEvent(protocol, p)) EXCEPT
                 !.mapped = TRUE, !.gap = g] : g \in CandidateGaps(p)}
        ELSE {Quiet(tr)}

UnexpectedOutcome(p) ==
    Outcome(trace, RecordUnexpectedStop(protocol, p))

\* record_terminal_process.
Forgotten(p) ==
    LET ps == [q \in Retained(trace) \ {p} |-> trace.processes[q]]
    IN  [trace EXCEPT !.processes = ps, !.handles = UsedHandles(ps, @)]

\* handle_wait_observation.  SIGKILL ends a ptrace stop: the calls on a
\* tracee that was killed after its stop was reported fail.
KilledOutcomes(p) ==
    IF task[p].st = "zombie" \/ ~task[p].doomed THEN {}
    ELSE IF task[p].stop = "create" THEN {Unreconciled("ControlFailed")}
    ELSE {Failed("ControlFailed")}

Outcomes(p) ==
    KilledOutcomes(p) \union
    IF task[p].st = "zombie"
    THEN {Outcome(Forgotten(p), RecordProcessExit(protocol, p))}
    ELSE IF task[p].stop = "exec" THEN ExecOutcomes(p)
    ELSE IF task[p].stop = "create" THEN CreateOutcomes(p)
    ELSE IF task[p].stop = "enter" THEN EnterOutcomes(p)
    ELSE IF task[p].stop = "exit" THEN ExitOutcomes(p)
    ELSE IF task[p].stop = "initial" /\ trace.processes[p].awaiting
    THEN {Quiet([trace EXCEPT !.processes[p].awaiting = FALSE])}
    ELSE {UnexpectedOutcome(p)}

-----------------------------------------------------------------------------
(* The active loop: next_event, the adapter's step and the command's. *)

Unchanged == UNCHANGED <<calls, message, boundary, target, ran, done>>

\* begin_termination: every retained group is killed through its pidfd.
BeginTermination(t, tr) ==
    /\ pc' = "draining"
    /\ trace' = [tr EXCEPT !.held = None]
    /\ task' = Killed(t, tr.handles)

ObserverFailure(t, tr, c) ==
    /\ BeginTermination(t, tr)
    /\ protocol' = RecordObserverFailure(protocol) /\ code' = c
    /\ UNCHANGED <<untracked, events, unresolved, result>>

\* An error of the command after release drops the session: its groups and
\* its cgroup are killed and nothing is published.
Abandon ==
    /\ pc' = "returned" /\ result' = "failed"
    /\ task' = CgroupKilled(task)

Deliver(p, r) ==
    /\ protocol' = r.protocol /\ untracked' = r.untracked
    /\ events' = [events EXCEPT ![p] = IF r.mapped THEN @ + 1 ELSE @]
    /\ unresolved' = unresolved \union r.gap
    /\ UNCHANGED <<code, result>>
    /\ IF Draining(r.protocol) THEN BeginTermination(Consumed(p), r.trace)
       ELSE /\ pc' = IF Retained(r.trace) = {} THEN "natural" ELSE "active"
            /\ trace' = r.trace
            /\ task' = IF r.quiet THEN Resumed(Consumed(p), p)
                       ELSE Consumed(p)

Reported(p) ==
    pc = "active" /\ trace.held = None /\ p \in Retained(trace) /\ Waitable(p)

Handle(p) ==
    /\ Reported(p) /\ ~late
    /\ \E r \in Outcomes(p) :
          IF r.code = "none" THEN Deliver(p, r)
          ELSE ObserverFailure(Consumed(p), r.trace, r.code)
    /\ Unchanged /\ UNCHANGED <<late, drainLate>>

\* The deadline is read after the wait and again after the handling: the
\* status is consumed and what it meant is not reported.
HandleLate(p) ==
    /\ Reported(p) /\ late
    /\ \E tr \in {trace} \union {r.trace : r \in Outcomes(p)} :
          ObserverFailure(Consumed(p), tr, "WaitTimedOut")
    /\ Unchanged /\ UNCHANGED <<late, drainLate>>

\* The next request first resumes the tracee of the last event.
ResumeHeld ==
    LET p == trace.held IN
    /\ pc = "active" /\ p # None
    /\ IF late \/ task[p].st # "held"
       THEN ObserverFailure(task, trace, IF late THEN "WaitTimedOut"
                                                 ELSE "ControlFailed")
       ELSE /\ task' = Resumed(task, p) /\ trace' = [trace EXCEPT !.held = None]
            /\ UNCHANGED <<pc, protocol, untracked, code, events, unresolved,
                           result>>
    /\ Unchanged /\ UNCHANGED <<late, drainLate>>

WaitTimeout ==
    /\ pc = "active" /\ trace.held = None /\ late
    /\ ObserverFailure(task, trace, "WaitTimedOut")
    /\ Unchanged /\ UNCHANGED <<late, drainLate>>

WaitFail ==
    /\ pc = "active" /\ trace.held = None /\ ~late
    /\ ObserverFailure(task, trace, "ControlFailed")
    /\ Unchanged /\ UNCHANGED <<late, drainLate>>

\* The mapper refuses an event (an operand outside its domain).
MapFails ==
    /\ pc = "active" /\ Abandon
    /\ Unchanged
    /\ UNCHANGED <<trace, protocol, untracked, late, drainLate, code, events,
                   unresolved>>

-----------------------------------------------------------------------------
(* The drain and the terminal capture. *)

DrainStep(p, tr, o, u, groups) ==
    /\ trace' = tr /\ protocol' = o /\ untracked' = u
    /\ task' = Killed(Consumed(p), groups)
    /\ pc' = IF Retained(tr) # {} THEN "draining"
             ELSE IF tr.unreconciled THEN "abandoned" ELSE "drained"
    /\ UNCHANGED <<code, result>>

DrainFails(c) ==
    Abandon /\ code' = c /\ UNCHANGED <<trace, protocol, untracked>>

\* handle_drain_observation, with the adapter's replay of the report.
DrainCreate(p) ==
    LET child == task[p].arg
        tr == IF child \in Retained(trace) THEN trace ELSE Registered(child)
        o == DiscoverChild(protocol, p, child)
    IN  IF child \notin Retained(trace) /\ FullForDrain
        THEN DrainFails("ProcessCapacityExceeded")
        ELSE DrainStep(p, tr, o, untracked \union ({child} \ Tracked(o)),
                       {task[child].group, task[p].group})
DrainExec(p) ==
    LET former == task[p].arg IN
    IF ExecReconciles(p, former)
    THEN DrainStep(p, AfterExec(p, former),
                   RecordExec(protocol, former, p, Superseded(p, former)),
                   untracked, {p})
    ELSE DrainFails("ProcessIdentityChanged")
DrainExit(p) ==
    DrainStep(p, Forgotten(p),
              IF p \in untracked THEN protocol
              ELSE RecordProcessExit(protocol, p),
              untracked \ {p}, {})

HandleDrain(p) ==
    /\ pc = "draining" /\ p \in Retained(trace) /\ Waitable(p) /\ ~drainLate
    /\ IF task[p].st = "zombie" THEN DrainExit(p)
       ELSE IF task[p].stop = "create" THEN DrainCreate(p)
       ELSE IF task[p].stop = "exec" THEN DrainExec(p)
       ELSE DrainStep(p, trace, protocol, untracked, {task[p].group})
    /\ Unchanged /\ UNCHANGED <<events, unresolved, late, drainLate>>

\* Mutant: the drain loop does not read its deadline.
DrainFailUnbounded ==
    /\ pc = "abandoned" /\ Abandon
    /\ Unchanged
    /\ UNCHANGED <<trace, protocol, untracked, late, drainLate, code, events,
                   unresolved>>

\* A failed wait, signal or identity read, the cleanup deadline, or an
\* unreconciled child ends the drain without a result.
DrainFail ==
    /\ pc \in {"draining", "abandoned"}
    /\ Abandon
    /\ Unchanged
    /\ UNCHANGED <<trace, protocol, untracked, late, drainLate, code, events,
                   unresolved>>

\* finish_terminal: the cgroup is killed if anything is left in it.
Terminal == \/ pc = "natural" /\ ~late
            \/ pc = "drained" /\ ~drainLate
KillCgroup ==
    /\ Terminal /\ \E p \in Procs : Live(p) /\ ~task[p].doomed
    /\ task' = CgroupKilled(task)
    /\ Unchanged /\ UNCHANGED observerVars

TerminalFail ==
    /\ pc \in {"natural", "drained"} /\ Abandon
    /\ Unchanged
    /\ UNCHANGED <<trace, protocol, untracked, late, drainLate, code, events,
                   unresolved>>

\* validate_events and the check of the completion in construct.
ValidEvents(b, gaps) ==
    LET total == FoldFunction(LAMBDA m, n : m + n, 0, events)
        sources == {p \in Procs : events[p] > 0}
    IN  /\ total <= b.events
        /\ \A p \in sources : events[p] <= b.perProcess
        /\ Cardinality(sources) <= b.processes
        /\ "EventLimit" \in gaps => total = b.events
        /\ "EventPerProcessLimit" \in gaps
              => \E p \in sources : events[p] = b.perProcess
        /\ "ProcessLimit" \in gaps => Cardinality(sources) = b.processes

\* The adapter's publication decision.
MayPublish ==
    IF pc = "natural" THEN MayFinish(protocol)
    ELSE /\ untracked = {} /\ MayConfirm(protocol) /\ code # "WaitTimedOut"
         /\ MayFinish(ConfirmTreeDrained(protocol))

Publish ==
    /\ Terminal /\ \A p \in Procs : ~Live(p)
    /\ pc' = "returned"
    /\ LET gaps == Finish(protocol).gaps \union unresolved IN
       result' = IF ~MayPublish THEN "failed"
                 ELSE IF ~ValidEvents(protocol.bounds, gaps) THEN "rejected"
                 ELSE IF gaps = {} THEN "complete" ELSE "incomplete"
    /\ Unchanged
    /\ UNCHANGED <<task, trace, protocol, untracked, late, drainLate, code,
                   events, unresolved>>

\* The execution deadline is not read again once the drain has begun.
Expire ==
    /\ ~late /\ pc \in Startup \union {"active", "natural"} /\ late' = TRUE
    /\ UNCHANGED <<kernelVars, pc, trace, protocol, untracked, drainLate, code,
                   events, unresolved, result>>
DrainExpire ==
    /\ ~drainLate /\ pc \in {"draining", "drained"} /\ drainLate' = TRUE
    /\ UNCHANGED <<kernelVars, pc, trace, protocol, untracked, late, code,
                   events, unresolved, result>>

-----------------------------------------------------------------------------
StartupStep ==
    \/ Spawn \/ WaitForInitialExecStop \/ ContinueForBoundary
    \/ ReceiveAcknowledgement \/ AcknowledgedStop \/ InstallOptions \/ Release
ActiveStep == ResumeHeld \/ \E p \in Procs : Handle(p) \/ HandleLate(p)
DrainingStep == \E p \in Procs : HandleDrain(p)
TerminalStep == KillCgroup \/ Publish

\* Once the command has returned the tree is no longer its concern.
TreeStep == pc # "returned" /\ KernelStep /\ UNCHANGED observerVars

Next ==
    \/ StartupStep \/ StartupFail
    \/ ActiveStep \/ WaitTimeout \/ WaitFail \/ MapFails
    \/ DrainingStep \/ DrainFail \/ TerminalStep \/ TerminalFail
    \/ Expire \/ DrainExpire \/ TreeStep

Spec == Init /\ [][Next]_vars

\* The observer polls until its deadlines; both deadlines pass and a killed
\* task dies.  The target may stop or loop, and no control call has to fail.
Fairness ==
    /\ WF_vars(StartupStep) /\ WF_vars(late /\ StartupFail)
    /\ WF_vars(ActiveStep) /\ WF_vars(WaitTimeout)
    /\ WF_vars(DrainingStep)
    /\ WF_vars((pc = "abandoned" \/ drainLate) /\ DrainFail)
    /\ WF_vars(TerminalStep)
    /\ WF_vars((late \/ drainLate) /\ TerminalFail)
    /\ WF_vars(Expire) /\ WF_vars(DrainExpire)
    /\ \A p \in Procs : WF_vars(pc # "returned" /\ Die(p)
                                   /\ UNCHANGED observerVars)

FairSpec == Spec /\ Fairness

-----------------------------------------------------------------------------
(* Properties. *)

\* Target code runs only in a process that installed its boundary, was
\* stopped and given the tracing options before it was released (the
\* consuming states of trace.rs and adapter.rs).
TargetOnlyObserved ==
    target => boundary /\ protocol.state \notin
                 {"Prepared", "Attached", "BoundaryReady", "OptionsEnabled"}

\* While the trace is active, the processes it waits for are exactly those
\* the pure protocol keeps in its ledger: neither a creation, nor an exec by
\* another thread, nor an exit makes the two drift apart.  While it drains,
\* twice the declared process count is always room for the creations that
\* were pending when the drain began (TraceProcessLimit::drain_capacity).
LedgersAgree ==
    /\ pc = "active" => Retained(trace) = Tracked(protocol)
    /\ code # "ProcessCapacityExceeded"

\* A result published as complete left nothing out: no task of the tree is
\* alive, every task that made a call was discovered, and the events hold
\* every captured call that was completed, but for the one whose exit a kill
\* kept a task from reporting.  (A task killed from outside the tree ends like
\* one that exits: record_process_exit leaves no gap, so a complete result
\* does not say that nothing was killed.)
CompleteIsWhole ==
    result = "complete" =>
        /\ \A p \in Procs : ~Live(p)
        /\ ran \subseteq protocol.seen
        /\ events = done

\* Whatever the target does, the command returns.  The cleanup deadline is
\* needed: when the report of a new thread is lost with its creator, nobody
\* waits for the thread and the leader of its group never becomes waitable.
ObserverReturns == <>(pc = "returned")

\* A directive to publish leads to a published result: the artifact accepts
\* the events and gaps the protocol decided on.
PublishDirectiveIsHonoured == result # "rejected"
=============================================================================
