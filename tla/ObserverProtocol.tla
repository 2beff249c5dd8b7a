-------------------------- MODULE ObserverProtocol --------------------------
(***************************************************************************)
(* The pure lifecycle of the diagnostic observer (observer.rs): a value    *)
(* that orders the setup, keeps a ledger of the processes it was told      *)
(* about, counts their events against the declared bounds, and decides     *)
(* whether a result may be published.  Every operation is a function from  *)
(* one protocol value to the next; the directive it returns is             *)
(* TerminateAndDrain exactly when the next state is "Draining".            *)
(***************************************************************************)
EXTENDS Naturals, FiniteSets

DiagnosticGaps == {"ChildLost", "ObserverFailed", "ProcessLimit",
                   "EventLimit", "EventPerProcessLimit", "UnexpectedStop",
                   "IdentityDrift", "SymlinkLimit"}

ObserverStates == {"Prepared", "Attached", "BoundaryReady", "OptionsEnabled",
                   "Released", "Draining", "Complete", "Incomplete"}

\* ledger maps each retained process to the number of events it was charged;
\* bounds has the fields processes, events and perProcess.
NewProtocol(root, bounds) ==
    [state |-> "Prepared", bounds |-> bounds, ledger |-> [p \in {root} |-> 0],
     seen |-> {root}, total |-> 0, gaps |-> {}, confirmed |-> FALSE]

Tracked(o) == DOMAIN o.ledger
Draining(o) == o.state = "Draining"

\* The ordered setup: attach_root, record_boundary_ready,
\* enable_trace_options, release_target.
SetupOrder == <<"Prepared", "Attached", "BoundaryReady", "OptionsEnabled",
                "Released">>
Advance(o, state) ==
    LET i == CHOOSE i \in 1 .. 4 : SetupOrder[i] = o.state
    IN  IF SetupOrder[i + 1] = state THEN [o EXCEPT !.state = state] ELSE o

StopWithGap(o, gap) ==
    [o EXCEPT !.gaps = @ \union {gap}, !.state = "Draining",
              !.confirmed = FALSE]

\* In a draining protocol any discovery revokes the confirmation.
Rediscovered(o) == [o EXCEPT !.confirmed = @ /\ ~Draining(o)]

DiscoverChild(o, parent, child) ==
    IF parent \notin Tracked(o) THEN StopWithGap(o, "ChildLost")
    ELSE IF child \in o.seen THEN StopWithGap(o, "ObserverFailed")
    ELSE IF Cardinality(o.seen) >= o.bounds.processes
         THEN StopWithGap(o, "ProcessLimit")
    ELSE Rediscovered([o EXCEPT
            !.seen = @ \union {child},
            !.ledger = [p \in Tracked(o) \union {child} |->
                          IF p = child THEN 0 ELSE o.ledger[p]]])

Exhausted(o, p) ==
    {g \in {"EventPerProcessLimit", "EventLimit"} :
        \/ g = "EventPerProcessLimit" /\ o.ledger[p] >= o.bounds.perProcess
        \/ g = "EventLimit" /\ o.total >= o.bounds.events}

RecordEvent(o, p) ==
    IF p \notin Tracked(o) THEN StopWithGap(o, "ChildLost")
    ELSE IF Draining(o) THEN Rediscovered(o)
    ELSE IF Exhausted(o, p) # {}
         THEN [o EXCEPT !.gaps = @ \union Exhausted(o, p),
                        !.state = "Draining", !.confirmed = FALSE]
    ELSE [o EXCEPT !.ledger[p] = @ + 1, !.total = @ + 1]

\* Mutant: the survivor's earlier thread stays in the ledger.
RecordExecKeepingFormer(o, former, survivor, superseded) ==
    IF former \notin Tracked(o) THEN StopWithGap(o, "ObserverFailed")
    ELSE [o EXCEPT !.seen = @ \union {survivor},
                   !.ledger = [p \in Tracked(o) \union {survivor} |->
                     IF p = survivor THEN o.ledger[former] ELSE o.ledger[p]]]

\* The surviving identity inherits the count of the thread that called exec.
RecordExec(o, former, survivor, superseded) ==
    IF /\ former \in Tracked(o) /\ former \notin superseded
       /\ superseded \subseteq Tracked(o)
       /\ (former # survivor) = (survivor \in superseded)
    THEN Rediscovered([o EXCEPT
            !.seen = @ \union {survivor},
            !.ledger = [p \in (Tracked(o) \ ({former} \union superseded))
                                \union {survivor} |->
                          IF p = survivor THEN o.ledger[former]
                          ELSE o.ledger[p]]])
    ELSE StopWithGap(o, "ObserverFailed")

RecordProcessExit(o, p) ==
    IF p \in Tracked(o)
    THEN [o EXCEPT !.ledger = [q \in Tracked(o) \ {p} |-> o.ledger[q]]]
    ELSE StopWithGap(o, "ChildLost")

RecordUnexpectedStop(o, p) ==
    StopWithGap(o, IF p \in Tracked(o) THEN "UnexpectedStop" ELSE "ChildLost")

\* record_observer_failure after release; before it the adapter drops the
\* session and publishes nothing.
RecordObserverFailure(o) == StopWithGap(o, "ObserverFailed")

\* confirm_tree_drained refuses a ledger that still has a process.
MayConfirm(o) == Draining(o) /\ Tracked(o) = {}
ConfirmTreeDrained(o) == [o EXCEPT !.confirmed = TRUE]

MayFinish(o) == Tracked(o) = {} /\ (Draining(o) => o.confirmed)
Finish(o) ==
    [o EXCEPT !.state = IF o.gaps = {} THEN "Complete" ELSE "Incomplete"]
=============================================================================
