---------------------- MODULE DiagnosticReceiptProofs ----------------------
(***************************************************************************)
(* What pbr-diagnose records and drafts, for any number of commands and    *)
(* any trace within the capture bounds.  The invariant RecordInv says that *)
(* the events of every command, of the receipt's parts and of the built    *)
(* receipt are mapped trace events in the order of their numbers, and that *)
(* a built draft is the draft of its receipt.  With what PlanDraftProofs   *)
(* shows of such events and drafts, no event is refused when the receipt   *)
(* is built, and the draft is justified.                                   *)
(***************************************************************************)
EXTENDS DiagnoseCommandProofs, PlanDraftProofs

\* The events of an observation that stayed within the bounds: numbered from
\* zero without a gap.
Recorded(list) ==
    /\ list \in Seq(MappedEvents) /\ Len(list) <= load.events
    /\ \A i \in 1 .. Len(list) : list[i].sequence = i - 1

\* validate_events accepts them.
LEMMA RecordedAccepted ==
    ASSUME load \in Loads, NEW list, Recorded(list), NEW set,
           set \intersect CountGaps = {}
    PROVE  EventsError(list, set) = None
<1>1. /\ Bounds.events \in Nat /\ Bounds.perProcess \in Nat
      /\ Bounds.processes \in Nat /\ list \in Seq(MappedEvents)
      /\ Len(list) <= Bounds.events /\ Len(list) <= Bounds.perProcess
      /\ Len(list) <= Bounds.processes
      /\ \A i \in 1 .. Len(list) : list[i].sequence = i - 1
  BY LoadAssumption DEF Recorded
<1> QED
  BY <1>1, EventsAccepted, Zenon

Refusals == {"exec-invocation-invalid", "event-invalid", "outcome-invalid",
             "resolution-invalid", "socket-address-invalid"}

\* The events recorded so far, in the receipt's parts and in the receipt.
RecordAt(c) ==
    /\ Recorded(events[c]) /\ gaps[c] \intersect CountGaps = {}
    /\ parts[c] # None \/ pc[c] = "build" =>
          /\ Recorded(parts[c].events)
          /\ parts[c].gaps \intersect CountGaps = {}
    /\ built[c] # None =>
          /\ Recorded(built[c].receipt.events)
          /\ built[c].draft = Draft(built[c].receipt, CommandInputs(c))
    /\ exit[c] \notin Refusals

RecordInv ==
    /\ load \in Loads
    /\ events = [c \in Commands |-> events[c]]
    /\ gaps = [c \in Commands |-> gaps[c]]
    /\ parts = [c \in Commands |-> parts[c]]
    /\ built = [c \in Commands |-> built[c]]
    /\ exit = [c \in Commands |-> exit[c]]
    /\ \A c \in Commands : RecordAt(c)

\* The observation, its end and the construction of the receipt.
RecordMoves(c) ==
    /\ events' = [events EXCEPT ![c] = events'[c]]
    /\ gaps' = [gaps EXCEPT ![c] = gaps'[c]]
    /\ parts' = [parts EXCEPT ![c] = parts'[c]]
    /\ built' = [built EXCEPT ![c] = built'[c]]
    /\ exit' = [exit EXCEPT ![c] = exit'[c]]
    /\ RecordAt(c)'

\* A step that leaves the work of c alone.
LEMMA WorkKept ==
    ASSUME RecordInv, NEW c \in Commands, pc'[c] # "build",
           UNCHANGED <<load, events, gaps, parts>>,
           UNCHANGED built \/ built' = [built EXCEPT ![c] = None],
           \/ UNCHANGED exit
           \/ \E code : code \notin Refusals /\ exit' = [exit EXCEPT ![c] = code]
    PROVE  RecordMoves(c)
<1>1. /\ events = [d \in Commands |-> events[d]]
      /\ gaps = [d \in Commands |-> gaps[d]]
      /\ parts = [d \in Commands |-> parts[d]]
      /\ built = [d \in Commands |-> built[d]]
      /\ exit = [d \in Commands |-> exit[d]]
      /\ RecordAt(c)
  BY Zenon DEF RecordInv
<1>2. /\ built' = [built EXCEPT ![c] = built'[c]]
      /\ built'[c] # None => built'[c] = built[c]
  BY <1>1, Zenon
<1>3. exit' = [exit EXCEPT ![c] = exit'[c]] /\ exit'[c] \notin Refusals
  BY <1>1, Zenon DEF RecordAt
<1>4. /\ events' = [events EXCEPT ![c] = events'[c]]
      /\ gaps' = [gaps EXCEPT ![c] = gaps'[c]]
      /\ parts' = [parts EXCEPT ![c] = parts'[c]]
  BY <1>1, Zenon
<1>5. RecordAt(c)'
  BY <1>1, <1>2, <1>3, Zenon DEF RecordAt, Recorded
<1> QED
  BY <1>2, <1>3, <1>4, <1>5, Zenon DEF RecordMoves

\* The codes of the other exits.
OtherCodes == {"invalid", "unsupported", "execution", "construction-failed",
               "cleanup-failed", "sync-failed"}
                  \union Reported \union UndoCodes

\* No other exit carries the code of a refused event.
LEMMA OtherCodesDiffer == OtherCodes \intersect Refusals = {}
BY NoneAssumption, Zenon DEF OtherCodes, Refusals, UndoCodes, Reported

\* One more event, or the end of a command whose path is not text.
LEMMA ObserveMoves ==
    ASSUME RecordInv, NEW c \in Commands, NEW event \in TraceEvents,
           Observe(c, event), UNCHANGED load, pc'[c] # "build"
    PROVE  RecordMoves(c)
<1> DEFINE n == Len(events[c])
           error == IF IsMapped(event) THEN MapError(n, event) ELSE None
<1>1. /\ events = [d \in Commands |-> events[d]]
      /\ gaps = [d \in Commands |-> gaps[d]]
      /\ parts = [d \in Commands |-> parts[d]]
      /\ built = [d \in Commands |-> built[d]]
      /\ exit = [d \in Commands |-> exit[d]]
      /\ RecordAt(c) /\ load \in Loads
  BY Zenon DEF RecordInv
<1>2. /\ Recorded(events[c]) /\ events[c] \in Seq(MappedEvents) /\ n \in Nat
      /\ load.events \in Nat
  BY <1>1, LoadAssumption DEF RecordAt, Recorded
<1>3. IsMapped(event) => MapError(n, event) \in {None, "path-encoding-invalid"}
  BY <1>2, MappingSucceeds, Zenon DEF Mappable
<1>4. /\ n < load.events
      /\ gaps' = [gaps EXCEPT ![c] = @ \union ResolutionGap(event)]
      /\ \/ Exit(c, error) /\ error # None /\ UNCHANGED events
         \/ /\ UNCHANGED exit
            /\ \/ UNCHANGED events
               \/ /\ IsMapped(event)
                  /\ events' = [events EXCEPT ![c] =
                                  Append(events[c], Event(n, event))]
      /\ UNCHANGED <<parts, built>>
  BY <1>1, Zenon DEF Observe
<1>5. gaps'[c] \intersect CountGaps = {}
  <2>1. ResolutionGap(event) \in {{}, {"identity-drift"}, {"symlink-limit"}}
    BY Zenon DEF ResolutionGap
  <2>2. gaps'[c] = gaps[c] \union ResolutionGap(event)
    BY <1>1, <1>4, Zenon
  <2> QED
    BY <1>1, <2>1, <2>2, Zenon DEF RecordAt, CountGaps
<1>6. exit' = [exit EXCEPT ![c] = exit'[c]] /\ exit'[c] \notin Refusals
  <2>1. CASE UNCHANGED exit
    BY <1>1, <2>1, Zenon DEF RecordAt
  <2>2. CASE Exit(c, error) /\ error # None
    <3>1. error = "path-encoding-invalid"
      BY <1>3, <2>2, Zenon
    <3> QED
      BY <1>1, <2>2, <3>1, Zenon DEF Exit, Refusals
  <2> QED
    BY <1>4, <2>1, <2>2, Zenon
<1>7. events' = [events EXCEPT ![c] = events'[c]] /\ Recorded(events[c])'
  <2>1. CASE UNCHANGED events
    BY <1>1, <1>2, <2>1, Zenon DEF Recorded
  <2>2. CASE /\ IsMapped(event)
             /\ events' = [events EXCEPT ![c] =
                              Append(events[c], Event(n, event))]
    <3> DEFINE new == Append(events[c], Event(n, event))
    <3>1. events'[c] = new /\ events' = [events EXCEPT ![c] = events'[c]]
      BY <1>1, <2>2, Zenon
    <3>2. event \in Mappable
      BY <2>2, Zenon DEF Mappable
    <3>3. Event(n, event) \in MappedEvents /\ Event(n, event).sequence = n
      BY <1>2, <3>2, MappedSound DEF MappedEvents
    <3>4. /\ new \in Seq(MappedEvents) /\ Len(new) = n + 1
          /\ \A i \in 1 .. n : new[i] = events[c][i]
          /\ new[n + 1] = Event(n, event)
      BY <1>2, <3>3
    <3> HIDE DEF new
    <3>5. \A i \in 1 .. Len(new) : new[i].sequence = i - 1
      BY <1>2, <3>3, <3>4, SMTT(60) DEF Recorded
    <3>6. Len(new) <= load.events
      BY <1>2, <1>4, <3>4
    <3> QED
      BY <3>1, <3>4, <3>5, <3>6, Zenon DEF Recorded
  <2> QED
    BY <1>4, <2>1, <2>2, Zenon
<1>8. /\ gaps' = [gaps EXCEPT ![c] = gaps'[c]]
      /\ parts' = [parts EXCEPT ![c] = parts'[c]]
      /\ built' = [built EXCEPT ![c] = built'[c]]
  BY <1>1, <1>4, Zenon
<1>9. RecordAt(c)'
  BY <1>1, <1>4, <1>5, <1>6, <1>7, Zenon DEF RecordAt, Recorded
<1> QED
  BY <1>6, <1>7, <1>8, <1>9, Zenon DEF RecordMoves

\* The observation ends; its events become parts of the receipt.
LEMMA EndMoves ==
    ASSUME TypeInv, RecordInv, NEW c \in Commands, NEW end \in Ends,
           EndObservation(c, end), UNCHANGED load
    PROVE  RecordMoves(c)
<1>1. /\ events = [d \in Commands |-> events[d]]
      /\ gaps = [d \in Commands |-> gaps[d]]
      /\ parts = [d \in Commands |-> parts[d]]
      /\ built = [d \in Commands |-> built[d]]
      /\ exit = [d \in Commands |-> exit[d]]
      /\ RecordAt(c) /\ load \in Loads
  BY Zenon DEF RecordInv
<1>2. /\ events' = [events EXCEPT ![c] = <<>>]
      /\ gaps' = [gaps EXCEPT ![c] = {}]
      /\ UNCHANGED built
      /\ UNCHANGED exit \/ Exit(c, "execution")
      /\ \/ UNCHANGED parts /\ Exit(c, "execution")
         \/ \E new : /\ parts' = [parts EXCEPT ![c] = new]
                     /\ new.events = events[c]
                     /\ new.gaps = end.gaps \union gaps[c]
  <2> DEFINE all == end.gaps \union gaps[c]
             publishes == /\ end.directive \in {"complete", "incomplete"}
                          /\ end.directive = "incomplete" => all # {}
  <2>1. CASE publishes
    <3> DEFINE Parts(size) ==
                 [argumentsFit |-> Plans[c].argumentsFit,
                  namesFit |-> Plans[c].namesFit, events |-> events[c],
                  gaps |-> all, size |-> size,
                  completion |-> IF all = {} THEN "complete" ELSE "incomplete"]
    <3>1. PICK size \in Sizes : parts' = [parts EXCEPT ![c] = Parts(size)]
      BY <2>1, Zenon DEF EndObservation
    <3>2. Parts(size).events = events[c] /\ Parts(size).gaps = all
      BY Zenon
    <3> HIDE DEF Parts
    <3>3. \E new : /\ parts' = [parts EXCEPT ![c] = new]
                   /\ new.events = events[c] /\ new.gaps = all
      BY <3>1, <3>2, Zenon
    <3> QED
      BY <2>1, <3>3, ZenonT(40) DEF EndObservation
  <2>2. CASE ~publishes
    BY <2>2, Zenon DEF EndObservation
  <2> QED
    BY <2>1, <2>2, Zenon
<1>3. exit' = [exit EXCEPT ![c] = exit'[c]] /\ exit'[c] \notin Refusals
  BY <1>1, <1>2, Zenon DEF RecordAt, Exit, Refusals
<1>4. /\ events' = [events EXCEPT ![c] = events'[c]]
      /\ gaps' = [gaps EXCEPT ![c] = gaps'[c]]
      /\ parts' = [parts EXCEPT ![c] = parts'[c]]
      /\ built' = [built EXCEPT ![c] = built'[c]]
      /\ events'[c] = <<>> /\ gaps'[c] = {} /\ built'[c] = built[c]
      /\ \/ parts'[c] = parts[c] /\ pc'[c] # "build"
         \/ /\ parts'[c].events = events[c]
            /\ parts'[c].gaps = end.gaps \union gaps[c]
  <2>1. Exit(c, "execution") => pc'[c] # "build"
    BY Zenon DEF TypeInv, Exit
  <2> QED
    BY <1>1, <1>2, <2>1, Zenon
<1>5. Recorded(events[c])'
  BY <1>1, <1>4, LoadAssumption DEF Recorded
<1>6. end.gaps \intersect CountGaps = {}
  BY LoadAssumption, Zenon DEF CountGaps
<1>7. parts'[c] # None \/ pc'[c] = "build" =>
         Recorded(parts[c].events)' /\ parts'[c].gaps \intersect CountGaps = {}
  BY <1>1, <1>4, <1>6, Zenon DEF RecordAt, Recorded
<1>8. built'[c] # None =>
         /\ Recorded(built[c].receipt.events)'
         /\ built'[c].draft = Draft(built'[c].receipt, CommandInputs(c))
  BY <1>1, <1>4, Zenon DEF RecordAt, Recorded
<1>9. RecordAt(c)'
  BY <1>3, <1>4, <1>5, <1>7, <1>8, Zenon DEF RecordAt
<1> QED
  BY <1>3, <1>4, <1>9, Zenon DEF RecordMoves

\* The receipt is built from its parts.
LEMMA BuildMoves ==
    ASSUME TypeInv, RecordInv, NEW c \in Commands, Build(c), UNCHANGED load
    PROVE  RecordMoves(c)
<1>1. /\ events = [d \in Commands |-> events[d]]
      /\ gaps = [d \in Commands |-> gaps[d]]
      /\ parts = [d \in Commands |-> parts[d]]
      /\ built = [d \in Commands |-> built[d]]
      /\ exit = [d \in Commands |-> exit[d]]
      /\ RecordAt(c) /\ load \in Loads
  BY Zenon DEF RecordInv
<1>2. /\ UNCHANGED <<events, gaps>>
      /\ parts' = [parts EXCEPT ![c] = None]
      /\ pc[c] = "build" /\ pc'[c] # "build"
      /\ UNCHANGED exit \/ Exit(c, "construction-failed")
      /\ UNCHANGED built \/ \E new : /\ built' = [built EXCEPT ![c] = new]
                                      /\ new.receipt = parts[c]
                                      /\ new.draft = Draft(parts[c], CommandInputs(c))
  <2>1. CASE ReceiptError(parts[c]) = None /\ DraftError(CommandInputs(c)) = None
    <3> DEFINE new == [receipt |-> parts[c],
                       draft |-> Draft(parts[c], CommandInputs(c))]
    <3>1. built' = [built EXCEPT ![c] = new] /\ Goto(c, "create-receipt")
      BY <2>1, Zenon DEF Build
    <3>2. /\ new.receipt = parts[c]
          /\ new.draft = Draft(parts[c], CommandInputs(c))
      BY Zenon
    <3>3. pc'[c] # "build"
      BY <3>1, Zenon DEF Goto, TypeInv
    <3> HIDE DEF new
    <3> QED
      BY <2>1, <3>1, <3>2, <3>3, ZenonT(40) DEF Build, At
  <2>2. CASE ~(ReceiptError(parts[c]) = None /\ DraftError(CommandInputs(c)) = None)
    <3>1. Exit(c, "construction-failed") /\ UNCHANGED built
      BY <2>2, Zenon DEF Build
    <3>2. pc'[c] # "build"
      BY <3>1, Zenon DEF Exit, TypeInv
    <3> QED
      BY <3>1, <3>2, Zenon DEF Build, At
  <2> QED
    BY <2>1, <2>2, Zenon
<1>3. exit' = [exit EXCEPT ![c] = exit'[c]] /\ exit'[c] \notin Refusals
  BY <1>1, <1>2, Zenon DEF RecordAt, Exit, Refusals
<1>4. /\ events' = [events EXCEPT ![c] = events'[c]]
      /\ gaps' = [gaps EXCEPT ![c] = gaps'[c]]
      /\ parts' = [parts EXCEPT ![c] = parts'[c]]
      /\ built' = [built EXCEPT ![c] = built'[c]]
      /\ parts'[c] = None
      /\ \/ built'[c] = built[c]
         \/ /\ built'[c].receipt = parts[c]
            /\ built'[c].draft = Draft(parts[c], CommandInputs(c))
  BY <1>1, <1>2, ZenonT(40)
<1>5. built'[c] # None => Recorded(built[c].receipt.events)'
  BY <1>1, <1>2, <1>4, Zenon DEF RecordAt, Recorded
<1>6. RecordAt(c)'
  BY <1>1, <1>2, <1>3, <1>4, <1>5, Zenon DEF RecordAt, Recorded
<1> QED
  BY <1>3, <1>4, <1>6, Zenon DEF RecordMoves

\* Every step of c.
LEMMA RecordStep ==
    ASSUME TypeInv, RecordInv, NEW c \in Commands, UNCHANGED load,
           Step(c) \/ Kill(c)
    PROVE  RecordMoves(c)
<1>1. ASSUME NEW code \in OtherCodes, Exit(c, code)
      PROVE  /\ exit' = [exit EXCEPT ![c] = code] /\ code \notin Refusals
             /\ pc'[c] # "build"
  BY <1>1, OtherCodesDiffer, Zenon DEF Exit, TypeInv
<1>2. ASSUME NEW x, x # "build", Goto(c, x) PROVE pc'[c] # "build"
  BY <1>2, Zenon DEF Goto, TypeInv
<1>3. CASE PrepareReceipt(c) \/ PrepareDraft(c)
  <2>1. /\ UNCHANGED <<events, gaps, parts, built>>
        /\ \/ UNCHANGED exit /\ \E x \in {"draft-target", "admit"} : Goto(c, x)
           \/ Exit(c, "invalid")
    BY <1>3, Zenon DEF PrepareReceipt, PrepareDraft, work
  <2> QED
    BY <1>1, <1>2, <2>1, WorkKept, Zenon DEF OtherCodes
<1>4. CASE CreateOutputRoot(c)
  <2>1. /\ UNCHANGED <<events, gaps, parts, built>>
        /\ (UNCHANGED exit /\ Goto(c, "observe")) \/ Exit(c, "invalid")
    BY <1>4, Zenon DEF CreateOutputRoot
  <2> QED
    BY <1>1, <1>2, <2>1, WorkKept, Zenon DEF OtherCodes
<1>5. CASE AdmissionFail(c) \/ ObserverFail(c)
  <2>1. /\ UNCHANGED <<events, gaps, parts, built>>
        /\ \E code \in {"invalid", "unsupported", "execution"} : Exit(c, code)
    BY <1>5, Zenon DEF AdmissionFail, ObserverFail, work
  <2> QED
    BY <1>1, <2>1, WorkKept, Zenon DEF OtherCodes
<1>6. ASSUME NEW event \in TraceEvents, Observe(c, event)
      PROVE  RecordMoves(c)
  <2>1. pc'[c] # "build"
    BY <1>6, Zenon DEF Observe, At, Exit, TypeInv
  <2> QED
    BY <1>6, <2>1, ObserveMoves, Zenon
<1>7. ASSUME NEW end \in Ends, EndObservation(c, end)
      PROVE  RecordMoves(c)
  BY <1>7, EndMoves, Zenon
<1>8. CASE Build(c)
  BY <1>8, BuildMoves, Zenon
<1>9. ASSUME NEW k \in Kinds, CreateTemporary(c, k)
      PROVE  RecordMoves(c)
  <2>1. /\ UNCHANGED <<exit, events, gaps, parts>>
        /\ built' = [built EXCEPT ![c] = None]
        /\ \E x \in {"write-receipt", "write-draft", "undo"} : Goto(c, x)
    BY <1>9 DEF CreateTemporary, Undo, Write, Kinds
  <2> QED
    BY <1>2, <2>1, WorkKept, ZenonT(40)
<1>10. ASSUME NEW k \in Kinds, WriteTemporary(c, k)
       PROVE  RecordMoves(c)
  <2>1. /\ UNCHANGED <<exit, events, gaps, parts, built>>
        /\ \E x \in {"create-draft", "link-draft", "undo"} : Goto(c, x)
    BY <1>10, Zenon DEF WriteTemporary, Undo, Create, Kinds, work
  <2> QED
    BY <1>2, <2>1, WorkKept, Zenon
<1>11. CASE LinkDraft(c) \/ LinkReceipt(c)
  <2>1. /\ UNCHANGED <<exit, events, gaps, parts, built>>
        /\ \E x \in {"link-receipt", "remove-receipt", "undo"} : Goto(c, x)
    BY <1>11, Zenon DEF LinkDraft, LinkReceipt, Undo, work
  <2> QED
    BY <1>2, <2>1, WorkKept, Zenon
<1>12. CASE UndoNext(c)
  <2>1. UNCHANGED <<exit, events, gaps, parts, built>> /\ pc'[c] # "build"
    BY <1>12, Zenon DEF UndoNext, At, work
  <2> QED
    BY <2>1, WorkKept, Zenon
<1>13. CASE UndoEnd(c)
  <2>1. UNCHANGED <<events, gaps, parts, built>> /\ Exit(c, undo[c].code)
    BY <1>13, Zenon DEF UndoEnd, work
  <2>2. undo[c].code \in OtherCodes
    BY Zenon DEF TypeInv, OtherCodes
  <2> QED
    BY <1>1, <2>1, <2>2, WorkKept, Zenon
<1>14. ASSUME NEW k \in Kinds, RemoveTemporary(c, k)
       PROVE  RecordMoves(c)
  <2>1. /\ UNCHANGED <<events, gaps, parts, built>>
        /\ \/ /\ UNCHANGED exit
              /\ \E x \in {"remove-draft", "sync-receipt"} : Goto(c, x)
           \/ Exit(c, "cleanup-failed")
    BY <1>14, Zenon DEF RemoveTemporary, work
  <2> QED
    BY <1>1, <1>2, <2>1, WorkKept, Zenon DEF OtherCodes
<1>15. ASSUME NEW k \in Kinds, SyncParent(c, k)
       PROVE  RecordMoves(c)
  <2>1. /\ UNCHANGED <<events, gaps, parts, built>>
        /\ \/ UNCHANGED exit /\ Goto(c, "sync-draft")
           \/ \E code \in Reported \union {"sync-failed"} : Exit(c, code)
    BY <1>15, Zenon DEF SyncParent, work
  <2> QED
    BY <1>1, <1>2, <2>1, WorkKept, Zenon DEF OtherCodes
<1>16. CASE Kill(c)
  <2>1. UNCHANGED <<exit, events, gaps, parts, built>> /\ Goto(c, "killed")
    BY <1>16, Zenon DEF Kill, work
  <2> QED
    BY <1>2, <2>1, WorkKept, Zenon
<1> QED
  BY <1>3, <1>4, <1>5, <1>6, <1>7, <1>8, <1>9, <1>10, <1>11, <1>12, <1>13,
     <1>14, <1>15, <1>16, Zenon
     DEF Step

\* The invariant holds in every state.
LEMMA RecordInvariance == Spec => []RecordInv
<1>1. ASSUME Init PROVE RecordInv
  <2>1. /\ load \in Loads /\ events = [c \in Commands |-> <<>>]
        /\ gaps = [c \in Commands |-> {}] /\ parts = [c \in Commands |-> None]
        /\ built = [c \in Commands |-> None] /\ exit = [c \in Commands |-> None]
        /\ \A c \in Commands : pc[c] # "build"
    BY <1>1, Zenon DEF Init
  <2>2. Recorded(<<>>)
    BY <2>1, LoadAssumption DEF Recorded
  <2>3. None \notin Refusals
    BY NoneAssumption, Zenon DEF Refusals
  <2> QED
    BY <2>1, <2>2, <2>3, Zenon DEF RecordInv, RecordAt
<1>2. ASSUME TypeInv, RecordInv, [Next]_vars PROVE RecordInv'
  <2>1. CASE UNCHANGED <<load, events, gaps, parts, built, exit, pc>>
    BY <1>2, <2>1 DEF RecordInv, RecordAt, Recorded
  <2>2. ASSUME NEW c \in Commands, UNCHANGED load, Step(c) \/ Kill(c)
        PROVE  RecordInv'
    <3>1. RecordMoves(c)
      BY <1>2, <2>2, RecordStep, Zenon
    <3>2. \A d \in Commands : d # c => pc'[d] = pc[d]
      BY <1>2, <2>2, StepKinds DEF Alone, TypeInv, Kill, Goto
    <3>3. ASSUME NEW d \in Commands, d # c PROVE RecordAt(d)'
      <4>1. /\ events'[d] = events[d] /\ gaps'[d] = gaps[d]
            /\ parts'[d] = parts[d] /\ built'[d] = built[d]
            /\ exit'[d] = exit[d] /\ pc'[d] = pc[d]
        BY <1>2, <3>1, <3>2, <3>3, Zenon DEF RecordInv, RecordMoves
      <4> QED
        BY <1>2, <2>2, <4>1 DEF RecordInv, RecordAt, Recorded
    <3>4. /\ events' = [d \in Commands |-> events'[d]]
          /\ gaps' = [d \in Commands |-> gaps'[d]]
          /\ parts' = [d \in Commands |-> parts'[d]]
          /\ built' = [d \in Commands |-> built'[d]]
          /\ exit' = [d \in Commands |-> exit'[d]]
      BY <1>2, <3>1, Zenon DEF RecordInv, RecordMoves
    <3> QED
      BY <1>2, <2>2, <3>1, <3>3, <3>4, Zenon DEF RecordInv, RecordMoves
  <2>3. CASE UNCHANGED vars \/ Finished
    BY <2>1, <2>3, Zenon DEF Finished, vars, work
  <2>4. ASSUME NEW p \in Targets, UNCHANGED load, Occupy(p) PROVE RecordInv'
    BY <2>1, <2>4, Zenon DEF Occupy, work
  <2> QED
    BY <1>2, <2>2, <2>3, <2>4, Zenon DEF Next
<1> QED
  BY <1>1, <1>2, TypeInvariance, PTL DEF Spec

\* Whatever a traced process does within the capture bounds and the counts,
\* its events can be recorded: neither DiagnosticEvent::new nor
\* validate_events refuses one, and only a path that is not text ends the
\* command.
THEOREM EventsRecordable == Spec => []EventsAreRecordable
<1>1. ASSUME RecordInv PROVE EventsAreRecordable
  <2>1. ASSUME NEW c \in Commands
        PROVE  /\ exit[c] \notin Refusals
               /\ parts[c] # None =>
                     EventsError(parts[c].events, parts[c].gaps) = None
    BY <1>1, RecordedAccepted, Zenon DEF RecordInv, RecordAt
  <2> QED
    BY <2>1, Zenon DEF EventsAreRecordable, Refusals
<1> QED
  BY <1>1, RecordInvariance, PTL

\* What the command is given, and what else is compared with its receipt.
LEMMA InputsAreValid ==
    /\ \A c \in Commands : InputsValid(CommandInputs(c))
    /\ \A inputs \in Comparisons :
          DraftError(inputs) = None => InputsValid(inputs)
<1>1. \A c \in Commands : CommandInputs(c).candidates = {}
  BY Zenon DEF CommandInputs
<1>2. ASSUME NEW inputs \in Comparisons, DraftError(inputs) = None
      PROVE  InputsValid(inputs)
  <2>1. \A c \in inputs.candidates : IsCandidate(c)
    BY ComparisonAssumption, Zenon DEF IsCandidate
  <2>2. ~\E c \in inputs.candidates :
            \/ ~Allows(inputs.scope, c.path)
            \/ ~ProvenanceIsBound(c, inputs.closure)
    BY <1>2, ComparisonAssumption, Zenon DEF DraftError
  <2> QED
    BY <2>1, <2>2, Zenon DEF InputsValid
<1> QED
  BY <1>1, <1>2, Zenon DEF InputsValid

\* A built draft, and every draft that other inputs would give, suggests only
\* what was declared or observed, names what it leaves open, and counts right.
THEOREM DraftsAreJustified == Spec => []DraftIsJustified
<1>1. ASSUME RecordInv PROVE DraftIsJustified
  <2>1. ASSUME NEW c \in Commands, built[c] # None
        PROVE  /\ Recorded(built[c].receipt.events)
               /\ built[c].draft = Draft(built[c].receipt, CommandInputs(c))
    BY <1>1, <2>1, Zenon DEF RecordInv, RecordAt
  <2>2. ASSUME NEW c \in Commands, built[c] # None, NEW inputs,
               InputsValid(inputs)
        PROVE  Justified(built[c].receipt, inputs,
                         Draft(built[c].receipt, inputs))
    <3> DEFINE receipt == built[c].receipt
    <3>1. /\ receipt.events \in Seq(MappedEvents)
          /\ \A i \in 1 .. Len(receipt.events) :
                receipt.events[i].sequence = i - 1
      BY <2>1, <2>2, Zenon DEF Recorded
    <3> HIDE DEF receipt
    <3>2. Justified(receipt, inputs, Draft(receipt, inputs))
      BY <2>2, <3>1, DraftsJustified, Zenon
    <3> QED
      BY <3>2, Zenon DEF receipt
  <2> QED
    BY <2>1, <2>2, InputsAreValid, Zenon DEF DraftIsJustified
<1> QED
  BY <1>1, RecordInvariance, PTL
=============================================================================
