-------------------------- MODULE PlanDraftProofs --------------------------
(***************************************************************************)
(* The diagnostic events and the draft built from them, for any bounds and *)
(* any events of the trace.  A mapped event is sound: DiagnosticEvent::new *)
(* and the receipt's bounds accept it.  The draft of any mapped events is  *)
(* justified by them and by the inputs: by induction over the turns of the *)
(* loop of build_plan_draft, with what the draft holds after n turns as    *)
(* the induction hypothesis (CandidatesExact, ItemsExact, CountsExact).    *)
(***************************************************************************)
EXTENDS PlanDraft, FiniteSetTheorems, WellFoundedInduction,
        NaturalsInduction, TLAPS

-----------------------------------------------------------------------------
(* What the observer's events are mapped to. *)

Mappable == {event \in TraceEvents : IsMapped(event)}
MappedEvents == {Event(n, event) : n \in Nat, event \in Mappable}

\* What DiagnosticEvent::new and validate_bounds ask of one event.
Sound(e) ==
    /\ e.process \in Nat \ {0} /\ e.class \in Classes
    /\ OperandKind(e.class) = e.operands.kind
    /\ e.outcome.failed => e.outcome.value # 0
    /\ ResolutionValid(e) /\ EventInBounds(e)

\* Every event the observer reports.
LEMMA Reports ==
    ASSUME NEW event \in TraceEvents
    PROVE  TraceFields(event) /\ TraceTypes(event) /\ IsTraceEvent(event)
BY TraceAssumption

\* A mapped call keeps its operands; only its result may be replaced.
LEMMA CompletedFields ==
    ASSUME NEW event \in Mappable
    PROVE  /\ Completed(event).process = event.process
           /\ Completed(event).class = event.class
           /\ Completed(event).operands = event.operands
           /\ Completed(event).selected = event.selected
           /\ Completed(event).candidate = event.candidate
           /\ event.kind = "completed" =>
                 /\ Completed(event).result = event.result
                 /\ Completed(event).isError = event.isError
           /\ event.kind = "replaced" =>
                 /\ Completed(event).result = 0
                 /\ Completed(event).isError = FALSE
           /\ event.kind \in {"completed", "replaced"}
<1> event \in TraceEvents /\ IsMapped(event)
  BY DEF Mappable
<1>1. event.kind \in {"completed", "replaced"}
  BY Zenon DEF IsMapped
<1>2. /\ event = [kind |-> event.kind, process |-> event.process,
                  class |-> event.class, operands |-> event.operands,
                  result |-> event.result, isError |-> event.isError,
                  alone |-> event.alone, selected |-> event.selected,
                  candidate |-> event.candidate]
      /\ IsTraceEvent(event)
  BY Reports, Zenon DEF TraceFields, TraceTypes
<1>3. CASE event.kind = "completed"
  BY <1>1, <1>3, Zenon DEF Completed
<1>4. CASE event.kind = "replaced"
  <2>1. event.candidate = None
    BY <1>2, <1>4 DEF IsTraceEvent
  <2>2. DOMAIN event = {"kind", "process", "class", "operands", "result",
                        "isError", "alone", "selected", "candidate"}
    BY <1>2
  <2>3. Completed(event) = [event EXCEPT !.result = 0, !.isError = FALSE,
                                         !.candidate = None]
    BY <1>4 DEF Completed
  <2> QED
    BY <1>4, <2>1, <2>2, <2>3
<1> QED
  BY <1>1, <1>3, <1>4, Zenon

\* The operands and the outcome of a mapped call.
LEMMA MappedOperands ==
    ASSUME NEW event \in Mappable
    PROVE  /\ event.process \in Nat \ {0} /\ event.class \in Classes
           /\ CapturedOperands(event.class, event.operands)
           /\ OutcomeValid(Completed(event).result, Completed(event).isError)
           /\ event.kind = "replaced" => event.class \in ExecuteClasses
           /\ event.operands.path # None => event.operands.path.names # None
           /\ event.operands.address # None => event.operands.address \in Nat
<1> event \in TraceEvents
  BY DEF Mappable
<1>1. /\ event.process \in Nat \ {0} /\ event.class \in Classes
      /\ event.result \in Int /\ event.isError \in BOOLEAN
      /\ event.operands.path # None => event.operands.path.names # None
      /\ event.operands.address # None => event.operands.address \in Nat
  BY Reports, Zenon DEF TraceFields, TraceTypes
<1>2. IsTraceEvent(event)
  BY Reports, Zenon DEF TraceFields, TraceTypes
<1>3. CASE event.kind = "completed"
  <2>1. /\ CapturedOperands(event.class, event.operands)
        /\ event.result >= -4095 /\ (event.isError <=> event.result < 0)
    BY <1>2, <1>3 DEF IsTraceEvent
  <2>2. OutcomeValid(event.result, event.isError)
    BY <1>1, <2>1 DEF OutcomeValid
  <2>3. OutcomeValid(Completed(event).result, Completed(event).isError)
    BY <1>3, <2>2, CompletedFields, Zenon
  <2> QED
    BY <1>1, <1>3, <2>1, <2>3
<1>4. CASE event.kind = "replaced"
  <2>1. /\ CapturedOperands(event.class, event.operands)
        /\ event.class \in ExecuteClasses
    BY <1>2, <1>4 DEF IsTraceEvent
  <2>2. OutcomeValid(0, FALSE)
    BY DEF OutcomeValid
  <2> QED
    BY <1>1, <1>4, <2>1, <2>2, CompletedFields, Zenon
<1> QED
  BY <1>3, <1>4, CompletedFields, Zenon

\* A call that selected a file succeeded, one with a candidate failed, and
\* both have a path.
LEMMA MappedObjects ==
    ASSUME NEW event \in Mappable
    PROVE  /\ event.selected # None =>
                 /\ Completed(event).isError = FALSE
                 /\ OperandKind(event.class) = "path"
                 /\ event.selected.path.names # None
                 /\ event.selected.identity # None
                 /\ Len(event.selected.path.names) <= Bounds.path
           /\ event.candidate # None =>
                 /\ Completed(event).isError = TRUE
                 /\ event.operands.kind = "path"
                 /\ event.candidate.path.names # None
                 /\ event.candidate.before # None
                 /\ event.candidate.hops # None
                 /\ event.candidate.state = "stable" =>
                       /\ event.candidate.hops <= Bounds.hops
                       /\ Len(event.candidate.path.names) <= Bounds.path
                       /\ event.candidate.before = event.candidate.after
<1> event \in TraceEvents
  BY DEF Mappable
<1>1. /\ IsTraceEvent(event) /\ event.isError \in BOOLEAN
      /\ event.selected # None =>
            /\ event.selected.path.names # None
            /\ event.selected.identity # None
      /\ event.candidate # None =>
            /\ event.candidate.path.names # None
            /\ event.candidate.before # None /\ event.candidate.hops # None
  BY Reports, Zenon DEF TraceFields, TraceTypes
<1>2. CASE event.kind = "completed"
  <2>1. /\ event.selected # None =>
              /\ ~event.isError
              /\ event.class \in {"creat", "open", "openat", "openat2"}
              /\ Len(event.selected.path.names) <= Bounds.path
        /\ event.candidate # None => event.isError /\ event.operands.kind = "path"
        /\ event.candidate # None /\ event.candidate.state = "stable" =>
              /\ event.candidate.hops <= Bounds.hops
              /\ Len(event.candidate.path.names) <= Bounds.path
              /\ event.candidate.before = event.candidate.after
    BY <1>1, <1>2 DEF IsTraceEvent, SelectedDescriptor, FailedCandidate
  <2>2. \A x \in {"creat", "open", "openat", "openat2"} : OperandKind(x) = "path"
    BY Zenon DEF OperandKind, ProcessClasses, AddressClasses
  <2>3. Completed(event).isError = event.isError
    BY <1>2, CompletedFields, Zenon
  <2> QED
    BY <1>1, <2>1, <2>2, <2>3, Zenon
<1>3. CASE event.kind = "replaced"
  <2>1. /\ event.class \in ExecuteClasses /\ event.candidate = None
        /\ event.selected # None => Len(event.selected.path.names) <= Bounds.path
    BY <1>1, <1>3 DEF IsTraceEvent
  <2>2. \A x \in ExecuteClasses : OperandKind(x) = "path"
    BY DEF OperandKind, ProcessClasses, AddressClasses, ExecuteClasses
  <2>3. Completed(event).isError = FALSE
    BY <1>3, CompletedFields, Zenon
  <2> QED
    BY <1>1, <2>1, <2>2, <2>3, Zenon
<1> QED
  BY <1>2, <1>3, CompletedFields, Zenon

\* Whatever a call resolved to, its record satisfies ResolutionValid and the
\* bounds.
LEMMA MappedResolution ==
    ASSUME NEW n \in Nat, NEW event \in Mappable
    PROVE  ResolutionValid(Event(n, event)) /\ EventInBounds(Event(n, event))
<1> DEFINE e == Event(n, event)
           object == MapObjectResolution(Completed(event).selected,
                                         Completed(event).candidate)
<1>1. /\ e.operands.kind = event.operands.kind
      /\ e.operands.path = IF event.operands.kind = "path"
                           THEN event.operands.path.names ELSE None
      /\ e.operands.address = event.operands.address
      /\ e.operands.hops = object.hops
      /\ e.outcome.failed = Completed(event).isError
      /\ e.resolution = object.resolution /\ e.path = object.path
      /\ e.before = object.before /\ e.after = object.after
  BY CompletedFields, Zenon DEF Event, MapOutcome
<1>2. /\ CapturedOperands(event.class, event.operands)
      /\ event.operands.path # None => event.operands.path.names # None
  BY MappedOperands
<1>3. \/ object = Unresolved
      \/ /\ event.selected # None
         /\ object = [Unresolved EXCEPT !.resolution = "kernel-selected",
                                        !.path = event.selected.path.names,
                                        !.after = event.selected.identity]
      \/ /\ event.candidate # None /\ event.candidate.state = "stable"
         /\ object = [resolution |-> "stable-candidate",
                      path |-> event.candidate.path.names,
                      before |-> event.candidate.before,
                      after |-> event.candidate.after,
                      hops |-> event.candidate.hops]
  <2>1. object = MapObjectResolution(event.selected, event.candidate)
    BY CompletedFields, Zenon
  <2> QED
    BY <2>1, Zenon DEF MapObjectResolution, MapSelected, MapCandidate
<1>4. /\ event.operands.kind = "path" =>
            /\ event.operands.path.names # None
            /\ Len(event.operands.path.names) <= Bounds.path
      /\ event.operands.address # None => event.operands.address <= Bounds.address
      /\ OperandKind(event.class) = event.operands.kind
  BY <1>2, Zenon DEF CapturedOperands
<1> HIDE DEF e, object
<1>5. /\ HasPath(e.operands) => Len(e.operands.path) <= Bounds.path
      /\ e.operands.address # None => e.operands.address <= Bounds.address
  <2>1. HasPath(e.operands) => e.operands.path = event.operands.path.names
    BY <1>1, Zenon DEF HasPath
  <2>2. HasPath(e.operands) => event.operands.kind = "path"
    BY <1>1, Zenon DEF HasPath
  <2> QED
    BY <1>1, <1>4, <2>1, <2>2, Zenon
<1>6. CASE object = Unresolved
  <2>1. /\ e.resolution = "unresolved" /\ e.path = None /\ e.before = None
        /\ e.after = None /\ e.operands.hops = None
    BY <1>1, <1>6, Zenon DEF Unresolved
  <2>2. ResolutionValid(e)
    BY <2>1, Zenon DEF ResolutionValid
  <2>3. EventInBounds(e)
    BY <1>5, <2>1, Zenon DEF EventInBounds
  <2> QED
    BY <2>2, <2>3, Zenon DEF e
<1>7. CASE /\ event.selected # None
           /\ object = [Unresolved EXCEPT !.resolution = "kernel-selected",
                                          !.path = event.selected.path.names,
                                          !.after = event.selected.identity]
  <2>1. /\ object.resolution = "kernel-selected"
        /\ object.path = event.selected.path.names
        /\ object.before = None /\ object.after = event.selected.identity
        /\ object.hops = None
    BY <1>7 DEF Unresolved
  <2>2. /\ Completed(event).isError = FALSE
        /\ OperandKind(event.class) = "path"
        /\ event.selected.path.names # None
        /\ event.selected.identity # None
        /\ Len(event.selected.path.names) <= Bounds.path
    BY <1>7, MappedObjects, Zenon
  <2> QED
    <3>1. /\ e.resolution = "kernel-selected" /\ ~e.outcome.failed
          /\ e.path # None /\ e.before = None /\ e.after # None
          /\ HasPath(e.operands) /\ Len(e.path) <= Bounds.path
          /\ e.operands.hops = None
      BY <1>1, <1>4, <2>1, <2>2, Zenon DEF HasPath
    <3>2. ResolutionValid(e)
      BY <3>1, Zenon DEF ResolutionValid
    <3>3. EventInBounds(e)
      BY <1>5, <3>1, Zenon DEF EventInBounds
    <3> QED
      BY <3>2, <3>3 DEF e
<1>8. CASE /\ event.candidate # None /\ event.candidate.state = "stable"
           /\ object = [resolution |-> "stable-candidate",
                        path |-> event.candidate.path.names,
                        before |-> event.candidate.before,
                        after |-> event.candidate.after,
                        hops |-> event.candidate.hops]
  <2>1. /\ Completed(event).isError = TRUE
        /\ event.operands.kind = "path"
        /\ event.candidate.path.names # None
        /\ event.candidate.before # None
        /\ event.candidate.hops # None
        /\ event.candidate.hops <= Bounds.hops
        /\ Len(event.candidate.path.names) <= Bounds.path
        /\ event.candidate.before = event.candidate.after
    BY <1>8, MappedObjects, Zenon
  <2> QED
    <3>1. /\ e.resolution = "stable-candidate" /\ e.outcome.failed
          /\ e.path # None /\ e.before # None /\ e.before = e.after
          /\ HasPath(e.operands) /\ e.operands.hops # None
          /\ Len(e.path) <= Bounds.path /\ e.operands.hops <= Bounds.hops
      BY <1>1, <1>4, <1>8, <2>1 DEF HasPath
    <3>2. ResolutionValid(e)
      BY <3>1, Zenon DEF ResolutionValid
    <3>3. EventInBounds(e)
      BY <1>5, <3>1, Zenon DEF EventInBounds
    <3> QED
      BY <3>2, <3>3 DEF e
<1> QED
  BY <1>3, <1>6, <1>7, <1>8, Zenon DEF e

\* The record of a mapped call.
LEMMA MappedSound ==
    ASSUME NEW n \in Nat, NEW event \in Mappable
    PROVE  Sound(Event(n, event)) /\ Event(n, event).sequence = n
<1> DEFINE e == Event(n, event)
<1>1. /\ e.process = event.process /\ e.class = event.class
      /\ e.operands.kind = event.operands.kind /\ e.sequence = n
      /\ e.outcome = MapOutcome(Completed(event).result,
                                Completed(event).isError)
  BY CompletedFields, Zenon DEF Event
<1>2. /\ event.process \in Nat \ {0} /\ event.class \in Classes
      /\ event.operands.kind = OperandKind(event.class)
      /\ OutcomeValid(Completed(event).result, Completed(event).isError)
      /\ Completed(event).result \in Int
  <2>1. event \in TraceEvents
    BY Zenon DEF Mappable
  <2>2. event.result \in Int
    BY <2>1, Reports, Zenon DEF TraceTypes
  <2> QED
    <3>1. Completed(event).result = event.result \/ Completed(event).result = 0
      BY CompletedFields, Zenon
    <3>2. Completed(event).result \in Int
      BY <2>2, <3>1
    <3>3. /\ event.process \in Nat \ {0} /\ event.class \in Classes
          /\ CapturedOperands(event.class, event.operands)
          /\ OutcomeValid(Completed(event).result, Completed(event).isError)
      BY MappedOperands, Zenon
    <3>4. event.operands.kind = OperandKind(event.class)
      BY <3>3, Zenon DEF CapturedOperands
    <3> QED
      BY <3>2, <3>3, <3>4, Zenon
<1>3. ResolutionValid(e) /\ EventInBounds(e)
  BY MappedResolution, Zenon
<1> HIDE DEF e
<1>4. e.outcome.failed => e.outcome.value # 0
  BY <1>1, <1>2 DEF MapOutcome, OutcomeValid
<1> QED
  BY <1>1, <1>2, <1>3, <1>4, Zenon DEF Sound, e

\* A sound event is accepted.
LEMMA SoundAccepted ==
    ASSUME NEW e, Sound(e) PROVE EventError(e) = None
BY Zenon DEF Sound, EventError

\* Only a path that is not text is refused by the mapper.
LEMMA MappingSucceeds ==
    ASSUME NEW n \in Nat, NEW event \in Mappable
    PROVE  MapError(n, event) \in {None, "path-encoding-invalid"}
<1>1. EventError(Event(n, event)) = None
  BY MappedSound, SoundAccepted, Zenon
<1>2. /\ event.kind = "replaced" => event.class \in ExecuteClasses
      /\ OutcomeValid(Completed(event).result, Completed(event).isError)
      /\ event.operands.address # None =>
            /\ event.operands.address \in Nat
            /\ event.operands.address <= Bounds.address
  BY MappedOperands, Zenon DEF CapturedOperands
<1>3. Bounds.address \in Nat /\ Bounds.address <= 4096
  BY TraceAssumption
<1> QED
  BY <1>1, <1>2, <1>3 DEF MapError

-----------------------------------------------------------------------------
(* The receipt. *)

CountGaps == {"event-limit", "event-per-process-limit", "process-limit"}

\* validate_events accepts numbered events within the counts.
LEMMA EventsAccepted ==
    ASSUME Bounds.events \in Nat, Bounds.perProcess \in Nat,
           Bounds.processes \in Nat,
           NEW list \in Seq(MappedEvents), Len(list) <= Bounds.events,
           Len(list) <= Bounds.perProcess, Len(list) <= Bounds.processes,
           \A i \in 1 .. Len(list) : list[i].sequence = i - 1,
           NEW set, set \intersect CountGaps = {}
    PROVE  EventsError(list, set) = None
<1>1. /\ list \in Seq(MappedEvents) /\ Len(list) \in Nat
      /\ DOMAIN list = 1 .. Len(list)
      /\ Len(list) <= Bounds.events /\ Len(list) <= Bounds.perProcess
      /\ Len(list) <= Bounds.processes
      /\ Bounds.events \in Nat /\ Bounds.perProcess \in Nat
      /\ Bounds.processes \in Nat
  OBVIOUS
<1>2. IsFiniteSet(1 .. Len(list)) /\ Cardinality(1 .. Len(list)) = Len(list)
  <2> DEFINE m == Len(list)
  <2>1. m \in Nat /\ m \in Int /\ 1 \in Int
    BY <1>1
  <2> HIDE DEF m
  <2>2. IsFiniteSet(1 .. m) /\ Cardinality(1 .. m) = IF 1 > m THEN 0 ELSE m - 1 + 1
    BY <2>1, FS_Interval, Zenon
  <2> QED
    BY <2>1, <2>2 DEF m
<1>3. ~\E i, j \in DOMAIN list : i < j /\ list[i].sequence >= list[j].sequence
  <2>1. ASSUME NEW i \in 1 .. Len(list), NEW j \in 1 .. Len(list), i < j
        PROVE  ~(list[i].sequence >= list[j].sequence)
    <3>1. list[i].sequence = i - 1 /\ list[j].sequence = j - 1
      BY Zenon
    <3> QED
      BY <1>1, <2>1, <3>1
  <2> QED
    BY <1>1, <2>1, Zenon
<1>4. ASSUME NEW i \in DOMAIN list PROVE EventInBounds(list[i])
  <2>1. list[i] \in MappedEvents
    BY <1>1
  <2>2. PICK n \in Nat, event \in Mappable : list[i] = Event(n, event)
    BY <2>1 DEF MappedEvents
  <2> QED
    BY <2>2, MappedSound, ZenonT(60) DEF Sound
<1>5. ASSUME NEW p PROVE ~(EventsOf(list, p) > Bounds.perProcess)
  <2> DEFINE of == {i \in DOMAIN list : list[i].process = p}
  <2>1. of \in SUBSET (1 .. Len(list))
    BY <1>1
  <2> HIDE DEF of
  <2>2. IsFiniteSet(of) /\ Cardinality(of) <= Len(list)
    BY <1>2, <2>1, FS_Subset, Zenon
  <2>3. Cardinality(of) \in Nat
    BY <2>2, FS_CardinalityType
  <2>4. EventsOf(list, p) = Cardinality(of)
    BY Zenon DEF EventsOf, of
  <2> QED
    BY <1>1, <2>2, <2>3, <2>4
<1>6. ~(Cardinality(Processes(list)) > Bounds.processes)
  <2> DEFINE f == [i \in 1 .. Len(list) |-> list[i].process]
  <2>1. f \in Surjection(1 .. Len(list), Processes(list))
    BY <1>1, Zenon DEF Surjection, Processes
  <2> HIDE DEF f
  <2>2. /\ IsFiniteSet(Processes(list))
        /\ Cardinality(Processes(list)) <= Len(list)
    BY <1>2, <2>1, FS_Surjection
  <2>3. Cardinality(Processes(list)) \in Nat
    BY <2>2, FS_CardinalityType, Zenon
  <2> QED
    BY <1>1, <2>2, <2>3
<1>7. /\ "event-limit" \notin set /\ "event-per-process-limit" \notin set
      /\ "process-limit" \notin set
  BY Zenon DEF CountGaps
<1>8. ~(Len(list) > Bounds.events)
  BY <1>1
<1> QED
  BY <1>3, <1>4, <1>5, <1>6, <1>7, <1>8, Zenon DEF EventsError

-----------------------------------------------------------------------------
(* The draft. *)

\* A set of natural numbers that is not empty has a least element.
LEMMA LeastNumber ==
    ASSUME NEW T \in SUBSET Nat, T # {}
    PROVE  \E x \in T : \A y \in T : x <= y
<1> DEFINE R == {p \in Nat \X Nat : p[1] < p[2]}
<1>1. IsWellFoundedOn(R, Nat)
  BY NatLessThanWellFounded DEF OpToRel
<1> HIDE DEF R
<1>2. \E x \in T : \A y \in T : ~(<<y, x>> \in R)
  BY <1>1, WFMin, Zenon
<1>3. ASSUME NEW x \in T, NEW y \in T, <<y, x>> \notin R PROVE x <= y
  <2>1. <<y, x>> \in Nat \X Nat /\ <<y, x>>[1] = y /\ <<y, x>>[2] = x
    OBVIOUS
  <2>2. ~(<<y, x>>[1] < <<y, x>>[2])
    BY <1>3, <2>1, Zenon DEF R
  <2> QED
    BY <2>1, <2>2
<1> QED
  BY <1>2, <1>3, Zenon

\* Induction: a set that has 0 and the successor of each of its members up
\* to m has every number up to m.
LEMMA AllUpTo ==
    ASSUME NEW m \in Nat, NEW T, 0 \in T,
           \A n \in 0 .. m : n \in T /\ n < m => n + 1 \in T
    PROVE  \A n \in 0 .. m : n \in T
<1> SUFFICES ASSUME NEW k \in 0 .. m, k \notin T PROVE FALSE
  OBVIOUS
<1> DEFINE U == {n \in 0 .. m : n \notin T}
<1>1. U \in SUBSET Nat /\ U # {}
  OBVIOUS
<1>2. PICK x \in U : \A y \in U : x <= y
  BY <1>1, LeastNumber, Zenon
<1>3. x \in 0 .. m /\ x \notin T /\ x # 0
  OBVIOUS
<1>4. x - 1 \in 0 .. m /\ x - 1 < m /\ ~(x <= x - 1)
  BY <1>3
<1>5. x - 1 \in T
  BY <1>2, <1>4
<1>6. (x - 1) + 1 \in T
  BY <1>4, <1>5
<1> QED
  BY <1>3, <1>6

\* The recursive function that gives the draft after each turn is the one it
\* says it is.
LEMMA DraftsByTurns ==
    ASSUME NEW S, NEW list \in Seq(S), NEW inputs
    PROVE  /\ Drafts(list, inputs)[0] = EmptyDraft(inputs)
           /\ \A n \in 0 .. Len(list) : n < Len(list) =>
                 Drafts(list, inputs)[n + 1] =
                    AddEvent(Drafts(list, inputs)[n], list[n + 1], inputs.scope)
<1> DEFINE m == Len(list)
           Turns(k, f) == f = [n \in 0 .. k |->
                IF n = 0 THEN EmptyDraft(inputs)
                ELSE AddEvent(f[n - 1], list[n], inputs.scope)]
           T == {k \in 0 .. m : \E f : Turns(k, f)}
<1>1. m \in Nat
  OBVIOUS
<1>2. 0 \in T
  <2> DEFINE f == [n \in 0 .. 0 |-> EmptyDraft(inputs)]
  <2>1. Turns(0, f)
    OBVIOUS
  <2>2. 0 \in 0 .. m
    BY <1>1
  <2> HIDE DEF f, Turns, m
  <2> QED
    BY <2>1, <2>2
<1>3. ASSUME NEW k \in 0 .. m, k \in T, k < m PROVE k + 1 \in T
  <2>1. PICK f : Turns(k, f)
    BY <1>3
  <2> DEFINE g == [n \in 0 .. k + 1 |->
                     IF n <= k THEN f[n]
                     ELSE AddEvent(f[k], list[k + 1], inputs.scope)]
  <2>2. ASSUME NEW n \in 0 .. k + 1
        PROVE  g[n] = IF n = 0 THEN EmptyDraft(inputs)
                      ELSE AddEvent(g[n - 1], list[n], inputs.scope)
    <3>1. CASE n = 0
      <4>1. f[0] = EmptyDraft(inputs)
        BY <1>1, <2>1
      <4> QED
        BY <1>1, <3>1, <4>1
    <3>2. CASE n # 0 /\ n <= k
      <4>1. f[n] = AddEvent(f[n - 1], list[n], inputs.scope)
        BY <1>1, <2>1, <3>2
      <4>2. n - 1 \in 0 .. k + 1 /\ n - 1 <= k
        BY <1>1, <3>2
      <4> QED
        BY <3>2, <4>1, <4>2
    <3>3. CASE n = k + 1
      <4>1. k \in 0 .. k + 1 /\ n # 0 /\ ~(n <= k) /\ n - 1 = k
        BY <1>1, <3>3
      <4> QED
        BY <3>3, <4>1
    <3> QED
      BY <1>1, <3>1, <3>2, <3>3
  <2>3. Turns(k + 1, g)
    BY <2>2
  <2>4. k + 1 \in 0 .. m
    BY <1>1, <1>3
  <2> QED
    BY <2>3, <2>4, Zenon
<1>4. m \in T
  <2> HIDE DEF m, T
  <2>1. \A n \in 0 .. m : n \in T
    BY <1>1, <1>2, <1>3, AllUpTo, Zenon
  <2> QED
    BY <1>1, <2>1
<1>5. Turns(m, Drafts(list, inputs))
  <2>1. \E f : Turns(m, f)
    BY <1>4
  <2>2. Drafts(list, inputs) = CHOOSE f : Turns(m, f)
    BY DEF Drafts
  <2> QED
    BY <2>1, <2>2, Zenon
<1> QED
  BY <1>1, <1>5

\* The fields of a draft.
DraftFields == {"candidates", "items", "denials", "unresolved", "broad"}
IsDraft(d) == d = [x \in DraftFields |-> d[x]]

\* An event that is counted as unresolved or as too broad.
Vague(e) == e.resolution \in {"unresolved", "redacted"}
Broad(e, scope) ==
    ~Vague(e) /\ e.path # None /\ e.class \notin NetworkClasses
        /\ ~Allows(scope, e.path)
Offering(e, scope) ==
    /\ ~Vague(e) /\ e.path # None /\ e.class \notin NetworkClasses
    /\ Allows(scope, e.path) /\ CandidateKind(e) # None

\* One turn, field by field.
TurnIs(d, e, scope, new) ==
    /\ IsDraft(new)
    /\ new.denials = IF e.outcome.failed THEN d.denials + 1 ELSE d.denials
    /\ new.unresolved = IF Vague(e) THEN d.unresolved + 1 ELSE d.unresolved
    /\ new.broad = IF Broad(e, scope) THEN d.broad + 1 ELSE d.broad
    /\ new.items = d.items
          \union (IF e.class \in NetworkClasses
                  THEN {<<"network-attempt", e.sequence>>} ELSE {})
          \union (IF Vague(e)
                  THEN {<<"observation-unresolved", e.sequence>>} ELSE {})
          \union (IF Broad(e, scope) THEN {<<"too-broad", e.sequence>>} ELSE {})
    /\ new.candidates =
          IF Offering(e, scope)
          THEN MergeCandidate(d.candidates,
                  [kind |-> CandidateKind(e), path |-> e.path,
                   provenance |-> {"observation"}])
          ELSE d.candidates

\* AddEvent is such a turn.
LEMMA TurnFields ==
    ASSUME NEW d, NEW e, NEW scope, IsDraft(d)
    PROVE  TurnIs(d, e, scope, AddEvent(d, e, scope))
<1> DEFINE new == AddEvent(d, e, scope)
           counted == [d EXCEPT
               !.denials = IF e.outcome.failed THEN @ + 1 ELSE @,
               !.items = IF e.class \in NetworkClasses
                         THEN @ \union {<<"network-attempt", e.sequence>>}
                         ELSE @]
           merged == MergeCandidate(d.candidates,
                         [kind |-> CandidateKind(e), path |-> e.path,
                          provenance |-> {"observation"}])
<1>1. /\ IsDraft(counted)
      /\ counted.denials = IF e.outcome.failed THEN d.denials + 1 ELSE d.denials
      /\ counted.unresolved = d.unresolved /\ counted.broad = d.broad
      /\ counted.candidates = d.candidates
      /\ counted.items = d.items \union
            (IF e.class \in NetworkClasses
             THEN {<<"network-attempt", e.sequence>>} ELSE {})
  BY Zenon DEF IsDraft, DraftFields
<1>2. CASE Vague(e)
  <2>1. new = [counted EXCEPT
            !.unresolved = @ + 1,
            !.items = @ \union {<<"observation-unresolved", e.sequence>>}]
    BY <1>2 DEF AddEvent, Vague
  <2>2. ~Broad(e, scope) /\ ~Offering(e, scope)
    BY <1>2 DEF Broad, Offering
  <2> HIDE DEF new, counted
  <2>3. /\ IsDraft(new) /\ new.denials = counted.denials
        /\ new.unresolved = counted.unresolved + 1
        /\ new.broad = counted.broad /\ new.candidates = counted.candidates
        /\ new.items = counted.items \union
                          {<<"observation-unresolved", e.sequence>>}
    BY <1>1, <2>1, Zenon DEF IsDraft, DraftFields
  <2> QED
    BY <1>1, <1>2, <2>2, <2>3, Zenon DEF new, TurnIs
<1>3. CASE Broad(e, scope)
  <2>1. new = [counted EXCEPT
            !.broad = @ + 1,
            !.items = @ \union {<<"too-broad", e.sequence>>}]
    BY <1>3, Zenon DEF AddEvent, Vague, Broad
  <2>2. ~Vague(e) /\ ~Offering(e, scope)
    BY <1>3 DEF Broad, Offering
  <2> HIDE DEF new, counted
  <2>3. /\ IsDraft(new) /\ new.denials = counted.denials
        /\ new.unresolved = counted.unresolved
        /\ new.broad = counted.broad + 1 /\ new.candidates = counted.candidates
        /\ new.items = counted.items \union {<<"too-broad", e.sequence>>}
    BY <1>1, <2>1, Zenon DEF IsDraft, DraftFields
  <2> QED
    BY <1>1, <1>3, <2>2, <2>3, Zenon DEF new, TurnIs
<1>4. CASE Offering(e, scope)
  <2>1. new = [counted EXCEPT !.candidates = merged]
    <3>1. new = [counted EXCEPT !.candidates =
                   MergeCandidate(@, [kind |-> CandidateKind(e), path |-> e.path,
                                      provenance |-> {"observation"}])]
      BY <1>4 DEF AddEvent, Vague, Offering
    <3> HIDE DEF new, counted
    <3> QED
      BY <1>1, <3>1
  <2>2. ~Vague(e) /\ ~Broad(e, scope)
    BY <1>4, Zenon DEF Broad, Offering
  <2> HIDE DEF new, merged, counted
  <2>3. /\ IsDraft(new) /\ new.candidates = merged
        /\ new.denials = counted.denials /\ new.items = counted.items
        /\ new.unresolved = counted.unresolved /\ new.broad = counted.broad
    BY <1>1, <2>1 DEF IsDraft, DraftFields
  <2> QED
    BY <1>1, <1>4, <2>2, <2>3, Zenon DEF new, merged, TurnIs
<1>5. CASE ~Vague(e) /\ ~Broad(e, scope) /\ ~Offering(e, scope)
  <2>1. new = counted
    BY <1>5 DEF AddEvent, Vague, Broad, Offering
  <2> HIDE DEF new, counted
  <2> QED
    BY <1>1, <1>5, <2>1, Zenon DEF new, TurnIs
<1> QED
  BY <1>2, <1>3, <1>4, <1>5, Zenon

\* What the draft's loop relies on in a recorded event: a resolved one has a
\* path, and yields a candidate exactly when it suggests one.
LEMMA EventKinds ==
    ASSUME NEW e \in MappedEvents, NEW scope
    PROVE  /\ e.outcome.failed \in BOOLEAN
           /\ ~Vague(e) => e.path # None /\ e.class \notin NetworkClasses
           /\ \A kind \in CandidateKinds : Suggests(e, scope, kind) <=>
                 Offering(e, scope) /\ CandidateKind(e) = kind
           /\ CandidateKind(e) \in CandidateKinds \union {None}
           /\ ~Vague(e) /\ ~Broad(e, scope) /\ ~Offering(e, scope) =>
                 /\ Allows(scope, e.path)
                 /\ Writes(e) \/ e.class \in LinkReads
<1>1. PICK n \in Nat, event \in Mappable : e = Event(n, event)
  BY DEF MappedEvents
<1>2. Sound(e)
  BY <1>1, MappedSound, Zenon
<1>3. e.resolution \in {"unresolved", "kernel-selected", "stable-candidate"}
  <2> DEFINE object == MapObjectResolution(Completed(event).selected,
                                           Completed(event).candidate)
  <2>1. e.resolution = object.resolution
    BY <1>1, Zenon DEF Event
  <2>2. object.resolution \in {"unresolved", "kernel-selected",
                               "stable-candidate"}
    BY DEF MapObjectResolution, MapSelected, MapCandidate, Unresolved
  <2> QED
    BY <2>1, <2>2, Zenon
<1>4. e.outcome.failed \in BOOLEAN
  <2>1. e.outcome.failed = Completed(event).isError
    BY <1>1, Zenon DEF Event, MapOutcome
  <2>2. event \in TraceEvents
    BY DEF Mappable
  <2>3. event.isError \in BOOLEAN
    BY <2>2, Reports, Zenon DEF TraceTypes
  <2> QED
    BY <2>1, <2>3, CompletedFields, Zenon
<1>5. e.resolution \in {"kernel-selected", "stable-candidate"} =>
         e.path # None /\ e.operands.kind = "path"
  BY <1>2 DEF Sound, ResolutionValid, HasPath
<1>6. e.operands.kind = "path" =>
         e.class \in ExecuteClasses \union ReadClasses \union {"creat"}
  <2>1. e.class \in Classes /\ OperandKind(e.class) = e.operands.kind
    BY <1>2 DEF Sound
  <2>2. \A x \in ProcessClasses \union NetworkClasses : OperandKind(x) # "path"
    BY DEF OperandKind, ProcessClasses, NetworkClasses, AddressClasses
  <2> QED
    BY <2>1, <2>2 DEF Classes
<1>7. /\ (ExecuteClasses \union ReadClasses \union {"creat"})
             \intersect NetworkClasses = {}
      /\ ExecuteClasses \intersect ReadClasses = {}
      /\ "creat" \notin ExecuteClasses \union ReadClasses
  BY DEF ExecuteClasses, ReadClasses, NetworkClasses, AddressClasses
<1>8. ~Vague(e) <=> e.resolution \in {"kernel-selected", "stable-candidate"}
  BY <1>3 DEF Vague
<1>9. ~Vague(e) => e.path # None /\ e.class \notin NetworkClasses
  BY <1>5, <1>6, <1>7, <1>8, Zenon
<1>10. CandidateKind(e) \in CandidateKinds \union {None}
  BY DEF CandidateKind, CandidateKinds
<1>11. e.class \in ReadClasses =>
          (PathEventCanWrite(e) <=> Writes(e) \/ e.class \in LinkReads)
  <2>1. e.class = event.class /\ e.operands.flags = event.operands.flags
    BY <1>1, CompletedFields, Zenon DEF Event
  <2>2. event.class \in FlaggedClasses <=> event.operands.flags # None
    BY MappedOperands, Zenon DEF CapturedOperands
  <2>3. e.class \in ReadClasses =>
           (e.class \in FlaggedClasses <=> e.class \notin LinkReads)
    BY DEF ReadClasses, FlaggedClasses, LinkReads
  <2> QED
    BY <2>1, <2>2, <2>3, Zenon DEF PathEventCanWrite, Writes
<1>12. ASSUME NEW kind \in CandidateKinds
       PROVE  Suggests(e, scope, kind) <=>
                 Offering(e, scope) /\ CandidateKind(e) = kind
  <2>1. kind # None
    BY ComparisonAssumption
  <2>2. Suggests(e, scope, kind) <=>
           /\ ~Vague(e) /\ Allows(scope, e.path)
           /\ kind = "execute" => e.class \in ExecuteClasses
           /\ kind = "read" => e.class \in ReadClasses /\ ~PathEventCanWrite(e)
    BY <1>8, <1>11, Zenon DEF Suggests
  <2>3. CandidateKind(e) = kind <=>
           /\ kind = "execute" => e.class \in ExecuteClasses
           /\ kind = "read" => e.class \in ReadClasses /\ ~PathEventCanWrite(e)
    <3>1. kind \in {"execute", "read"}
      BY DEF CandidateKinds
    <3> QED
      BY <1>7, <2>1, <3>1 DEF CandidateKind
  <2> QED
    BY <1>9, <2>1, <2>2, <2>3, Zenon DEF Offering
<1>13. ~Vague(e) /\ ~Broad(e, scope) /\ ~Offering(e, scope) =>
          Allows(scope, e.path) /\ (Writes(e) \/ e.class \in LinkReads)
  <2>1. ~Vague(e) /\ ~Broad(e, scope) /\ ~Offering(e, scope) =>
           CandidateKind(e) = None /\ Allows(scope, e.path)
    BY <1>9 DEF Broad, Offering
  <2>2. ~Vague(e) /\ CandidateKind(e) = None =>
           Writes(e) \/ e.class \in LinkReads
    <3>1. None \notin {"execute", "read"}
      BY ComparisonAssumption DEF CandidateKinds
    <3> QED
      BY <1>5, <1>6, <1>8, <1>11, <3>1, Zenon DEF CandidateKind, Writes
  <2> QED
    BY <2>1, <2>2
<1> QED
  BY <1>4, <1>9, <1>10, <1>12, <1>13, Zenon

-----------------------------------------------------------------------------
(* Candidates. *)

IsCandidate(c) ==
    c \in [kind : CandidateKinds, path : {c.path}, provenance : {c.provenance}]

\* After n events: what was declared or observed for a kind and a path.
Declared(inputs, kind, path) ==
    {o \in inputs.candidates : o.kind = kind /\ o.path = path}
Seen(list, inputs, n, kind, path) ==
    \E i \in 1 .. n :
       list[i].path = path /\ Suggests(list[i], inputs.scope, kind)
Provides(list, inputs, n, kind, path, source) ==
    \/ \E o \in Declared(inputs, kind, path) : source \in o.provenance
    \/ source = "observation" /\ Seen(list, inputs, n, kind, path)

\* One candidate for everything declared or observed, with exactly the
\* provenances provided for it.
CandidatesExact(list, inputs, n, set) ==
    /\ \A c \in set :
          /\ IsCandidate(c) /\ Allows(inputs.scope, c.path)
          /\ \/ Declared(inputs, c.kind, c.path) # {}
             \/ Seen(list, inputs, n, c.kind, c.path)
          /\ \A source : source \in c.provenance <=>
                Provides(list, inputs, n, c.kind, c.path, source)
    /\ \A kind \in CandidateKinds : \A path :
          \/ Declared(inputs, kind, path) # {}
          \/ Seen(list, inputs, n, kind, path)
          => \E c \in set : c.kind = kind /\ c.path = path
    /\ \A c, d \in set : c.kind = d.kind /\ c.path = d.path => c = d

\* What the inputs must be.
InputsValid(inputs) ==
    \A c \in inputs.candidates : IsCandidate(c) /\ Allows(inputs.scope, c.path)

\* Two candidates with the same fields are equal.
LEMMA CandidatesEqual ==
    ASSUME NEW c, NEW d, IsCandidate(c), IsCandidate(d), c.kind = d.kind,
           c.path = d.path, c.provenance = d.provenance
    PROVE  c = d
BY DEF IsCandidate

\* Before the first event: the declared candidates, merged.
LEMMA CandidatesStart ==
    ASSUME NEW list, NEW inputs, InputsValid(inputs)
    PROVE  CandidatesExact(list, inputs, 0, MergeCandidates(inputs.candidates))
<1> DEFINE set == MergeCandidates(inputs.candidates)
           Sources(c) == UNION {d.provenance : d \in
                            {d \in inputs.candidates : /\ d.kind = c.kind
                                                       /\ d.path = c.path}}
<1>1. \A kind, path : ~Seen(list, inputs, 0, kind, path)
  BY DEF Seen
<1>2. \A c \in inputs.candidates : IsCandidate(c) /\ Allows(inputs.scope, c.path)
  BY Zenon DEF InputsValid
<1>3. \A x : x \in set <=> \E c \in inputs.candidates :
                                x = [c EXCEPT !.provenance = Sources(c)]
  BY DEF MergeCandidates
<1>4. ASSUME NEW c \in inputs.candidates
      PROVE  LET m == [c EXCEPT !.provenance = Sources(c)] IN
             /\ IsCandidate(m) /\ m.kind = c.kind /\ m.path = c.path
             /\ m.provenance = Sources(c)
  <2> DEFINE all == Sources(c)
  <2> HIDE DEF all
  <2> QED
    BY <1>2 DEF IsCandidate, all
<1>5. \A c : \A source : source \in Sources(c) <=>
          \E o \in Declared(inputs, c.kind, c.path) : source \in o.provenance
  BY Zenon DEF Declared
<1>6. \A c, d : c.kind = d.kind /\ c.path = d.path => Sources(c) = Sources(d)
  OBVIOUS
<1> HIDE DEF set, Sources
<1>7. ASSUME NEW x \in set
      PROVE  /\ IsCandidate(x) /\ Allows(inputs.scope, x.path)
             /\ Declared(inputs, x.kind, x.path) # {}
             /\ x.provenance = Sources(x)
  <2>1. PICK c \in inputs.candidates : x = [c EXCEPT !.provenance = Sources(c)]
    BY <1>3
  <2>2. /\ IsCandidate(x) /\ x.kind = c.kind /\ x.path = c.path
        /\ x.provenance = Sources(c)
    BY <1>4, <2>1
  <2>3. c \in Declared(inputs, x.kind, x.path)
    BY <2>2, Zenon DEF Declared
  <2> QED
    BY <1>2, <1>6, <2>2, <2>3, Zenon
<1>8. ASSUME NEW x \in set, NEW source
      PROVE  source \in x.provenance <=>
                Provides(list, inputs, 0, x.kind, x.path, source)
  BY <1>1, <1>5, <1>7 DEF Provides
<1>9. ASSUME NEW kind \in CandidateKinds, NEW path,
             Declared(inputs, kind, path) # {}
      PROVE  \E c \in set : c.kind = kind /\ c.path = path
  <2>1. PICK o \in inputs.candidates : o.kind = kind /\ o.path = path
    BY <1>9, Zenon DEF Declared
  <2> DEFINE m == [o EXCEPT !.provenance = Sources(o)]
  <2>2. m \in set /\ m.kind = kind /\ m.path = path
    BY <1>3, <1>4, <2>1
  <2> QED
    BY <2>2, Zenon
<1>10. ASSUME NEW c \in set, NEW d \in set, c.kind = d.kind, c.path = d.path
       PROVE  c = d
  BY <1>6, <1>7, <1>10, CandidatesEqual
<1> QED
  BY <1>1, <1>7, <1>8, <1>9, <1>10 DEF CandidatesExact, set

\* An event that yields no candidate.
LEMMA CandidatesKept ==
    ASSUME NEW list \in Seq(MappedEvents), NEW inputs, NEW n \in Nat,
           n < Len(list), NEW set, CandidatesExact(list, inputs, n, set),
           ~Offering(list[n + 1], inputs.scope)
    PROVE  CandidatesExact(list, inputs, n + 1, set)
<1>1. list[n + 1] \in MappedEvents
  OBVIOUS
<1>2. \A kind \in CandidateKinds :
         ~Suggests(list[n + 1], inputs.scope, kind)
  BY <1>1, EventKinds, Zenon
<1>3. ASSUME NEW kind \in CandidateKinds, NEW path
      PROVE  Seen(list, inputs, n + 1, kind, path)
                <=> Seen(list, inputs, n, kind, path)
  BY <1>2 DEF Seen
<1>4. \A c \in set : c.kind \in CandidateKinds
  BY DEF CandidatesExact, IsCandidate
<1>5. ASSUME NEW c \in set, NEW source
      PROVE  Provides(list, inputs, n + 1, c.kind, c.path, source)
                <=> Provides(list, inputs, n, c.kind, c.path, source)
  BY <1>3, <1>4, Zenon DEF Provides
<1> QED
  BY <1>3, <1>4, <1>5, ZenonT(60) DEF CandidatesExact

\* An event that yields one is merged into the candidate of its kind and path.
LEMMA CandidatesMerged ==
    ASSUME NEW list \in Seq(MappedEvents), NEW inputs, NEW n \in Nat,
           n < Len(list), NEW set, CandidatesExact(list, inputs, n, set),
           Offering(list[n + 1], inputs.scope)
    PROVE  CandidatesExact(list, inputs, n + 1,
              MergeCandidate(set, [kind |-> CandidateKind(list[n + 1]),
                                   path |-> list[n + 1].path,
                                   provenance |-> {"observation"}]))
<1> DEFINE e == list[n + 1]
           k == CandidateKind(e)
           p == e.path
           new == [kind |-> k, path |-> p, provenance |-> {"observation"}]
           same == {c \in set : c.kind = k /\ c.path = p}
           all == UNION {c.provenance : c \in same \union {new}}
           merged == [kind |-> k, path |-> p, provenance |-> all]
           next == (set \ same) \union {merged}
<1>1. e \in MappedEvents /\ n + 1 \in 1 .. n + 1
  OBVIOUS
<1>2. /\ k \in CandidateKinds /\ Allows(inputs.scope, p)
      /\ \A kind \in CandidateKinds :
            Suggests(e, inputs.scope, kind) <=> kind = k
  BY <1>1, EventKinds, Zenon DEF Offering
<1>3. MergeCandidate(set, new) = next
  <2>1. [new EXCEPT !.provenance = all] = merged
    <3> HIDE DEF all, k, p
    <3> QED
      OBVIOUS
  <2>2. MergeCandidate(set, new) =
           (set \ same) \union {[new EXCEPT !.provenance = all]}
    BY DEF MergeCandidate
  <2> QED
    BY <2>1, <2>2, Zenon
<1>4. \A source : source \in all <=>
         source = "observation" \/ \E c \in same : source \in c.provenance
  <2>1. new.provenance = {"observation"}
    BY Zenon
  <2> HIDE DEF new, same
  <2> QED
    BY <2>1, Zenon
<1>5. /\ IsCandidate(merged) /\ merged.kind = k /\ merged.path = p
      /\ merged.provenance = all
  <2> HIDE DEF all, k, p
  <2> QED
    BY <1>2, Zenon DEF IsCandidate
<1>6. \A x : x \in next <=>
         x = merged \/ (x \in set /\ ~(x.kind = k /\ x.path = p))
  <2> HIDE DEF merged, k, p
  <2> QED
    BY Zenon
<1>7. \A c \in set : c \in same <=> c.kind = k /\ c.path = p
  BY Zenon
<1>8. same \subseteq set
  BY Zenon
<1> HIDE DEF next, merged, all, same, new
<1>9. ASSUME NEW kind \in CandidateKinds, NEW path
      PROVE  Seen(list, inputs, n + 1, kind, path) <=>
                Seen(list, inputs, n, kind, path) \/ (kind = k /\ path = p)
  <2>1. Seen(list, inputs, n + 1, kind, path) <=>
           \/ Seen(list, inputs, n, kind, path)
           \/ e.path = path /\ Suggests(e, inputs.scope, kind)
    <3>1. \A i : i \in 1 .. n + 1 <=> i \in 1 .. n \/ i = n + 1
      OBVIOUS
    <3> QED
      BY <3>1, Zenon DEF Seen
  <2> HIDE DEF k
  <2> QED
    BY <1>2, <2>1, Zenon
<1>10. Seen(list, inputs, n + 1, k, p)
  BY <1>2, <1>9, Zenon
<1>11. ASSUME NEW c \in set, ~(c.kind = k /\ c.path = p)
       PROVE  /\ IsCandidate(c) /\ Allows(inputs.scope, c.path)
              /\ \/ Declared(inputs, c.kind, c.path) # {}
                 \/ Seen(list, inputs, n + 1, c.kind, c.path)
              /\ \A source : source \in c.provenance <=>
                    Provides(list, inputs, n + 1, c.kind, c.path, source)
  <2>1. c.kind \in CandidateKinds
    BY Zenon DEF CandidatesExact, IsCandidate
  <2>2. Seen(list, inputs, n + 1, c.kind, c.path) <=>
           Seen(list, inputs, n, c.kind, c.path)
    BY <1>9, <1>11, <2>1, Zenon
  <2>3. /\ IsCandidate(c) /\ Allows(inputs.scope, c.path)
        /\ \/ Declared(inputs, c.kind, c.path) # {}
           \/ Seen(list, inputs, n, c.kind, c.path)
        /\ \A source : source \in c.provenance <=>
              Provides(list, inputs, n, c.kind, c.path, source)
    BY <1>11, Zenon DEF CandidatesExact
  <2>4. \A source : Provides(list, inputs, n + 1, c.kind, c.path, source) <=>
                      Provides(list, inputs, n, c.kind, c.path, source)
    BY <2>2, Zenon DEF Provides
  <2> QED
    BY <2>2, <2>3, <2>4, Zenon
<1>12. ASSUME NEW source
       PROVE  source \in all <=> Provides(list, inputs, n + 1, k, p, source)
  <2>1. ASSUME NEW c \in same
        PROVE  source \in c.provenance <=>
                  Provides(list, inputs, n, k, p, source)
    BY <1>7, <1>8, <2>1 DEF CandidatesExact
  <2>2. Provides(list, inputs, n + 1, k, p, source) <=>
           \/ \E o \in Declared(inputs, k, p) : source \in o.provenance
           \/ source = "observation"
    BY <1>10, Zenon DEF Provides
  <2>3. CASE same = {}
    <3>1. ~\E c \in set : c.kind = k /\ c.path = p
      BY <1>7, <2>3, Zenon
    <3>2. Declared(inputs, k, p) = {}
      BY <1>2, <3>1 DEF CandidatesExact
    <3> QED
      BY <1>4, <2>2, <2>3, <3>2, Zenon
  <2>4. CASE same # {}
    <3>1. PICK c : c \in same
      BY <2>4, Zenon
    <3>2. \A d \in same : source \in d.provenance <=>
             Provides(list, inputs, n, k, p, source)
      BY <2>1, Zenon
    <3>3. Provides(list, inputs, n, k, p, source) =>
             \/ \E o \in Declared(inputs, k, p) : source \in o.provenance
             \/ source = "observation"
      BY Zenon DEF Provides
    <3>4. (\E o \in Declared(inputs, k, p) : source \in o.provenance) =>
             Provides(list, inputs, n, k, p, source)
      BY Zenon DEF Provides
    <3> QED
      BY <1>4, <2>2, <3>1, <3>2, <3>3, <3>4, Zenon
  <2> QED
    BY <2>3, <2>4, Zenon
<1>13. ASSUME NEW x \in next
       PROVE  /\ IsCandidate(x) /\ Allows(inputs.scope, x.path)
              /\ \/ Declared(inputs, x.kind, x.path) # {}
                 \/ Seen(list, inputs, n + 1, x.kind, x.path)
              /\ \A source : source \in x.provenance <=>
                    Provides(list, inputs, n + 1, x.kind, x.path, source)
  <2> HIDE DEF k, p
  <2>1. CASE x = merged
    BY <1>2, <1>5, <1>10, <1>12, <2>1, Zenon
  <2>2. CASE x \in set /\ ~(x.kind = k /\ x.path = p)
    BY <1>11, <2>2, Zenon
  <2> QED
    BY <1>6, <2>1, <2>2, Zenon
<1>14. ASSUME NEW kind \in CandidateKinds, NEW path,
              \/ Declared(inputs, kind, path) # {}
              \/ Seen(list, inputs, n + 1, kind, path)
       PROVE  \E c \in next : c.kind = kind /\ c.path = path
  <2> HIDE DEF k, p
  <2>1. CASE kind = k /\ path = p
    BY <1>5, <1>6, <2>1, Zenon
  <2>2. CASE ~(kind = k /\ path = p)
    <3>1. \/ Declared(inputs, kind, path) # {}
          \/ Seen(list, inputs, n, kind, path)
      BY <1>9, <1>14, <2>2, Zenon
    <3>2. PICK c \in set : c.kind = kind /\ c.path = path
      BY <3>1 DEF CandidatesExact
    <3> QED
      BY <1>6, <2>2, <3>2, Zenon
  <2> QED
    BY <2>1, <2>2
<1>15. ASSUME NEW c \in next, NEW d \in next, c.kind = d.kind, c.path = d.path
       PROVE  c = d
  BY <1>5, <1>6, <1>15 DEF CandidatesExact
<1>16. CandidatesExact(list, inputs, n + 1, next)
  BY <1>13, <1>14, <1>15, Zenon DEF CandidatesExact
<1> QED
  BY <1>3, <1>16, Zenon DEF new

-----------------------------------------------------------------------------
(* Open items and counts. *)

CountedItems == {"too-broad", "observation-unresolved"}
Flagged(e, scope) == Vague(e) \/ Broad(e, scope)

\* After n events: the items that are counted name exactly the events that
\* are flagged.
ItemsExact(list, inputs, n, items) ==
    /\ MandatoryOpenItems \subseteq items
    /\ \A item \in items : item[1] \in CountedItems =>
          \E i \in 1 .. n : item[2] = i - 1 /\ Flagged(list[i], inputs.scope)
    /\ \A i \in 1 .. n : Flagged(list[i], inputs.scope) =>
          \E item \in items : item[1] \in CountedItems /\ item[2] = i - 1

FlaggedUpTo(list, inputs, n) == {i \in 1 .. n : Flagged(list[i], inputs.scope)}
FailedUpTo(list, n) == {i \in 1 .. n : list[i].outcome.failed}

CountsExact(list, inputs, n, d) ==
    /\ d.broad \in Nat /\ d.unresolved \in Nat
    /\ d.broad + d.unresolved = Cardinality(FlaggedUpTo(list, inputs, n))
    /\ d.denials = Cardinality(FailedUpTo(list, n))

\* The members of a set up to the next number.
LEMMA CountNext ==
    ASSUME NEW n \in Nat, NEW T
    PROVE  /\ IsFiniteSet(T \intersect (1 .. n))
           /\ Cardinality(T \intersect (1 .. n)) \in Nat
           /\ Cardinality(T \intersect (1 .. n + 1)) =
                 IF n + 1 \in T THEN Cardinality(T \intersect (1 .. n)) + 1
                 ELSE Cardinality(T \intersect (1 .. n))
<1> DEFINE U == T \intersect (1 .. n)
           V == T \intersect (1 .. n + 1)
<1>1. IsFiniteSet(U)
  <2> DEFINE I == 1 .. n
  <2>1. IsFiniteSet(I)
    BY FS_Interval
  <2> HIDE DEF I
  <2>2. IsFiniteSet(T \intersect I)
    BY <2>1, FS_Intersection, Zenon
  <2> QED
    BY <2>2, Zenon DEF I
<1>2. Cardinality(U) \in Nat
  BY <1>1, FS_CardinalityType, Zenon
<1>3. n + 1 \notin U
  OBVIOUS
<1>4. CASE n + 1 \in T
  <2>1. V = U \union {n + 1}
    BY <1>4
  <2> HIDE DEF U, V
  <2>2. Cardinality(V) = Cardinality(U) + 1
    BY <1>1, <1>3, <2>1, FS_AddElement, Zenon
  <2> QED
    BY <1>1, <1>2, <1>4, <2>2, Zenon DEF U, V
<1>5. CASE n + 1 \notin T
  <2>1. V = U
    BY <1>5
  <2> QED
    BY <1>1, <1>2, <1>5, <2>1, Zenon
<1> QED
  BY <1>4, <1>5, Zenon

\* Before the first event.
LEMMA CountsStart ==
    ASSUME NEW list, NEW inputs
    PROVE  /\ IsDraft(EmptyDraft(inputs))
           /\ ItemsExact(list, inputs, 0, EmptyDraft(inputs).items)
           /\ CountsExact(list, inputs, 0, EmptyDraft(inputs))
<1> DEFINE d == EmptyDraft(inputs)
<1>1. /\ IsDraft(d) /\ d.items = MandatoryOpenItems
      /\ d.denials = 0 /\ d.unresolved = 0 /\ d.broad = 0
  BY Zenon DEF EmptyDraft, IsDraft, DraftFields
<1> HIDE DEF d
<1>2. \A item \in MandatoryOpenItems : item[1] \notin CountedItems
  BY DEF MandatoryOpenItems, CountedItems
<1>3. ItemsExact(list, inputs, 0, d.items)
  BY <1>1, <1>2 DEF ItemsExact
<1>4. FlaggedUpTo(list, inputs, 0) = {} /\ FailedUpTo(list, 0) = {}
  BY DEF FlaggedUpTo, FailedUpTo
<1>5. CountsExact(list, inputs, 0, d)
  BY <1>1, <1>4, FS_EmptySet DEF CountsExact
<1> QED
  BY <1>1, <1>3, <1>5, Zenon DEF d

\* One event more.
LEMMA ItemsTurn ==
    ASSUME NEW list \in Seq(MappedEvents), NEW inputs, NEW n \in Nat,
           n < Len(list), list[n + 1].sequence = n, NEW d, IsDraft(d),
           ItemsExact(list, inputs, n, d.items)
    PROVE  ItemsExact(list, inputs, n + 1,
                      AddEvent(d, list[n + 1], inputs.scope).items)
<1> DEFINE e == list[n + 1]
           new == AddEvent(d, e, inputs.scope).items
           network == IF e.class \in NetworkClasses
                      THEN {<<"network-attempt", n>>} ELSE {}
           vague == IF Vague(e) THEN {<<"observation-unresolved", n>>} ELSE {}
           broad == IF Broad(e, inputs.scope) THEN {<<"too-broad", n>>} ELSE {}
<1>1. new = d.items \union network \union vague \union broad
  <2>1. e.sequence = n
    BY Zenon
  <2> HIDE DEF e
  <2>2. TurnIs(d, e, inputs.scope, AddEvent(d, e, inputs.scope))
    BY TurnFields, Zenon
  <2> QED
    BY <2>1, <2>2, Zenon DEF TurnIs
<1> HIDE DEF new
<1>2. \A item \in network : item[1] \notin CountedItems
  BY DEF CountedItems
<1>3. \A item \in vague \union broad :
         /\ item[1] \in CountedItems /\ item[2] = (n + 1) - 1
         /\ Flagged(e, inputs.scope)
  BY DEF CountedItems, Flagged
<1>4. Flagged(e, inputs.scope) => vague \union broad # {}
  BY Zenon DEF Flagged
<1> HIDE DEF network, vague, broad
<1>5. ASSUME NEW item \in new, item[1] \in CountedItems
      PROVE  \E i \in 1 .. n + 1 :
                item[2] = i - 1 /\ Flagged(list[i], inputs.scope)
  <2>1. CASE item \in d.items
    <3>1. PICK i \in 1 .. n : item[2] = i - 1 /\ Flagged(list[i], inputs.scope)
      BY <1>5, <2>1, Zenon DEF ItemsExact
    <3> QED
      BY <3>1
  <2>2. CASE item \in vague \union broad
    BY <1>3, <2>2
  <2> QED
    BY <1>1, <1>2, <1>5, <2>1, <2>2, Zenon
<1>6. ASSUME NEW i \in 1 .. n + 1, Flagged(list[i], inputs.scope)
      PROVE  \E item \in new : item[1] \in CountedItems /\ item[2] = i - 1
  <2>1. CASE i \in 1 .. n
    BY <1>1, <1>6, <2>1, Zenon DEF ItemsExact
  <2>2. CASE i = n + 1
    <3>1. PICK item : item \in vague \union broad
      BY <1>4, <1>6, <2>2, Zenon
    <3> QED
      BY <1>1, <1>3, <2>2, <3>1, Zenon
  <2> QED
    BY <2>1, <2>2
<1>7. MandatoryOpenItems \subseteq new
  BY <1>1, Zenon DEF ItemsExact
<1> QED
  BY <1>5, <1>6, <1>7, Zenon DEF ItemsExact, new

\* One turn counts the event it is given, and no other.
LEMMA CountsTurn ==
    ASSUME NEW list \in Seq(MappedEvents), NEW inputs, NEW n \in Nat,
           n < Len(list), NEW d, IsDraft(d), CountsExact(list, inputs, n, d)
    PROVE  CountsExact(list, inputs, n + 1,
                       AddEvent(d, list[n + 1], inputs.scope))
<1> DEFINE e == list[n + 1]
           new == AddEvent(d, e, inputs.scope)
           T == {i \in Nat : Flagged(list[i], inputs.scope)}
           U == {i \in Nat : list[i].outcome.failed}
<1>1. /\ new.denials = IF e.outcome.failed THEN d.denials + 1 ELSE d.denials
      /\ new.unresolved = IF Vague(e) THEN d.unresolved + 1 ELSE d.unresolved
      /\ new.broad = IF Broad(e, inputs.scope) THEN d.broad + 1 ELSE d.broad
  <2> HIDE DEF e
  <2>1. TurnIs(d, e, inputs.scope, AddEvent(d, e, inputs.scope))
    BY TurnFields
  <2> QED
    BY <2>1, Zenon DEF TurnIs
<1>2. /\ FlaggedUpTo(list, inputs, n) = T \intersect (1 .. n)
      /\ FlaggedUpTo(list, inputs, n + 1) = T \intersect (1 .. n + 1)
      /\ FailedUpTo(list, n) = U \intersect (1 .. n)
      /\ FailedUpTo(list, n + 1) = U \intersect (1 .. n + 1)
  BY DEF FlaggedUpTo, FailedUpTo
<1>3. /\ n + 1 \in T <=> Vague(e) \/ Broad(e, inputs.scope)
      /\ n + 1 \in U <=> e.outcome.failed
      /\ ~(Vague(e) /\ Broad(e, inputs.scope))
  BY DEF Flagged, Broad
<1>4. e.outcome.failed \in BOOLEAN
  <2>1. e \in MappedEvents
    OBVIOUS
  <2> QED
    BY <2>1, EventKinds, Zenon
<1> HIDE DEF new, T, U, e
<1>5. Cardinality(T \intersect (1 .. n + 1)) =
         IF n + 1 \in T THEN Cardinality(T \intersect (1 .. n)) + 1
         ELSE Cardinality(T \intersect (1 .. n))
  BY CountNext, Zenon
<1>6. Cardinality(U \intersect (1 .. n + 1)) =
         IF n + 1 \in U THEN Cardinality(U \intersect (1 .. n)) + 1
         ELSE Cardinality(U \intersect (1 .. n))
  BY CountNext, Zenon
<1>7. /\ new.broad \in Nat /\ new.unresolved \in Nat
      /\ new.broad + new.unresolved =
            Cardinality(FlaggedUpTo(list, inputs, n + 1))
  <2> DEFINE old == Cardinality(T \intersect (1 .. n))
             cur == Cardinality(T \intersect (1 .. n + 1))
  <2>1. /\ d.broad \in Nat /\ d.unresolved \in Nat
        /\ d.broad + d.unresolved = old
    BY <1>2, Zenon DEF CountsExact
  <2>2. cur = Cardinality(FlaggedUpTo(list, inputs, n + 1))
    BY <1>2, Zenon
  <2> HIDE DEF old, cur
  <2>3. cur = IF n + 1 \in T THEN old + 1 ELSE old
    BY <1>5, Zenon DEF old, cur
  <2>4. CASE Vague(e)
    <3>1. new.unresolved = d.unresolved + 1 /\ new.broad = d.broad /\ cur = old + 1
      BY <1>1, <1>3, <2>3, <2>4, Zenon
    <3> QED
      BY <2>1, <2>2, <3>1, SMTT(60)
  <2>5. CASE Broad(e, inputs.scope)
    <3>1. new.unresolved = d.unresolved /\ new.broad = d.broad + 1 /\ cur = old + 1
      BY <1>1, <1>3, <2>3, <2>5, Zenon
    <3> QED
      BY <2>1, <2>2, <3>1, SMTT(60)
  <2>6. CASE ~Vague(e) /\ ~Broad(e, inputs.scope)
    <3>1. new.unresolved = d.unresolved /\ new.broad = d.broad /\ cur = old
      BY <1>1, <1>3, <2>3, <2>6, Zenon
    <3> QED
      BY <2>1, <2>2, <3>1, Zenon
  <2> QED
    BY <2>4, <2>5, <2>6, Zenon
<1>8. new.denials = Cardinality(FailedUpTo(list, n + 1))
  <2> DEFINE old == Cardinality(U \intersect (1 .. n))
             cur == Cardinality(U \intersect (1 .. n + 1))
  <2>1. d.denials = old
    BY <1>2, Zenon DEF CountsExact
  <2>2. cur = Cardinality(FailedUpTo(list, n + 1))
    BY <1>2, Zenon
  <2> HIDE DEF old, cur
  <2>3. cur = IF n + 1 \in U THEN old + 1 ELSE old
    BY <1>6 DEF old, cur
  <2> QED
    BY <1>1, <1>3, <1>4, <2>1, <2>2, <2>3, Zenon
<1> QED
  BY <1>7, <1>8, Zenon DEF CountsExact, new, e

\* The loop of build_plan_draft.
LEMMA DraftLoop ==
    ASSUME NEW list \in Seq(MappedEvents), NEW inputs, InputsValid(inputs),
           \A i \in 1 .. Len(list) : list[i].sequence = i - 1
    PROVE  LET d == Drafts(list, inputs)[Len(list)] IN
           /\ IsDraft(d)
           /\ CandidatesExact(list, inputs, Len(list), d.candidates)
           /\ ItemsExact(list, inputs, Len(list), d.items)
           /\ CountsExact(list, inputs, Len(list), d)
<1> DEFINE m == Len(list)
           D(n) == Drafts(list, inputs)[n]
           Exact(n) ==
              /\ IsDraft(D(n))
              /\ CandidatesExact(list, inputs, n, D(n).candidates)
              /\ ItemsExact(list, inputs, n, D(n).items)
              /\ CountsExact(list, inputs, n, D(n))
           T == {n \in 0 .. m : Exact(n)}
<1>1. m \in Nat
  OBVIOUS
<1>2. /\ D(0) = EmptyDraft(inputs)
      /\ \A n \in 0 .. m : n < m =>
            D(n + 1) = AddEvent(D(n), list[n + 1], inputs.scope)
  BY DraftsByTurns, Zenon
<1>3. Exact(0)
  <2>1. EmptyDraft(inputs).candidates = MergeCandidates(inputs.candidates)
    BY Zenon DEF EmptyDraft
  <2>2. CandidatesExact(list, inputs, 0, MergeCandidates(inputs.candidates))
    BY CandidatesStart, Zenon
  <2> HIDE DEF D
  <2> QED
    BY <1>2, <2>1, <2>2, CountsStart, Zenon
<1>4. ASSUME NEW n \in 0 .. m, Exact(n), n < m PROVE Exact(n + 1)
  <2> DEFINE e == list[n + 1]
             old == D(n)
             new == D(n + 1)
  <2>1. n \in Nat /\ n < Len(list) /\ n + 1 \in 1 .. m /\ list[n + 1].sequence = n
    BY <1>1, <1>4
  <2>2. new = AddEvent(old, e, inputs.scope)
    BY <1>2, <1>4, Zenon
  <2>3. /\ IsDraft(old)
        /\ CandidatesExact(list, inputs, n, old.candidates)
        /\ ItemsExact(list, inputs, n, old.items)
        /\ CountsExact(list, inputs, n, old)
    BY <1>4, Zenon
  <2> HIDE DEF D, old, new, m
  <2>4. TurnIs(old, e, inputs.scope, new)
    BY <2>2, <2>3, TurnFields, Zenon
  <2>5. IsDraft(new)
    BY <2>4, Zenon DEF TurnIs
  <2>6. CandidatesExact(list, inputs, n + 1, new.candidates)
    <3>1. CASE Offering(e, inputs.scope)
      <4>1. new.candidates =
               MergeCandidate(old.candidates,
                  [kind |-> CandidateKind(e), path |-> e.path,
                   provenance |-> {"observation"}])
        BY <2>4, <3>1, Zenon DEF TurnIs
      <4> QED
        BY <2>1, <2>3, <3>1, <4>1, CandidatesMerged, Zenon
    <3>2. CASE ~Offering(e, inputs.scope)
      <4>1. new.candidates = old.candidates
        BY <2>4, <3>2, Zenon DEF TurnIs
      <4> QED
        BY <2>1, <2>3, <3>2, <4>1, CandidatesKept, Zenon
    <3> QED
      BY <3>1, <3>2, Zenon
  <2>7. ItemsExact(list, inputs, n + 1, new.items)
    BY <2>1, <2>2, <2>3, ItemsTurn, Zenon
  <2>8. CountsExact(list, inputs, n + 1, new)
    BY <2>1, <2>2, <2>3, CountsTurn, Zenon
  <2> QED
    BY <2>5, <2>6, <2>7, <2>8, Zenon DEF new
<1>5. Exact(m)
  <2>1. 0 \in T
    BY <1>1, <1>3
  <2> HIDE DEF m, Exact
  <2>2. \A n \in 0 .. m : n \in T /\ n < m => n + 1 \in T
    BY <1>1, <1>4
  <2> HIDE DEF T
  <2>3. \A n \in 0 .. m : n \in T
    BY <1>1, <2>1, <2>2, AllUpTo, Zenon
  <2> QED
    BY <1>1, <2>3 DEF T
<1> QED
  BY <1>5, Zenon

\* Events with different numbers are different.
LEMMA EventsCounted ==
    ASSUME NEW S, NEW list \in Seq(S), NEW T \in SUBSET (1 .. Len(list)),
           \A i \in 1 .. Len(list) : list[i].sequence = i - 1
    PROVE  Cardinality({list[i] : i \in T}) = Cardinality(T)
<1> DEFINE f == [i \in T |-> list[i]]
           V == {list[i] : i \in T}
           m == Len(list)
<1>1. IsFiniteSet(T)
  <2>1. m \in Nat
    OBVIOUS
  <2> HIDE DEF m
  <2>2. IsFiniteSet(1 .. m)
    BY <2>1, FS_Interval
  <2> QED
    BY <2>2, FS_Subset, Zenon DEF m
<1>2. f \in Surjection(T, V)
  BY DEF Surjection
<1>3. f \in Injection(T, V)
  <2>1. f \in [T -> V]
    BY Zenon
  <2>2. ASSUME NEW i \in T, NEW j \in T, f[i] = f[j] PROVE i = j
    <3>1. list[i].sequence = i - 1 /\ list[j].sequence = j - 1
      BY Zenon
    <3>2. list[i] = list[j]
      BY <2>2, Zenon
    <3> QED
      BY <3>1, <3>2
  <2> HIDE DEF f, V
  <2> QED
    BY <2>1, <2>2, Zenon DEF Injection, IsInjective
<1> HIDE DEF f, V
<1>4. Cardinality(V) = Cardinality(T)
  BY <1>1, <1>2, <1>3, FS_Surjection, Zenon
<1> QED
  BY <1>4, Zenon DEF V

\* Whatever the events and the inputs, the draft is justified.
LEMMA DraftsJustified ==
    ASSUME NEW receipt, receipt.events \in Seq(MappedEvents),
           \A i \in 1 .. Len(receipt.events) :
              receipt.events[i].sequence = i - 1,
           NEW inputs, InputsValid(inputs)
    PROVE  Justified(receipt, inputs, Draft(receipt, inputs))
<1> DEFINE list == receipt.events
           N == Len(list)
           d == Drafts(list, inputs)[N]
           draft == Draft(receipt, inputs)
           events_ == {list[i] : i \in DOMAIN list}
           Offers(c) ==
              {x.provenance : x \in {x \in inputs.candidates :
                                     x.kind = c.kind /\ x.path = c.path}}
              \union {{"observation"} : e \in {e \in events_ :
                          e.path = c.path /\ Suggests(e, inputs.scope, c.kind)}}
<1>1. N \in Nat /\ DOMAIN list = 1 .. N
  OBVIOUS
<1>2. /\ IsDraft(d)
      /\ CandidatesExact(list, inputs, N, d.candidates)
      /\ ItemsExact(list, inputs, N, d.items)
      /\ CountsExact(list, inputs, N, d)
  BY DraftLoop, Zenon
<1>3. /\ draft.candidates = d.candidates /\ draft.denials = d.denials
      /\ draft.broad = d.broad /\ draft.unresolved = d.unresolved
      /\ draft.items = d.items
            \union {<<"diagnostic-gap", g>> : g \in receipt.gaps}
            \union CapsecOpenItem(inputs)
  <2>1. draft = [d EXCEPT !.items = @
            \union {<<"diagnostic-gap", g>> : g \in receipt.gaps}
            \union CapsecOpenItem(inputs)]
    BY DEF Draft
  <2> HIDE DEF draft, d
  <2> QED
    BY <1>2, <2>1, Zenon DEF IsDraft, DraftFields
<1>4. \A item \in {<<"diagnostic-gap", g>> : g \in receipt.gaps}
                    \union CapsecOpenItem(inputs) : item[1] \notin CountedItems
  BY DEF CapsecOpenItem, Usability, CountedItems
<1> HIDE DEF draft, d
<1>5. ASSUME NEW kind, NEW path
      PROVE  Seen(list, inputs, N, kind, path) <=>
                \E e \in events_ : e.path = path /\ Suggests(e, inputs.scope, kind)
  BY <1>1, ZenonT(40) DEF Seen
<1>6. ASSUME NEW c \in draft.candidates
      PROVE  /\ Offers(c) # {} /\ c.provenance = UNION Offers(c)
             /\ Allows(inputs.scope, c.path)
  <2>1. /\ Allows(inputs.scope, c.path)
        /\ \/ Declared(inputs, c.kind, c.path) # {}
           \/ Seen(list, inputs, N, c.kind, c.path)
        /\ \A source : source \in c.provenance <=>
              Provides(list, inputs, N, c.kind, c.path, source)
    BY <1>2, <1>3, Zenon DEF CandidatesExact
  <2>2. \A s : s \in Offers(c) <=>
           \/ \E x \in Declared(inputs, c.kind, c.path) : s = x.provenance
           \/ s = {"observation"} /\ Seen(list, inputs, N, c.kind, c.path)
    <3>1. \A s : s \in Offers(c) <=>
             \/ \E x \in Declared(inputs, c.kind, c.path) : s = x.provenance
             \/ /\ s = {"observation"}
                /\ \E e \in events_ :
                      e.path = c.path /\ Suggests(e, inputs.scope, c.kind)
      BY Zenon DEF Declared
    <3> QED
      BY <1>5, <3>1, Zenon
  <2> HIDE DEF Offers
  <2>3. Offers(c) # {}
    BY <2>1, <2>2, Zenon
  <2>4. \A source : source \in UNION Offers(c) <=>
           Provides(list, inputs, N, c.kind, c.path, source)
    <3>1. ASSUME NEW source
          PROVE  (\E s \in Offers(c) : source \in s) <=>
                    \/ \E x \in Declared(inputs, c.kind, c.path) :
                          source \in x.provenance
                    \/ /\ source = "observation"
                       /\ Seen(list, inputs, N, c.kind, c.path)
      <4>1. ASSUME NEW s \in Offers(c), source \in s
            PROVE  \/ \E x \in Declared(inputs, c.kind, c.path) :
                         source \in x.provenance
                   \/ /\ source = "observation"
                      /\ Seen(list, inputs, N, c.kind, c.path)
        BY <2>2, <4>1
      <4>2. ASSUME NEW x \in Declared(inputs, c.kind, c.path),
                   source \in x.provenance
            PROVE  \E s \in Offers(c) : source \in s
        BY <2>2, <4>2, Zenon
      <4>3. ASSUME source = "observation",
                   Seen(list, inputs, N, c.kind, c.path)
            PROVE  \E s \in Offers(c) : source \in s
        <5>1. {"observation"} \in Offers(c)
          BY <2>2, <4>3, Zenon
        <5> QED
          BY <4>3, <5>1, Zenon
      <4> QED
        BY <4>1, <4>2, <4>3, Zenon
    <3>2. \A source : source \in UNION Offers(c) <=>
                        \E s \in Offers(c) : source \in s
      BY Zenon
    <3>3. ASSUME NEW source
          PROVE  source \in UNION Offers(c) <=>
                    Provides(list, inputs, N, c.kind, c.path, source)
      BY <3>1, <3>2, ZenonT(40) DEF Provides
    <3> QED
      BY <3>3, Zenon
  <2> QED
    BY <2>1, <2>3, <2>4, Zenon
<1>7. \A c, e \in draft.candidates :
         c.kind = e.kind /\ c.path = e.path => c = e
  BY <1>2, <1>3, Zenon DEF CandidatesExact
<1>8. ASSUME NEW i \in 1 .. N
      PROVE  \/ \E item \in draft.items :
                   item[1] \in EventItems /\ item[2] = list[i].sequence
             \/ \E c \in draft.candidates :
                   /\ c.path = list[i].path /\ "observation" \in c.provenance
                   /\ Suggests(list[i], inputs.scope, c.kind)
             \/ /\ Allows(inputs.scope, list[i].path)
                /\ Writes(list[i]) \/ list[i].class \in LinkReads
  <2> DEFINE e == list[i]
             k == CandidateKind(e)
  <2>1. e \in MappedEvents /\ e.sequence = i - 1
    OBVIOUS
  <2>2. CASE Flagged(e, inputs.scope)
    <3>1. PICK item \in d.items : item[1] \in CountedItems /\ item[2] = i - 1
      BY <1>2, <2>2, Zenon DEF ItemsExact
    <3> QED
      BY <1>3, <2>1, <3>1, Zenon DEF CountedItems, EventItems
  <2>3. CASE Offering(e, inputs.scope)
    <3>1. k \in CandidateKinds /\ Suggests(e, inputs.scope, k)
      BY <2>1, <2>3, EventKinds, Zenon DEF Offering
    <3>2. Seen(list, inputs, N, k, e.path)
      BY <3>1, Zenon DEF Seen
    <3>3. PICK c \in d.candidates : c.kind = k /\ c.path = e.path
      BY <1>2, <3>1, <3>2, ZenonT(60) DEF CandidatesExact
    <3>4. "observation" \in c.provenance
      BY <1>2, <3>2, <3>3 DEF CandidatesExact, Provides
    <3> QED
      BY <1>3, <3>1, <3>3, <3>4, Zenon
  <2>4. CASE ~Flagged(e, inputs.scope) /\ ~Offering(e, inputs.scope)
    BY <2>1, <2>4, EventKinds, Zenon DEF Flagged
  <2> QED
    BY <2>2, <2>3, <2>4, Zenon
<1>9. draft.broad + draft.unresolved =
         Cardinality({e \in events_ :
            \E item \in draft.items :
               /\ item[1] \in {"too-broad", "observation-unresolved"}
               /\ item[2] = e.sequence})
  <2> DEFINE T == FlaggedUpTo(list, inputs, N)
             V == {e \in events_ :
                     \E item \in draft.items :
                        /\ item[1] \in {"too-broad", "observation-unresolved"}
                        /\ item[2] = e.sequence}
  <2>1. ASSUME NEW i \in 1 .. N
        PROVE  Flagged(list[i], inputs.scope) <=>
                  \E item \in draft.items :
                     item[1] \in CountedItems /\ item[2] = list[i].sequence
    <3>1. Flagged(list[i], inputs.scope) <=>
             \E item \in d.items : item[1] \in CountedItems /\ item[2] = i - 1
      BY <1>2 DEF ItemsExact
    <3>2. list[i].sequence = i - 1
      BY Zenon
    <3> QED
      BY <1>3, <1>4, <3>1, <3>2, Zenon
  <2>2. V = {list[i] : i \in T}
    BY <1>1, <2>1 DEF FlaggedUpTo, CountedItems
  <2>3. T \in SUBSET (1 .. N)
    BY DEF FlaggedUpTo
  <2> HIDE DEF V, T
  <2>4. Cardinality(V) = Cardinality(T)
    BY <2>2, <2>3, EventsCounted
  <2> QED
    BY <1>2, <1>3, <2>4, Zenon DEF CountsExact, V, T
<1>10. draft.denials = Cardinality({e \in events_ : e.outcome.failed})
  <2> DEFINE T == FailedUpTo(list, N)
             V == {e \in events_ : e.outcome.failed}
  <2>1. V = {list[i] : i \in T}
    BY <1>1, Zenon DEF FailedUpTo
  <2>2. T \in SUBSET (1 .. N)
    BY Zenon DEF FailedUpTo
  <2> HIDE DEF V, T
  <2>3. Cardinality(V) = Cardinality(T)
    BY <2>1, <2>2, EventsCounted
  <2> QED
    BY <1>2, <1>3, <2>3, Zenon DEF CountsExact, V, T
<1>11. /\ \A g \in receipt.gaps : <<"diagnostic-gap", g>> \in draft.items
       /\ MandatoryOpenItems \subseteq draft.items
  BY <1>2, <1>3, Zenon DEF ItemsExact
<1>12. \A e \in events_ :
          \/ \E item \in draft.items :
                item[1] \in EventItems /\ item[2] = e.sequence
          \/ \E c \in draft.candidates :
                /\ c.path = e.path /\ "observation" \in c.provenance
                /\ Suggests(e, inputs.scope, c.kind)
          \/ Allows(inputs.scope, e.path) /\ (Writes(e) \/ e.class \in LinkReads)
  BY <1>1, <1>8, Zenon
<1> QED
  BY <1>6, <1>7, <1>9, <1>10, <1>11, <1>12, Zenon DEF Justified, draft
=============================================================================
