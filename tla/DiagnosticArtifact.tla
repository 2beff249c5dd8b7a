------------------------- MODULE DiagnosticArtifact -------------------------
(***************************************************************************)
(* How an observed system call becomes an event of the diagnostic receipt: *)
(* the mapping of diagnose-linux/src/mapping.rs and the checks of          *)
(* diagnose/src/artifact.rs.  A path is the sequence of its names; text    *)
(* the wire format cannot carry is marked by its form.                     *)
(***************************************************************************)
EXTENDS Integers, FiniteSets, Sequences

CONSTANTS
    Bounds,        \* the observation bounds: events, perProcess, processes,
                   \* path, hops, address, output
    TraceEvents,   \* what an observer may report
    None

-----------------------------------------------------------------------------
(* The classes of events. *)

ProcessClasses == {"clone", "fork", "vfork"}
AddressClasses == {"bind", "connect", "sendto"}
NetworkClasses == AddressClasses \union {"socket"}
ExecuteClasses == {"execve", "execveat"}
ReadClasses ==
    {"newfstatat", "open", "openat", "openat2", "readlink", "readlinkat",
     "statx"}
Classes ==
    ProcessClasses \union NetworkClasses \union ExecuteClasses
        \union ReadClasses \union {"creat"}

OperandKind(class) ==
    CASE class \in ProcessClasses -> "process-create"
      [] class \in AddressClasses -> "socket-address"
      [] class = "socket" -> "socket-create"
      [] OTHER -> "path"

-----------------------------------------------------------------------------
(* What the trace reports. *)

\* The classes whose flags are captured.
FlaggedClasses ==
    {"open", "openat", "openat2", "execveat", "newfstatat", "statx"}

\* capture_syscall_invocation: operands of the class's kind, each within its
\* bound, and a path that ends within the bound on strings.
CapturedOperands(class, operands) ==
    /\ operands.kind = OperandKind(class)
    /\ operands.kind = "path" <=> operands.path # None
    /\ operands.path # None => Len(operands.path.names) <= Bounds.path
    /\ operands.address # None =>
          operands.kind = "socket-address" /\ operands.address <= Bounds.address
    /\ class \in FlaggedClasses <=> operands.flags # None

\* eligible_selected_descriptor: the only traced process has opened a file.
SelectedDescriptor(event) ==
    /\ ~event.isError /\ event.alone
    /\ event.class \in {"creat", "open", "openat", "openat2"}

\* observe_failed_candidate: the only traced process was denied a path.
FailedCandidate(event) ==
    /\ event.isError /\ event.alone
    /\ event.operands.kind = "path" /\ event.operands.path.names # <<>>

\* The fields of an event.
TraceFields(event) ==
    event = [kind |-> event.kind, process |-> event.process,
             class |-> event.class, operands |-> event.operands,
             result |-> event.result, isError |-> event.isError,
             alone |-> event.alone, selected |-> event.selected,
             candidate |-> event.candidate]

\* Their types: what was captured is not None.
TraceTypes(event) ==
    /\ event.process \in Nat \ {0} /\ event.class \in Classes
    /\ event.result \in Int /\ event.isError \in BOOLEAN
    /\ event.operands.address # None => event.operands.address \in Nat
    /\ event.operands.path # None => event.operands.path.names # None
    /\ event.selected # None =>
          event.selected.path.names # None /\ event.selected.identity # None
    /\ event.candidate # None =>
          /\ event.candidate.path.names # None
          /\ event.candidate.before # None /\ event.candidate.hops # None

\* The complete events an active trace returns.
IsTraceEvent(event) ==
    \/ /\ event.kind = "completed"
       /\ CapturedOperands(event.class, event.operands)
       /\ event.result >= -4095 /\ (event.isError <=> event.result < 0)
       /\ event.selected # None => SelectedDescriptor(event)
       /\ event.candidate # None => FailedCandidate(event)
       /\ event.candidate # None /\ event.candidate.state = "stable" =>
             /\ event.candidate.hops <= Bounds.hops
             /\ Len(event.candidate.path.names) <= Bounds.path
             /\ event.candidate.before = event.candidate.after
       /\ event.selected # None => Len(event.selected.path.names) <= Bounds.path
    \/ /\ event.kind = "replaced"
       /\ event.class \in ExecuteClasses
       /\ CapturedOperands(event.class, event.operands)
       /\ event.candidate = None
       /\ event.selected # None => Len(event.selected.path.names) <= Bounds.path
    \/ event.kind = "lifecycle"

\* Every report is a complete event of the trace, and the bound on socket
\* addresses is no larger than the receipt's own.
ASSUME TraceAssumption ==
    /\ Bounds.address \in Nat /\ Bounds.address <= 4096
    /\ \A event \in TraceEvents :
          TraceFields(event) /\ TraceTypes(event) /\ IsTraceEvent(event)

-----------------------------------------------------------------------------
(* The event it is mapped to. *)

\* UTF-8, absolute and normalised, and not the name of a deleted file.
Nameable(path) == path.form = "absolute"

Unresolved ==
    [resolution |-> "unresolved", path |-> None, before |-> None,
     after |-> None, hops |-> None]

\* A mode has at most six octal digits.
MaxMode == 262143
ValidIdentity(identity) == identity.mode <= MaxMode

MapSelected(object) ==
    IF Nameable(object.path) /\ ValidIdentity(object.identity)
    THEN [Unresolved EXCEPT !.resolution = "kernel-selected",
                            !.path = object.path.names,
                            !.after = object.identity]
    ELSE Unresolved

\* Mutant: the count of links is not kept.
MapCandidateUncounted(object) ==
    IF /\ Nameable(object.path)
       /\ object.before = object.after
       /\ ValidIdentity(object.before)
    THEN [Unresolved EXCEPT !.resolution = "stable-candidate",
                            !.path = object.path.names,
                            !.before = object.before,
                            !.after = object.after]
    ELSE Unresolved

MapCandidate(object) ==
    IF /\ Nameable(object.path)
       /\ object.before = object.after
       /\ ValidIdentity(object.before)
    THEN [resolution |-> "stable-candidate", path |-> object.path.names,
          before |-> object.before, after |-> object.after,
          hops |-> object.hops]
    ELSE Unresolved

MapObjectResolution(selected, candidate) ==
    IF selected # None /\ candidate = None THEN MapSelected(selected)
    ELSE IF selected = None /\ candidate # None
            /\ candidate.state = "stable"
    THEN MapCandidate(candidate)
    ELSE Unresolved

\* A failure is an error number of 1 to 4095, a success is not negative.
OutcomeValid(result, isError) ==
    IF isError THEN -4095 <= result /\ result <= -1 ELSE result >= 0
MapOutcome(result, isError) ==
    [failed |-> isError, value |-> IF isError THEN -result ELSE result]

\* Whether the trace event yields a record at all.
IsMapped(event) ==
    \/ event.kind = "completed"
    \/ event.kind = "replaced" /\ event.class # None

\* Image replacement is a successful call with no candidate.
Completed(event) ==
    IF event.kind = "replaced"
    THEN [event EXCEPT !.result = 0, !.isError = FALSE, !.candidate = None]
    ELSE event

Event(sequence, event) ==
    LET done == Completed(event)
        object == MapObjectResolution(done.selected, done.candidate) IN
    [sequence |-> sequence, process |-> done.process, class |-> done.class,
     operands |-> [kind |-> done.operands.kind,
                   path |-> IF done.operands.kind = "path"
                            THEN done.operands.path.names ELSE None,
                   flags |-> done.operands.flags,
                   address |-> done.operands.address,
                   hops |-> object.hops],
     outcome |-> MapOutcome(done.result, done.isError),
     resolution |-> object.resolution, path |-> object.path,
     before |-> object.before, after |-> object.after]

-----------------------------------------------------------------------------
(* What an event of the receipt must satisfy. *)

HasPath(operands) == operands.kind = "path" /\ operands.path # None

ResolutionValid(e) ==
    CASE e.resolution = "kernel-selected" ->
           /\ ~e.outcome.failed /\ e.path # None
           /\ e.before = None /\ e.after # None /\ HasPath(e.operands)
      [] e.resolution = "stable-candidate" ->
           /\ e.outcome.failed /\ e.path # None
           /\ e.before # None /\ e.before = e.after
           /\ HasPath(e.operands) /\ e.operands.hops # None
      [] e.resolution = "unresolved" ->
           e.path = None /\ e.before = None /\ e.after = None
      [] OTHER ->
           /\ e.path = None /\ e.before = None /\ e.after = None
           /\ ~HasPath(e.operands) /\ e.operands.address = None

EventError(e) ==
    IF e.process = 0 \/ OperandKind(e.class) # e.operands.kind
    THEN "event-invalid"
    ELSE IF e.outcome.failed /\ e.outcome.value = 0 THEN "outcome-invalid"
    ELSE IF ~ResolutionValid(e) THEN "resolution-invalid"
    ELSE None

\* DiagnosticEventMapper::map: the next event, or the error.
MapError(sequence, event) ==
    IF event.kind = "replaced" /\ event.class \notin ExecuteClasses
    THEN "exec-invocation-invalid"
    ELSE IF event.operands.kind = "path" /\ event.operands.path.form = "binary"
    THEN "path-encoding-invalid"
    ELSE IF event.operands.address # None /\ event.operands.address > 4096
    THEN "socket-address-invalid"
    ELSE IF ~OutcomeValid(Completed(event).result, Completed(event).isError)
    THEN "outcome-invalid"
    ELSE EventError(Event(sequence, event))

EventInBounds(e) ==
    /\ HasPath(e.operands) => Len(e.operands.path) <= Bounds.path
    /\ e.operands.hops # None => e.operands.hops <= Bounds.hops
    /\ e.operands.address # None => e.operands.address <= Bounds.address
    /\ e.path # None => Len(e.path) <= Bounds.path

-----------------------------------------------------------------------------
(* What the receipt must satisfy. *)

Processes(events) == {events[i].process : i \in DOMAIN events}
EventsOf(events, p) ==
    Cardinality({i \in DOMAIN events : events[i].process = p})

\* validate_events: within every bound, in strictly increasing order, and a
\* count gap only where the count has reached its bound.
EventsError(events, gaps) ==
    IF Len(events) > Bounds.events THEN "event-bound-exceeded"
    ELSE IF \E i, j \in DOMAIN events :
               i < j /\ events[i].sequence >= events[j].sequence
    THEN "event-order-invalid"
    ELSE IF \E i \in DOMAIN events : ~EventInBounds(events[i])
    THEN "bound-exceeded"
    ELSE IF \E p \in Processes(events) : EventsOf(events, p) > Bounds.perProcess
    THEN "event-bound-exceeded"
    ELSE IF Cardinality(Processes(events)) > Bounds.processes
    THEN "process-bound-exceeded"
    ELSE IF \/ "event-limit" \in gaps /\ Len(events) # Bounds.events
            \/ /\ "event-per-process-limit" \in gaps
               /\ \A p \in Processes(events) :
                     EventsOf(events, p) # Bounds.perProcess
            \/ /\ "process-limit" \in gaps
               /\ Cardinality(Processes(events)) # Bounds.processes
    THEN "completion-invalid"
    ELSE None

\* DiagnosticReceipt::construct.  The arguments and the environment names
\* come from the plan, whose grammar is wider than the receipt's; the roles,
\* the trusted base and the assumptions are constants of the command.
ReceiptError(parts) ==
    IF ~parts.argumentsFit THEN "argument-invalid"
    ELSE IF ~parts.namesFit THEN "environment-name-invalid"
    ELSE IF EventsError(parts.events, parts.gaps) # None
    THEN EventsError(parts.events, parts.gaps)
    ELSE IF (parts.completion = "complete") # (parts.gaps = {})
    THEN "completion-invalid"
    ELSE IF parts.size > Bounds.output THEN "output-bound-exceeded"
    ELSE None
=============================================================================
