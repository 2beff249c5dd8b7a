-------------------------- MODULE DiagnoseCommand --------------------------
(***************************************************************************)
(* pbr-diagnose (diagnose-cli/src/main.rs): several commands run at once   *)
(* on one file system.  A command checks that its two targets are absent,  *)
(* admits the plan, observes the run, builds the receipt and the draft,    *)
(* and publishes both: each is staged in a temporary file, the draft is    *)
(* linked first and the receipt last.  A command may be killed at any      *)
(* step and another process may take a target.  What a power failure may   *)
(* leave at each path is kept beside what the path holds now.              *)
(***************************************************************************)
EXTENDS PlanDraft

CONSTANTS
    Commands,
    Targets,      \* the paths named for receipts and drafts
    ReceiptOf, DraftOf,  \* the targets of each command
    Parent,       \* the directory of each target
    RootOf,       \* the output root of each command's plan
    Beneath,      \* the targets that lie in each output root
    Plans,        \* per command: argumentsFit, namesFit and the closure of
                  \* its static scaffold
    Loads,        \* which commands run, and the bound on their events
    Ends,         \* how an observation may end: directive and gaps
    Sizes,        \* sizes of the larger of an encoded receipt and its draft
    MaxForeign    \* bound on the targets other processes take

ASSUME TargetAssumption ==
    /\ ReceiptOf \in [Commands -> Targets] /\ DraftOf \in [Commands -> Targets]
    /\ Targets \intersect (Commands \X {"receipt", "draft"}) = {}
    /\ \A c \in Commands, k \in {"receipt", "draft"} : <<c, k>> # None

ASSUME NoneAssumption ==
    None \notin {"ok", "report-failed", "exec-invocation-invalid",
                 "path-encoding-invalid", "socket-address-invalid",
                 "outcome-invalid", "event-invalid", "resolution-invalid"}

\* The observations stay within every count of events and processes: what
\* the observer does at a count is in DiagnosticTrace.
ASSUME LoadAssumption ==
    /\ Bounds.events \in Nat /\ Bounds.perProcess \in Nat
    /\ Bounds.processes \in Nat
    /\ \A l \in Loads :
          /\ l.events \in Nat /\ l.events <= Bounds.events
          /\ l.events <= Bounds.perProcess /\ l.events <= Bounds.processes
    /\ \A end \in Ends : \A g \in end.gaps :
          g \notin {"event-limit", "event-per-process-limit", "process-limit"}

VARIABLES
    load,      \* the commands that run
    pc,        \* where each command is
    exit,      \* its result, or None
    roots,     \* output roots that exist
    events,    \* events mapped so far
    gaps,      \* gaps the resolution of a candidate adds
    parts,     \* the parts of the receipt, once observation has ended
    built,     \* the receipt and the draft
    files,     \* what each path holds now
    maybe,     \* what each path may hold after a power failure
    whole,     \* the files written and synchronised
    undo,      \* the paths a failed publication still removes, and its
               \* error
    kept,      \* commands that could not remove one of their files
    foreign    \* targets taken by other processes

work == <<roots, events, gaps, parts, built>>
disk == <<files, maybe, whole>>
vars == <<load, pc, exit, work, disk, undo, kept, foreign>>

Kinds == {"receipt", "draft"}
Temporaries == Commands \X Kinds
Paths == Targets \union Temporaries
Foreign == <<"another", "process">>

\* A file is known by its command and kind.
File(c, k) == <<c, k>>
TargetOf(c, k) == IF k = "receipt" THEN ReceiptOf[c] ELSE DraftOf[c]
Temporary(c, k) == <<c, k>>
Directory(p) == IF p \in Targets THEN Parent[p] ELSE Parent[TargetOf(p[1], p[2])]

Init ==
    /\ load \in Loads
    /\ pc = [c \in Commands |-> IF c \in load.commands THEN "receipt-target"
                               ELSE "done"]
    /\ exit = [c \in Commands |-> None]
    /\ roots = {}
    /\ events = [c \in Commands |-> <<>>]
    /\ gaps = [c \in Commands |-> {}]
    /\ parts = [c \in Commands |-> None]
    /\ built = [c \in Commands |-> None]
    /\ files = [p \in Paths |-> None]
    /\ maybe = [p \in Paths |-> {None}]
    /\ whole = {}
    /\ undo = [c \in Commands |-> [paths |-> <<>>, code |-> None]]
    /\ kept = {} /\ foreign = 0

At(c, point) == pc[c] = point
Goto(c, point) == pc' = [pc EXCEPT ![c] = point]
Exit(c, code) ==
    /\ pc' = [pc EXCEPT ![c] = "done"]
    /\ exit' = [exit EXCEPT ![c] = code]

-----------------------------------------------------------------------------
(* Targets and admission. *)

\* prepare_absent_target: the target must not exist.
PrepareReceipt(c) ==
    /\ At(c, "receipt-target")
    /\ IF files[ReceiptOf[c]] = None
       THEN Goto(c, "draft-target") /\ UNCHANGED exit
       ELSE Exit(c, "invalid")
    /\ UNCHANGED <<work, disk, undo, kept, foreign>>

PrepareDraft(c) ==
    /\ At(c, "draft-target")
    /\ IF files[DraftOf[c]] = None /\ ReceiptOf[c] # DraftOf[c]
       THEN Goto(c, "admit") /\ UNCHANGED exit
       ELSE Exit(c, "invalid")
    /\ UNCHANGED <<work, disk, undo, kept, foreign>>

\* The plan is parsed, normalised and compiled, the host probed, and the
\* output root created, which fails if it exists.  A target inside that root
\* is refused only then.
CreateOutputRoot(c) ==
    /\ At(c, "admit") /\ RootOf[c] \notin roots
    /\ roots' = roots \union {RootOf[c]}
    /\ IF {ReceiptOf[c], DraftOf[c]} \intersect Beneath[RootOf[c]] = {}
       THEN Goto(c, "observe") /\ UNCHANGED exit
       ELSE Exit(c, "invalid")
    /\ UNCHANGED <<events, gaps, parts, built, disk, undo, kept, foreign>>

\* An invalid plan, an unsupported host, an executable, read path, scaffold
\* or binary that cannot be identified or has changed, or a trace that does
\* not reach release: before the output root exists or after.
AdmissionFail(c) ==
    /\ At(c, "admit")
    /\ roots' \in {roots, roots \union {RootOf[c]}}
    /\ \E code \in {"invalid", "unsupported", "execution"} : Exit(c, code)
    /\ UNCHANGED <<events, gaps, parts, built, disk, undo, kept, foreign>>

-----------------------------------------------------------------------------
(* Observation. *)

\* retain_resolution_gap.
ResolutionGap(event) ==
    IF event.kind # "completed" \/ event.candidate = None THEN {}
    ELSE CASE event.candidate.state = "drift" -> {"identity-drift"}
           [] event.candidate.state = "limit" -> {"symlink-limit"}
           [] OTHER -> {}

\* One step of the observer: the event is mapped and kept, or its mapping
\* ends the command.
Observe(c, event) ==
    LET sequence == Len(events[c])
        error == IF IsMapped(event) THEN MapError(sequence, event) ELSE None
    IN
    /\ At(c, "observe") /\ Len(events[c]) < load.events
    /\ gaps' = [gaps EXCEPT ![c] = @ \union ResolutionGap(event)]
    /\ IF error # None
       THEN Exit(c, error) /\ UNCHANGED events
       ELSE /\ events' = IF IsMapped(event)
                 THEN [events EXCEPT ![c] = Append(@, Event(sequence, event))]
                 ELSE events
            /\ UNCHANGED <<pc, exit>>
    /\ UNCHANGED <<roots, parts, built, disk, undo, kept, foreign>>

\* The observation has ended; only a directive to publish goes on, and a
\* complete receipt has no gap of either kind.
EndObservation(c, end) ==
    LET all == end.gaps \union gaps[c]
        publishes == /\ end.directive \in {"complete", "incomplete"}
                     /\ end.directive = "incomplete" => all # {}
    IN
    /\ At(c, "observe")
    /\ IF publishes
       THEN /\ \E size \in Sizes :
                  parts' = [parts EXCEPT ![c] =
                     [argumentsFit |-> Plans[c].argumentsFit,
                      namesFit |-> Plans[c].namesFit, events |-> events[c],
                      gaps |-> all, size |-> size,
                      completion |-> IF all = {} THEN "complete"
                                     ELSE "incomplete"]]
            /\ Goto(c, "build") /\ UNCHANGED exit
       ELSE Exit(c, "execution") /\ UNCHANGED parts
    /\ events' = [events EXCEPT ![c] = <<>>]
    /\ gaps' = [gaps EXCEPT ![c] = {}]
    /\ UNCHANGED <<roots, built, disk, undo, kept, foreign>>

\* The observer itself fails.
ObserverFail(c) ==
    /\ At(c, "observe")
    /\ Exit(c, "execution")
    /\ UNCHANGED <<work, disk, undo, kept, foreign>>

\* The command passes no scope, no Capsec report and no candidate.
CommandInputs(c) ==
    [candidates |-> {}, closure |-> Plans[c].closure, scope |-> None,
     capsec |-> None, differences |-> {}]

\* build_diagnostic_artifacts.
Build(c) ==
    /\ At(c, "build")
    /\ IF ReceiptError(parts[c]) = None /\ DraftError(CommandInputs(c)) = None
       THEN /\ built' = [built EXCEPT ![c] =
                 [receipt |-> parts[c],
                  draft |-> Draft(parts[c], CommandInputs(c))]]
            /\ Goto(c, "create-receipt") /\ UNCHANGED exit
       ELSE Exit(c, "construction-failed") /\ UNCHANGED built
    /\ parts' = [parts EXCEPT ![c] = None]
    /\ UNCHANGED <<roots, events, gaps, disk, undo, kept, foreign>>

-----------------------------------------------------------------------------
(* Publication. *)

Put(p, file) ==
    /\ files' = [files EXCEPT ![p] = file]
    /\ maybe' = [maybe EXCEPT ![p] = @ \union {file}]

\* A failed step names the paths it removes, in order.
Undo(c, paths, code) ==
    /\ undo' = [undo EXCEPT ![c] = [paths |-> paths, code |-> code]]
    /\ Goto(c, "undo")
    /\ UNCHANGED <<files, maybe>>

\* What stage_output and publish_pair remove when staging file k fails.
Staged(c, k) == IF k = "draft" THEN <<Temporary(c, "receipt")>> ELSE <<>>

Create == [receipt |-> "create-receipt", draft |-> "create-draft"]
Write == [receipt |-> "write-receipt", draft |-> "write-draft"]
Removal == [receipt |-> "remove-receipt", draft |-> "remove-draft"]
Sync == [receipt |-> "sync-receipt", draft |-> "sync-draft"]

\* stage_output opens a new file whose name carries the execution identity.
\* From here on a file stands for its bytes.
CreateTemporary(c, k) ==
    /\ At(c, Create[k])
    /\ \/ Put(Temporary(c, k), File(c, k)) /\ Goto(c, Write[k])
          /\ UNCHANGED undo
       \/ Undo(c, Staged(c, k), "create-failed")
    /\ built' = [built EXCEPT ![c] = None]
    /\ UNCHANGED <<exit, roots, events, gaps, parts, whole, kept, foreign>>

\* write_all and sync_all.
WriteTemporary(c, k) ==
    /\ At(c, Write[k])
    /\ \/ /\ whole' = whole \union {File(c, k)}
          /\ Goto(c, IF k = "receipt" THEN Create["draft"] ELSE "link-draft")
          /\ UNCHANGED <<files, maybe, undo>>
       \/ /\ Undo(c, <<Temporary(c, k)>> \o Staged(c, k), "write-failed")
          /\ UNCHANGED whole
    /\ UNCHANGED <<exit, work, kept, foreign>>

BothTemporaries(c) == <<Temporary(c, "receipt"), Temporary(c, "draft")>>

\* Mutant: the draft is renamed over what its target holds.
LinkDraftReplacing(c) ==
    /\ At(c, "link-draft")
    /\ \/ /\ Put(DraftOf[c], File(c, "draft"))
          /\ Goto(c, "link-receipt") /\ UNCHANGED undo
       \/ Undo(c, BothTemporaries(c), "draft-publish-failed")
    /\ UNCHANGED <<exit, work, whole, kept, foreign>>

\* hard_link never replaces an entry.
LinkDraft(c) ==
    /\ At(c, "link-draft")
    /\ \/ /\ files[DraftOf[c]] = None
          /\ Put(DraftOf[c], File(c, "draft"))
          /\ Goto(c, "link-receipt") /\ UNCHANGED undo
       \/ Undo(c, BothTemporaries(c), "draft-publish-failed")
    /\ UNCHANGED <<exit, work, whole, kept, foreign>>

LinkReceipt(c) ==
    /\ At(c, "link-receipt")
    /\ \/ /\ files[ReceiptOf[c]] = None
          /\ Put(ReceiptOf[c], File(c, "receipt"))
          /\ Goto(c, "remove-receipt") /\ UNCHANGED undo
       \/ Undo(c, <<DraftOf[c]>> \o BothTemporaries(c), "receipt-publish-failed")
    /\ UNCHANGED <<exit, work, whole, kept, foreign>>

\* The errors of these removals are ignored.
UndoNext(c) ==
    /\ At(c, "undo") /\ undo[c].paths # <<>>
    /\ undo' = [undo EXCEPT ![c].paths = Tail(@)]
    /\ \/ Put(Head(undo[c].paths), None) /\ UNCHANGED kept
       \/ kept' = kept \union {c} /\ UNCHANGED <<files, maybe>>
    /\ UNCHANGED <<pc, exit, work, whole, foreign>>

UndoEnd(c) ==
    /\ At(c, "undo") /\ undo[c].paths = <<>>
    /\ Exit(c, undo[c].code)
    /\ UNCHANGED <<work, disk, undo, kept, foreign>>

\* Mutant: removes the draft's target instead of its temporary name.
RemoveTemporaryTarget(c, k) ==
    /\ At(c, Removal[k])
    /\ \/ /\ Put(IF k = "draft" THEN DraftOf[c] ELSE Temporary(c, k), None)
          /\ Goto(c, IF k = "receipt" THEN "remove-draft" ELSE "sync-receipt")
          /\ UNCHANGED exit
       \/ Exit(c, "cleanup-failed") /\ UNCHANGED <<files, maybe>>
    /\ UNCHANGED <<work, whole, undo, kept, foreign>>

\* Once both are linked the temporary names go; an error here leaves the
\* pair published.
RemoveTemporary(c, k) ==
    /\ At(c, Removal[k])
    /\ \/ /\ Put(Temporary(c, k), None)
          /\ Goto(c, IF k = "receipt" THEN "remove-draft" ELSE "sync-receipt")
          /\ UNCHANGED exit
       \/ Exit(c, "cleanup-failed") /\ UNCHANGED <<files, maybe>>
    /\ UNCHANGED <<work, whole, undo, kept, foreign>>

\* Mutant: only the receipt's directory is synchronised.
SyncParentOnce(c, k) ==
    /\ At(c, Sync[k])
    /\ \/ /\ maybe' = [p \in Paths |->
                 IF Directory(p) = Parent[TargetOf(c, k)] THEN {files[p]}
                 ELSE maybe[p]]
          /\ Exit(c, "ok")
       \/ Exit(c, "sync-failed") /\ UNCHANGED maybe
    /\ UNCHANGED <<work, files, whole, undo, kept, foreign>>

\* How main ends once execute has published: the report is printed or not.
Reported == {"ok", "report-failed"}

\* sync_parent makes every entry of the directory durable; one directory is
\* synchronised once.
SyncParent(c, k) ==
    /\ At(c, Sync[k])
    /\ \/ /\ maybe' = [p \in Paths |->
                 IF Directory(p) = Parent[TargetOf(c, k)] THEN {files[p]}
                 ELSE maybe[p]]
          /\ IF k = "receipt" /\ Parent[ReceiptOf[c]] # Parent[DraftOf[c]]
             THEN Goto(c, "sync-draft") /\ UNCHANGED exit
             ELSE \E code \in Reported : Exit(c, code)
       \/ Exit(c, "sync-failed") /\ UNCHANGED maybe
    /\ UNCHANGED <<work, files, whole, undo, kept, foreign>>

-----------------------------------------------------------------------------
(* The environment. *)

\* Another process creates a file where a target is to go.
Occupy(p) ==
    /\ foreign < MaxForeign /\ files[p] = None
    /\ Put(p, Foreign)
    /\ foreign' = foreign + 1
    /\ UNCHANGED <<pc, exit, work, whole, undo, kept>>

Kill(c) ==
    /\ pc[c] \notin {"done", "killed"}
    /\ Goto(c, "killed")
    /\ UNCHANGED <<exit, work, disk, undo, kept, foreign>>

Finished ==
    /\ \A c \in Commands : pc[c] \in {"done", "killed"}
    /\ UNCHANGED vars

Step(c) ==
    \/ PrepareReceipt(c) \/ PrepareDraft(c)
    \/ CreateOutputRoot(c) \/ AdmissionFail(c)
    \/ At(c, "observe") /\ \E event \in TraceEvents : Observe(c, event)
    \/ \E end \in Ends : EndObservation(c, end)
    \/ ObserverFail(c) \/ Build(c)
    \/ \E k \in Kinds : CreateTemporary(c, k)
    \/ \E k \in Kinds : WriteTemporary(c, k)
    \/ LinkDraft(c) \/ LinkReceipt(c) \/ UndoNext(c) \/ UndoEnd(c)
    \/ \E k \in Kinds : RemoveTemporary(c, k)
    \/ \E k \in Kinds : SyncParent(c, k)

Next ==
    \/ UNCHANGED load /\ \E c \in Commands : Step(c)
    \/ UNCHANGED load /\ \E c \in Commands : Kill(c)
    \/ UNCHANGED load /\ \E p \in Targets : Occupy(p)
    \/ Finished

Spec == Init /\ [][Next]_vars

-----------------------------------------------------------------------------
(* Properties. *)

Published(c, k) == files[TargetOf(c, k)] = File(c, k)

\* At every step, killed commands included, a receipt that can be seen at
\* its target has its own draft at the draft target: publish_pair links the
\* draft first and takes it back only when the receipt was not linked.
PairIsWhole ==
    \A c \in Commands : Published(c, "receipt") => Published(c, "draft")

\* A command that reported success, or failed only to print its report, left
\* both files at their targets and no temporary file, and a power failure
\* leaves them there; whatever a power failure may leave at a
\* target was completely written before; and a command that failed before
\* publishing left no file, unless it could not remove it.
ExitTellsPublication ==
    /\ \A c \in Commands : exit[c] \in Reported =>
          \A k \in Kinds : /\ maybe[TargetOf(c, k)] = {File(c, k)}
                           /\ files[Temporary(c, k)] = None
    /\ \A p \in Targets : maybe[p] \subseteq whole \union {None, Foreign}
    /\ \A c \in Commands \ kept :
          exit[c] \notin Reported \union {None, "cleanup-failed", "sync-failed"}
          => \A p \in Paths, k \in Kinds : files[p] # File(c, k)

\* A file at a target is removed only by the command that put it there, and
\* nothing is written over it: a rival that names the same target, or names
\* it in the other role, fails instead.
TargetsNeverReplaced ==
    [][\A p \in Targets :
          files[p] # None /\ files'[p] # files[p] =>
             /\ files'[p] = None
             /\ \E c \in Commands :
                   /\ files[p] = File(c, "draft") /\ p = DraftOf[c]
                   /\ pc[c] = "undo" /\ pc'[c] = "undo"]_vars

\* Every draft the command or the library builds from a receipt is justified
\* by its events.
DraftIsJustified ==
    \A c \in Commands : built[c] # None =>
        /\ Justified(built[c].receipt, CommandInputs(c), built[c].draft)
        /\ \A inputs \in Comparisons : DraftError(inputs) = None =>
              Justified(built[c].receipt, inputs,
                        Draft(built[c].receipt, inputs))

\* Whatever a traced process does within the capture bounds, its events can
\* be recorded: none is refused by DiagnosticEvent::new or validate_events,
\* and only a path that is not text ends the command.
EventsAreRecordable ==
    \A c \in Commands :
        /\ exit[c] \notin {"exec-invocation-invalid", "event-invalid",
                           "outcome-invalid", "resolution-invalid",
                           "socket-address-invalid"}
        /\ parts[c] # None => EventsError(parts[c].events, parts[c].gaps) = None
=============================================================================
