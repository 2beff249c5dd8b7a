----------------------- MODULE DiagnoseCommandProofs -----------------------
(***************************************************************************)
(* Publication by pbr-diagnose, for any number of commands, any assignment *)
(* of targets to them, kills at every step and other processes that take   *)
(* targets: nothing at a target is replaced or removed by a rival, a       *)
(* receipt that can be seen has its draft beside it, and the exit code     *)
(* tells which of the two were published.                                  *)
(***************************************************************************)
EXTENDS DiagnoseCommand, TLAPS

Points == {"receipt-target", "draft-target", "admit", "observe", "build",
           "create-receipt", "create-draft", "write-receipt", "write-draft",
           "link-draft", "link-receipt", "undo", "remove-receipt",
           "remove-draft", "sync-receipt", "sync-draft", "done", "killed"}

\* What a failed step, or a part of its removals, leaves to remove.
UndoLists(c) ==
    LET r == Temporary(c, "receipt")
        d == Temporary(c, "draft")
    IN  {<<>>, <<r>>, <<d>>, <<d, r>>, <<r, d>>, <<DraftOf[c], r, d>>}

UndoCodes == {None, "create-failed", "write-failed", "draft-publish-failed",
              "receipt-publish-failed"}

\* The types of the variables the arguments use.
TypeInv ==
    /\ pc \in [Commands -> Points]
    /\ files = [p \in Paths |-> files[p]]
    /\ undo \in [Commands -> [paths : UNION {UndoLists(c) : c \in Commands},
                             code : UndoCodes]]
    /\ \A c \in Commands : undo[c].paths \in UndoLists(c)

\* The control points after the receipt was linked.
Linked == {"remove-receipt", "remove-draft", "sync-receipt", "sync-draft",
           "done", "killed"}

\* The draft is at its target until the receipt is linked beside it, or until
\* the removals that start with it; the receipt is linked only after it.
OrderAt(c) ==
    /\ Published(c, "receipt") => Published(c, "draft") /\ pc[c] \in Linked
    /\ pc[c] = "link-receipt" => Published(c, "draft")
    /\ pc[c] = "undo" /\ undo[c].paths # <<>> /\ Head(undo[c].paths) \in Targets
       => Published(c, "draft")

OrderInv == \A c \in Commands : OrderAt(c)

-----------------------------------------------------------------------------
(* Names. *)

\* Files and temporary names are told apart by command and kind; a temporary
\* name is no target.
LEMMA NamesDiffer ==
    /\ \A c, d \in Commands : \A k, l \in Kinds :
          File(c, k) = File(d, l) => c = d /\ k = l
    /\ \A c \in Commands : \A k \in Kinds :
          /\ File(c, k) # None /\ File(c, k) # Foreign
          /\ Temporary(c, k) \in Paths /\ Temporary(c, k) \notin Targets
          /\ TargetOf(c, k) \in Targets /\ TargetOf(c, k) \in Paths
<1>1. \A c, d \in Commands : \A k, l \in Kinds :
         File(c, k) = File(d, l) => c = d /\ k = l
  BY DEF File, Kinds
<1>2. ASSUME NEW c \in Commands, NEW k \in Kinds
      PROVE  /\ File(c, k) # None /\ File(c, k) # Foreign
             /\ Temporary(c, k) \in Paths /\ Temporary(c, k) \notin Targets
             /\ TargetOf(c, k) \in Targets /\ TargetOf(c, k) \in Paths
  <2>1. File(c, k) # None
    BY TargetAssumption DEF File, Kinds
  <2>2. File(c, k) # Foreign
    BY DEF File, Foreign, Kinds
  <2>3. Temporary(c, k) \in Temporaries
    BY DEF Temporary, Temporaries
  <2>4. Temporary(c, k) \notin Targets
    BY <2>3, TargetAssumption DEF Temporaries, Kinds
  <2>5. TargetOf(c, k) \in Targets
    BY TargetAssumption DEF TargetOf, Kinds
  <2> QED
    BY <2>1, <2>2, <2>3, <2>4, <2>5 DEF Paths
<1> QED
  BY <1>1, <1>2

-----------------------------------------------------------------------------
(* What a step does to the targets and to the removals. *)

\* Every step but the two links and a removal leaves the targets alone; it
\* leaves no removal that starts with a target.
Quiet(c) ==
    /\ \A p \in Targets : files'[p] = files[p]
    /\ pc'[c] # "link-receipt"
    /\ pc[c] \in Linked => pc'[c] \in Linked
    /\ pc'[c] = "undo" => \/ undo'[c].paths = <<>>
                          \/ Head(undo'[c].paths) \notin Targets

\* What a step of c leaves alone: the control point and the removals of the
\* others.
Alone(c) ==
    /\ pc' = [pc EXCEPT ![c] = pc'[c]] /\ pc'[c] \in Points
    /\ files' = [p \in Paths |-> files'[p]]
    /\ undo' = [undo EXCEPT ![c] = undo'[c]]
    /\ undo'[c] \in [paths : UndoLists(c), code : UndoCodes]

\* A step that keeps files and undo.
LEMMA KeepsFiles ==
    ASSUME TypeInv, NEW c \in Commands, UNCHANGED <<files, undo>>,
           NEW x \in Points, pc' = [pc EXCEPT ![c] = x], pc[c] # "undo",
           x # "undo", x # "link-receipt", pc[c] \in Linked => x \in Linked
    PROVE  Alone(c) /\ Quiet(c)
<1>1. undo[c] \in [paths : UndoLists(c), code : UndoCodes]
  BY DEF TypeInv
<1>2. pc'[c] = x
  BY DEF TypeInv
<1> QED
  BY <1>1, <1>2 DEF TypeInv, Alone, Quiet

\* Up to the construction of the receipt.
LEMMA QuietBefore ==
    ASSUME TypeInv, NEW c \in Commands,
           \/ PrepareReceipt(c) \/ PrepareDraft(c)
           \/ CreateOutputRoot(c) \/ AdmissionFail(c)
           \/ \E event \in TraceEvents : Observe(c, event)
           \/ \E end \in Ends : EndObservation(c, end)
           \/ ObserverFail(c) \/ Build(c)
    PROVE  Alone(c) /\ Quiet(c)
<1>1. UNCHANGED <<files, undo>>
  BY Zenon
     DEF PrepareReceipt, PrepareDraft, CreateOutputRoot, AdmissionFail,
         Observe, EndObservation, ObserverFail, Build, disk
<1>2. pc[c] \in {"receipt-target", "draft-target", "admit", "observe", "build"}
  BY Zenon
     DEF PrepareReceipt, PrepareDraft, CreateOutputRoot, AdmissionFail,
         Observe, EndObservation, ObserverFail, Build, At
<1>3. \E x \in {"draft-target", "admit", "observe", "build",
                "create-receipt", "done"} : pc' = [pc EXCEPT ![c] = x]
  <2>1. CASE PrepareReceipt(c)
    BY <2>1, Zenon DEF PrepareReceipt, Goto, Exit
  <2>2. CASE PrepareDraft(c)
    BY <2>2, Zenon DEF PrepareDraft, Goto, Exit
  <2>3. CASE CreateOutputRoot(c) \/ AdmissionFail(c) \/ ObserverFail(c)
    BY <2>3, Zenon
       DEF CreateOutputRoot, AdmissionFail, ObserverFail, Goto, Exit
  <2>4. ASSUME NEW event \in TraceEvents, Observe(c, event)
        PROVE  \E x \in {"observe", "done"} : pc' = [pc EXCEPT ![c] = x]
    BY <2>4, Zenon DEF Observe, At, Exit, TypeInv
  <2>5. ASSUME NEW end \in Ends, EndObservation(c, end)
        PROVE  \E x \in {"build", "done"} : pc' = [pc EXCEPT ![c] = x]
    BY <2>5, Zenon DEF EndObservation, Goto, Exit
  <2>6. CASE Build(c)
    BY <2>6, Zenon DEF Build, Goto, Exit
  <2> QED
    BY <2>1, <2>2, <2>3, <2>4, <2>5, <2>6, Zenon
<1> QED
  BY <1>1, <1>2, <1>3, KeepsFiles, ZenonT(60) DEF Points, Linked

\* A failed step names what it removes.
LEMMA UndoStarts ==
    ASSUME TypeInv, NEW c \in Commands, NEW paths \in UndoLists(c),
           NEW code \in UndoCodes, Undo(c, paths, code), pc[c] \notin Linked
    PROVE  /\ Alone(c) /\ files' = files
           /\ pc'[c] = "undo" /\ undo'[c].paths = paths
           /\ paths = <<>> \/ Head(paths) \notin Targets => Quiet(c)
<1>1. files' = files /\ pc' = [pc EXCEPT ![c] = "undo"]
      /\ undo' = [undo EXCEPT ![c] = [paths |-> paths, code |-> code]]
  BY Zenon DEF Undo, Goto
<1>2. pc'[c] = "undo"
  BY <1>1, Zenon DEF TypeInv
<1>3. undo'[c] = [paths |-> paths, code |-> code]
  BY <1>1 DEF TypeInv
<1>4. Alone(c)
  BY <1>1, <1>2, <1>3 DEF TypeInv, Alone, Points
<1> QED
  BY <1>1, <1>2, <1>3, <1>4 DEF Quiet

\* A step that puts something at a temporary name.
LEMMA PutTemporary ==
    ASSUME TypeInv, NEW c \in Commands, NEW k \in Kinds, NEW v,
           Put(Temporary(c, k), v), UNCHANGED undo,
           NEW x \in Points, pc' = [pc EXCEPT ![c] = x], pc[c] # "undo",
           x # "undo", x # "link-receipt", pc[c] \in Linked => x \in Linked
    PROVE  Alone(c) /\ Quiet(c)
<1>1. files' = [files EXCEPT ![Temporary(c, k)] = v]
  BY DEF Put
<1>2. \A p \in Targets : p \in Paths /\ files'[p] = files[p]
  BY <1>1, NamesDiffer DEF TypeInv, Paths
<1>3. files' = [p \in Paths |-> files'[p]]
  BY <1>1, Zenon DEF TypeInv
<1>4. undo[c] \in [paths : UndoLists(c), code : UndoCodes]
  BY DEF TypeInv
<1>5. pc'[c] = x
  BY DEF TypeInv
<1> QED
  BY <1>2, <1>3, <1>4, <1>5, Zenon DEF TypeInv, Alone, Quiet

\* Sequences with the same members are the same.
LEMMA SameSequence ==
    ASSUME NEW S, NEW s \in Seq(S), NEW t \in Seq(S), Len(s) = Len(t),
           \A i \in 1 .. Len(s) : s[i] = t[i]
    PROVE  s = t
<1>1. s = [i \in 1 .. Len(s) |-> s[i]] /\ t = [i \in 1 .. Len(t) |-> t[i]]
  OBVIOUS
<1> QED
  BY <1>1

\* Lists put together.
LEMMA Concatenations ==
    ASSUME NEW x, NEW y, NEW z
    PROVE  /\ <<x>> \o <<>> = <<x>>
           /\ <<x>> \o <<y>> = <<x, y>>
           /\ <<x>> \o <<y, z>> = <<x, y, z>>
<1> DEFINE S == {x, y, z}
<1>1. <<x>> \o <<>> = <<x>>
  OBVIOUS
<1>2. <<x>> \o <<y>> = <<x, y>>
  <2>1. <<x>> \in Seq(S) /\ <<y>> \in Seq(S) /\ <<x, y>> \in Seq(S)
    OBVIOUS
  <2>2. <<x>> \o <<y>> \in Seq(S) /\ Len(<<x>> \o <<y>>) = 2
    BY <2>1
  <2>3. \A i \in 1..2 : (<<x>> \o <<y>>)[i] = <<x, y>>[i]
    BY <2>1
  <2>4. Len(<<x, y>>) = 2
    OBVIOUS
  <2> QED
    BY <2>1, <2>2, <2>3, <2>4, SameSequence, Zenon
<1>3. <<x>> \o <<y, z>> = <<x, y, z>>
  <2>1. <<x>> \in Seq(S) /\ <<y, z>> \in Seq(S) /\ <<x, y, z>> \in Seq(S)
    OBVIOUS
  <2>2. <<x>> \o <<y, z>> \in Seq(S) /\ Len(<<x>> \o <<y, z>>) = 3
    BY <2>1
  <2>3. \A i \in 1..3 : (<<x>> \o <<y, z>>)[i] = <<x, y, z>>[i]
    BY <2>1
  <2>4. Len(<<x, y, z>>) = 3
    OBVIOUS
  <2> QED
    BY <2>1, <2>2, <2>3, <2>4, SameSequence, Zenon
<1> QED
  BY <1>1, <1>2, <1>3

\* The lists that steps start, and where they start.
LEMMA ListsStart ==
    ASSUME NEW c \in Commands
    PROVE  /\ \A k \in Kinds :
                 /\ Staged(c, k) \in UndoLists(c)
                 /\ Staged(c, k) = <<>> \/ Head(Staged(c, k)) \notin Targets
                 /\ <<Temporary(c, k)>> \o Staged(c, k) \in UndoLists(c)
                 /\ Head(<<Temporary(c, k)>> \o Staged(c, k)) \notin Targets
           /\ BothTemporaries(c) \in UndoLists(c)
           /\ Head(BothTemporaries(c)) \notin Targets
           /\ <<DraftOf[c]>> \o BothTemporaries(c) \in UndoLists(c)
           /\ Head(<<DraftOf[c]>> \o BothTemporaries(c)) = DraftOf[c]
<1> DEFINE r == Temporary(c, "receipt")
           d == Temporary(c, "draft")
<1>1. r \notin Targets /\ d \notin Targets
  BY NamesDiffer DEF Kinds
<1>2. Staged(c, "receipt") = <<>> /\ Staged(c, "draft") = <<r>>
  BY DEF Staged
<1>3. /\ <<r>> \o Staged(c, "receipt") = <<r>>
      /\ <<d>> \o Staged(c, "draft") = <<d, r>>
      /\ BothTemporaries(c) = <<r, d>>
      /\ <<DraftOf[c]>> \o BothTemporaries(c) = <<DraftOf[c], r, d>>
  <2> HIDE DEF r, d
  <2>1. BothTemporaries(c) = <<r, d>>
    BY DEF BothTemporaries, r, d
  <2> QED
    BY <1>2, <2>1, Concatenations, ZenonT(60) DEF r, d
<1>4. UndoLists(c) = {<<>>, <<r>>, <<d>>, <<d, r>>, <<r, d>>, <<DraftOf[c], r, d>>}
  BY DEF UndoLists
<1> HIDE DEF r, d
<1>5. Head(<<r>>) = r /\ Head(<<d, r>>) = d /\ Head(<<r, d>>) = r
      /\ Head(<<DraftOf[c], r, d>>) = DraftOf[c]
  OBVIOUS
<1> QED
  BY <1>1, <1>2, <1>3, <1>4, <1>5 DEF Kinds, r, d

\* What is left after one removal of a list.
LEMMA ListsGoOn ==
    ASSUME NEW c \in Commands, NEW l \in UndoLists(c), l # <<>>
    PROVE  /\ Tail(l) \in UndoLists(c)
           /\ Tail(l) = <<>> \/ Head(Tail(l)) \notin Targets
           /\ \/ Head(l) = DraftOf[c]
              \/ \E k \in Kinds : Head(l) = Temporary(c, k)
<1> DEFINE r == Temporary(c, "receipt")
           d == Temporary(c, "draft")
<1>1. r \notin Targets /\ d \notin Targets
  BY NamesDiffer DEF Kinds
<1>2. UndoLists(c) = {<<>>, <<r>>, <<d>>, <<d, r>>, <<r, d>>, <<DraftOf[c], r, d>>}
  BY Zenon DEF UndoLists
<1>3. \/ Head(l) = DraftOf[c] \/ Head(l) = r \/ Head(l) = d
  <2> HIDE DEF r, d
  <2> QED
    BY <1>2
<1>4. Tail(l) \in {<<>>, <<r>>, <<d>>, <<r, d>>}
  <2> HIDE DEF r, d
  <2>1. /\ Tail(<<r>>) = <<>> /\ Tail(<<d>>) = <<>> /\ Tail(<<d, r>>) = <<r>>
        /\ Tail(<<r, d>>) = <<d>> /\ Tail(<<DraftOf[c], r, d>>) = <<r, d>>
    OBVIOUS
  <2> QED
    BY <1>2, <2>1, Zenon
<1>5. Head(<<r>>) = r /\ Head(<<d>>) = d /\ Head(<<r, d>>) = r
  <2> HIDE DEF r, d
  <2> QED
    OBVIOUS
<1>6. \E k \in Kinds : r = Temporary(c, k)
  BY DEF Kinds
<1>7. \E k \in Kinds : d = Temporary(c, k)
  BY DEF Kinds
<1> HIDE DEF r, d
<1>8. Tail(l) \in UndoLists(c)
  BY <1>2, <1>4
<1>9. Tail(l) = <<>> \/ Head(Tail(l)) \notin Targets
  BY <1>1, <1>4, <1>5, Zenon
<1> QED
  BY <1>3, <1>6, <1>7, <1>8, <1>9, Zenon

\* The steps of publish_pair that reach a target.
DraftLinked(c) ==
    /\ pc[c] = "link-draft" /\ pc'[c] = "link-receipt"
    /\ files[DraftOf[c]] = None
    /\ files' = [files EXCEPT ![DraftOf[c]] = File(c, "draft")]

ReceiptLinked(c) ==
    /\ pc[c] = "link-receipt" /\ pc'[c] = "remove-receipt"
    /\ files[ReceiptOf[c]] = None
    /\ files' = [files EXCEPT ![ReceiptOf[c]] = File(c, "receipt")]

ReceiptRefused(c) ==
    pc[c] = "link-receipt" /\ pc'[c] = "undo" /\ files' = files

Removed(c) ==
    /\ pc[c] = "undo" /\ pc'[c] = "undo" /\ undo[c].paths # <<>>
    /\ undo'[c].paths = Tail(undo[c].paths)
    /\ \/ files' = files
       \/ files' = [files EXCEPT ![Head(undo[c].paths)] = None]

\* Staging, the removal of temporary names, and synchronisation.
LEMMA QuietPublication ==
    ASSUME TypeInv, NEW c \in Commands, NEW k \in Kinds,
           \/ CreateTemporary(c, k) \/ WriteTemporary(c, k)
           \/ RemoveTemporary(c, k) \/ SyncParent(c, k)
    PROVE  Alone(c) /\ Quiet(c)
<1> USE DEF Create, Write, Removal, Sync, At
<1>1. CASE CreateTemporary(c, k)
  <2>1. pc[c] \in {"create-receipt", "create-draft"}
    BY <1>1 DEF CreateTemporary, Kinds
  <2>2. CASE Undo(c, Staged(c, k), "create-failed")
    BY <2>1, <2>2, UndoStarts, ListsStart, Zenon DEF Linked, UndoCodes
  <2>3. CASE Put(Temporary(c, k), File(c, k)) /\ Goto(c, Write[k]) /\ UNCHANGED undo
    <3>1. Write[k] \in {"write-receipt", "write-draft"}
      BY DEF Kinds
    <3> QED
      BY <2>1, <2>3, <3>1, PutTemporary, Zenon DEF Linked, Goto, Points
  <2> QED
    BY <1>1, <2>2, <2>3, Zenon DEF CreateTemporary
<1>2. CASE WriteTemporary(c, k)
  <2>1. pc[c] \in {"write-receipt", "write-draft"}
    BY <1>2 DEF WriteTemporary, Kinds
  <2>2. CASE Undo(c, <<Temporary(c, k)>> \o Staged(c, k), "write-failed")
    BY <2>1, <2>2, UndoStarts, ListsStart, Zenon DEF Linked, UndoCodes
  <2>3. CASE /\ Goto(c, IF k = "receipt" THEN Create["draft"] ELSE "link-draft")
             /\ UNCHANGED <<files, undo>>
    BY <2>1, <2>3, KeepsFiles, Zenon DEF Linked, Goto, Points
  <2> QED
    BY <1>2, <2>2, <2>3, Zenon DEF WriteTemporary
<1>3. CASE RemoveTemporary(c, k)
  <2>1. pc[c] \in {"remove-receipt", "remove-draft"}
    BY <1>3 DEF RemoveTemporary, Kinds
  <2>2. UNCHANGED undo
    BY <1>3, Zenon DEF RemoveTemporary
  <2>3. CASE /\ Put(Temporary(c, k), None)
             /\ Goto(c, IF k = "receipt" THEN "remove-draft" ELSE "sync-receipt")
    BY <2>1, <2>2, <2>3, PutTemporary, ZenonT(40) DEF Linked, Goto, Points
  <2>4. CASE Exit(c, "cleanup-failed") /\ UNCHANGED files
    BY <2>1, <2>2, <2>4, KeepsFiles, ZenonT(40) DEF Linked, Exit, Points
  <2> QED
    BY <1>3, <2>3, <2>4, Zenon DEF RemoveTemporary
<1>4. CASE SyncParent(c, k)
  <2>1. pc[c] \in {"sync-receipt", "sync-draft"} /\ UNCHANGED <<files, undo>>
    BY <1>4 DEF SyncParent, Kinds
  <2>2. \E x \in {"sync-draft", "done"} : pc' = [pc EXCEPT ![c] = x]
    BY <1>4, Zenon DEF SyncParent, Goto, Exit
  <2> QED
    BY <2>1, <2>2, KeepsFiles, Zenon DEF Linked, Points
<1> QED
  BY <1>1, <1>2, <1>3, <1>4

\* A step of a command is quiet or one of the four.
LEMMA StepKinds ==
    ASSUME TypeInv, NEW c \in Commands, Step(c)
    PROVE  /\ Alone(c)
           /\ \/ Quiet(c) \/ DraftLinked(c) \/ ReceiptLinked(c)
              \/ ReceiptRefused(c) \/ Removed(c)
<1>1. undo[c] \in [paths : UndoLists(c), code : UndoCodes]
  BY Zenon DEF TypeInv
<1>2. CASE LinkDraft(c)
  <2>1. pc[c] = "link-draft"
    BY <1>2, Zenon DEF LinkDraft, At
  <2>2. CASE Undo(c, BothTemporaries(c), "draft-publish-failed")
    BY <2>1, <2>2, UndoStarts, ListsStart, Zenon DEF Linked, UndoCodes
  <2>3. CASE /\ files[DraftOf[c]] = None /\ Put(DraftOf[c], File(c, "draft"))
             /\ Goto(c, "link-receipt") /\ UNCHANGED undo
    <3>1. /\ files' = [files EXCEPT ![DraftOf[c]] = File(c, "draft")]
          /\ pc' = [pc EXCEPT ![c] = "link-receipt"]
      BY <2>3, Zenon DEF Put, Goto
    <3>2. pc'[c] = "link-receipt"
      BY <3>1 DEF TypeInv
    <3>3. files' = [p \in Paths |-> files'[p]]
      BY <3>1, Zenon DEF TypeInv
    <3> QED
      BY <1>1, <2>1, <2>3, <3>1, <3>2, <3>3, Zenon
         DEF Alone, DraftLinked, Points, TypeInv
  <2> QED
    BY <1>2, <2>2, <2>3, ZenonT(40) DEF LinkDraft
<1>3. CASE LinkReceipt(c)
  <2>1. pc[c] = "link-receipt"
    BY <1>3, Zenon DEF LinkReceipt, At
  <2>2. CASE Undo(c, <<DraftOf[c]>> \o BothTemporaries(c),
                  "receipt-publish-failed")
    BY <2>1, <2>2, UndoStarts, ListsStart, Zenon
       DEF Linked, UndoCodes, ReceiptRefused
  <2>3. CASE /\ files[ReceiptOf[c]] = None
             /\ Put(ReceiptOf[c], File(c, "receipt"))
             /\ Goto(c, "remove-receipt") /\ UNCHANGED undo
    <3>1. /\ files' = [files EXCEPT ![ReceiptOf[c]] = File(c, "receipt")]
          /\ pc' = [pc EXCEPT ![c] = "remove-receipt"]
      BY <2>3, Zenon DEF Put, Goto
    <3>2. pc'[c] = "remove-receipt"
      BY <3>1, Zenon DEF TypeInv
    <3>3. files' = [p \in Paths |-> files'[p]]
      BY <3>1, Zenon DEF TypeInv
    <3> QED
      BY <1>1, <2>1, <2>3, <3>1, <3>2, <3>3, Zenon
         DEF Alone, ReceiptLinked, Points, TypeInv
  <2> QED
    BY <1>3, <2>2, <2>3, Zenon DEF LinkReceipt
<1>4. CASE UndoNext(c)
  <2> DEFINE l == undo[c].paths
  <2>1. pc[c] = "undo" /\ pc' = pc /\ l # <<>>
    BY <1>4, Zenon DEF UndoNext, At
  <2>2. l \in UndoLists(c) /\ undo[c].code \in UndoCodes
    BY <1>1, Zenon
  <2>3. Tail(l) \in UndoLists(c)
    BY <2>1, <2>2, ListsGoOn, Zenon
  <2>4. undo' = [undo EXCEPT ![c] = [undo[c] EXCEPT !.paths = Tail(l)]]
    BY <1>4, Zenon DEF UndoNext
  <2>5. undo'[c] = [undo[c] EXCEPT !.paths = Tail(l)]
    BY <2>4, Zenon DEF TypeInv
  <2>6. undo'[c] \in [paths : UndoLists(c), code : UndoCodes]
        /\ undo'[c].paths = Tail(l)
    <3> HIDE DEF l
    <3> QED
      BY <1>1, <2>3, <2>5, Zenon
  <2>7. files' = files \/ files' = [files EXCEPT ![Head(l)] = None]
    BY <1>4, Zenon DEF UndoNext, Put
  <2>8. files' = [p \in Paths |-> files'[p]]
    BY <2>7, Zenon DEF TypeInv
  <2>9. undo' = [undo EXCEPT ![c] = undo'[c]]
    BY <2>4, <2>5, Zenon
  <2>10. Removed(c)
    BY <2>1, <2>6, <2>7, Zenon DEF Removed
  <2>11. Alone(c)
    BY <2>1, <2>6, <2>8, <2>9, Zenon DEF Alone, TypeInv
  <2> QED
    BY <2>10, <2>11, Zenon
<1>5. CASE UndoEnd(c)
  <2>1. pc' = [pc EXCEPT ![c] = "done"] /\ UNCHANGED <<files, undo>>
        /\ pc[c] = "undo"
    BY <1>5, Zenon DEF UndoEnd, Exit, disk, At
  <2>2. pc'[c] = "done"
    BY <2>1, Zenon DEF TypeInv
  <2> QED
    BY <1>1, <2>1, <2>2, Zenon DEF Alone, Quiet, Points, Linked, TypeInv
<1> QED
  BY <1>2, <1>3, <1>4, <1>5, QuietBefore, QuietPublication, Zenon DEF Step

-----------------------------------------------------------------------------
(* Types. *)

\* The initial state has the types.
LEMMA TypeInit == ASSUME Init PROVE TypeInv
<1>1. pc \in [Commands -> Points]
  BY Zenon DEF Init, Points
<1>2. files = [p \in Paths |-> files[p]]
  BY Zenon DEF Init
<1>3. \A c \in Commands : <<>> \in UndoLists(c)
  BY Zenon DEF UndoLists
<1>4. \A c \in Commands : undo[c].paths = <<>>
  BY Zenon DEF Init
<1>5. undo \in [Commands -> [paths : UNION {UndoLists(c) : c \in Commands},
                            code : UndoCodes]]
  BY <1>3, Zenon DEF Init, UndoCodes
<1> QED
  BY <1>1, <1>2, <1>3, <1>4, <1>5, Zenon DEF TypeInv

\* A step of one command keeps the types.
LEMMA TypeAlone ==
    ASSUME TypeInv, NEW c \in Commands, Alone(c) PROVE TypeInv'
<1> DEFINE Records == [paths : UNION {UndoLists(d) : d \in Commands},
                       code : UndoCodes]
<1>1. undo'[c] \in Records
  BY DEF Alone
<1>2. undo \in [Commands -> Records]
  BY Zenon DEF TypeInv
<1>3. undo' \in [Commands -> Records]
  <2> HIDE DEF Records
  <2> QED
    BY <1>1, <1>2, Zenon DEF Alone
<1>4. ASSUME NEW d \in Commands PROVE undo'[d].paths \in UndoLists(d)
  <2>1. CASE d = c
    BY <2>1, Zenon DEF Alone
  <2>2. CASE d # c
    <3>1. undo'[d] = undo[d]
      BY <1>2, <2>2, Zenon DEF Alone
    <3> QED
      BY <3>1, Zenon DEF TypeInv
  <2> QED
    BY <2>1, <2>2, Zenon
<1>5. pc' \in [Commands -> Points]
  BY Zenon DEF Alone, TypeInv
<1> QED
  BY <1>3, <1>4, <1>5, Zenon DEF TypeInv, Alone

\* What Next does, seen from the variables of the arguments.
LEMMA NextKinds ==
    ASSUME TypeInv, [Next]_vars
    PROVE  \/ UNCHANGED <<pc, files, undo>>
           \/ \E c \in Commands : Step(c)
           \/ \E c \in Commands : Alone(c) /\ Quiet(c)
           \/ /\ UNCHANGED <<pc, undo>>
              /\ \E p \in Targets : /\ files[p] = None
                                    /\ files' = [files EXCEPT ![p] = Foreign]
<1>1. CASE UNCHANGED vars
  BY <1>1, Zenon DEF vars, disk
<1>2. ASSUME NEW c \in Commands, Kill(c) PROVE Alone(c) /\ Quiet(c)
  <2>1. pc' = [pc EXCEPT ![c] = "killed"] /\ UNCHANGED <<files, undo>>
    BY <1>2, Zenon DEF Kill, Goto, disk
  <2>2. undo[c] \in [paths : UndoLists(c), code : UndoCodes]
    BY Zenon DEF TypeInv
  <2>3. pc'[c] = "killed"
    BY <2>1, Zenon DEF TypeInv
  <2> QED
    BY <2>1, <2>2, <2>3, Zenon DEF Alone, Quiet, Points, Linked, TypeInv
<1>3. ASSUME NEW p \in Targets, Occupy(p)
      PROVE  /\ UNCHANGED <<pc, undo>> /\ files[p] = None
             /\ files' = [files EXCEPT ![p] = Foreign]
  BY <1>3, Zenon DEF Occupy, Put
<1> QED
  BY <1>1, <1>2, <1>3, Zenon DEF Next, Finished

\* The types hold in every state.
LEMMA TypeInvariance == Spec => []TypeInv
<1>1. ASSUME TypeInv, [Next]_vars PROVE TypeInv'
  <2>1. CASE UNCHANGED <<pc, files, undo>>
    BY <1>1, <2>1, Zenon DEF TypeInv
  <2>2. ASSUME UNCHANGED <<pc, undo>>, NEW p \in Targets,
               files' = [files EXCEPT ![p] = Foreign]
        PROVE  TypeInv'
    <3>1. files' = [q \in Paths |-> files'[q]]
      BY <1>1, <2>2, ZenonT(40) DEF TypeInv
    <3> QED
      BY <1>1, <2>2, <3>1, Zenon DEF TypeInv
  <2> QED
    BY <1>1, <2>1, <2>2, NextKinds, StepKinds, TypeAlone, Zenon
<1> QED
  BY <1>1, TypeInit, PTL DEF Spec

-----------------------------------------------------------------------------
(* The targets. *)

\* A target changes in three ways: a link fills an empty one, another process
\* does, or a command takes its own draft away.
LEMMA TargetChange ==
    ASSUME TypeInv, OrderInv, NEW c \in Commands,
           \/ Quiet(c) \/ DraftLinked(c) \/ ReceiptLinked(c)
           \/ ReceiptRefused(c) \/ Removed(c),
           NEW p \in Targets, files'[p] # files[p]
    PROVE  \/ /\ DraftLinked(c) /\ p = DraftOf[c]
              /\ files[p] = None /\ files'[p] = File(c, "draft")
           \/ /\ ReceiptLinked(c) /\ p = ReceiptOf[c]
              /\ files[p] = None /\ files'[p] = File(c, "receipt")
           \/ /\ Removed(c) /\ p = DraftOf[c]
              /\ files[p] = File(c, "draft") /\ files'[p] = None
<1>1. p \in Paths /\ p \in DOMAIN files
  BY ZenonT(40) DEF TypeInv, Paths
<1>2. CASE Quiet(c)
  BY <1>2, Zenon DEF Quiet
<1>3. CASE DraftLinked(c)
  BY <1>1, <1>3, Zenon DEF DraftLinked
<1>4. CASE ReceiptLinked(c)
  BY <1>1, <1>4, Zenon DEF ReceiptLinked
<1>5. CASE ReceiptRefused(c)
  BY <1>5, Zenon DEF ReceiptRefused
<1>6. CASE Removed(c)
  <2> DEFINE l == undo[c].paths
  <2>1. pc[c] = "undo" /\ l # <<>> /\ files' = [files EXCEPT ![Head(l)] = None]
    BY <1>6, Zenon DEF Removed
  <2>2. p = Head(l) /\ files'[p] = None
    BY <1>1, <2>1, Zenon
  <2>3. l \in UndoLists(c)
    BY Zenon DEF TypeInv
  <2>4. p = DraftOf[c]
    BY <2>1, <2>2, <2>3, ListsGoOn, NamesDiffer
  <2>5. Published(c, "draft")
    BY <2>1, <2>2, Zenon DEF OrderInv, OrderAt
  <2> QED
    BY <1>6, <2>2, <2>4, <2>5, Zenon DEF Published, TargetOf
<1> QED
  BY <1>2, <1>3, <1>4, <1>5, <1>6, Zenon

\* A step of one command keeps the order of publication.
LEMMA OrderStep ==
    ASSUME TypeInv, OrderInv, NEW c \in Commands, Alone(c),
           \/ Quiet(c) \/ DraftLinked(c) \/ ReceiptLinked(c)
           \/ ReceiptRefused(c) \/ Removed(c)
    PROVE  OrderInv'
<1>1. \A d \in Commands : ReceiptOf[d] \in Targets /\ DraftOf[d] \in Targets
  BY TargetAssumption, Zenon
<1>2. \A d \in Commands : /\ TargetOf(d, "receipt") = ReceiptOf[d]
                          /\ TargetOf(d, "draft") = DraftOf[d]
  BY Zenon DEF TargetOf
<1>3. \A d, e \in Commands :
         /\ File(d, "receipt") # File(e, "draft")
         /\ File(d, "receipt") = File(e, "receipt") => d = e
         /\ File(d, "draft") = File(e, "draft") => d = e
         /\ File(d, "receipt") # None /\ File(d, "draft") # None
  BY NamesDiffer, Zenon DEF Kinds
<1>4. \A p \in Targets : files'[p] # files[p] =>
         \/ /\ DraftLinked(c) /\ p = DraftOf[c]
            /\ files[p] = None /\ files'[p] = File(c, "draft")
         \/ /\ ReceiptLinked(c) /\ p = ReceiptOf[c]
            /\ files[p] = None /\ files'[p] = File(c, "receipt")
         \/ /\ Removed(c) /\ p = DraftOf[c]
            /\ files[p] = File(c, "draft") /\ files'[p] = None
  BY TargetChange, Zenon
<1>5. ASSUME NEW d \in Commands, d # c PROVE OrderAt(d)'
  <2>1. pc'[d] = pc[d] /\ undo'[d] = undo[d]
    BY <1>5, Zenon DEF Alone, TypeInv
  <2>2. Published(d, "draft") => Published(d, "draft")'
    BY <1>1, <1>2, <1>3, <1>4, <1>5, Zenon DEF Published
  <2>3. Published(d, "receipt")' => Published(d, "receipt")
    BY <1>1, <1>2, <1>3, <1>4, <1>5 DEF Published
  <2> QED
    BY <2>1, <2>2, <2>3, Zenon DEF OrderInv, OrderAt
<1>6. OrderAt(c)'
  <2>1. OrderAt(c)
    BY DEF OrderInv
  <2>2. CASE Quiet(c)
    <3>1. /\ Published(c, "receipt")' <=> Published(c, "receipt")
          /\ Published(c, "draft")' <=> Published(c, "draft")
      BY <1>1, <1>2, <2>2, Zenon DEF Published, Quiet
    <3> QED
      BY <2>1, <2>2, <3>1, Zenon DEF OrderAt, Quiet
  <2>3. CASE DraftLinked(c)
    <3>1. Published(c, "draft")'
      BY <1>1, <1>2, <2>3, ZenonT(40) DEF Published, DraftLinked, TypeInv, Paths
    <3>2. ~Published(c, "receipt")'
      BY <1>1, <1>2, <1>3, <2>1, <2>3, <1>4
         DEF Published, OrderAt, DraftLinked, ReceiptLinked, Linked
    <3> QED
      BY <2>3, <3>1, <3>2, Zenon DEF OrderAt
  <2>4. CASE ReceiptLinked(c)
    <3>1. Published(c, "draft")
      BY <2>1, <2>4, Zenon DEF OrderAt, ReceiptLinked
    <3>2. Published(c, "draft")'
      BY <1>1, <1>2, <1>3, <2>4, <3>1, <1>4, Zenon
         DEF Published, ReceiptLinked, Removed
    <3> QED
      BY <2>4, <3>2, ZenonT(40) DEF OrderAt, ReceiptLinked, Linked
  <2>5. CASE ReceiptRefused(c)
    <3>1. Published(c, "draft") /\ ~Published(c, "receipt")
      BY <2>1, <2>5, Zenon DEF OrderAt, ReceiptRefused, Linked
    <3>2. Published(c, "draft")' /\ ~Published(c, "receipt")'
      BY <1>2, <2>5, <3>1, Zenon DEF Published, ReceiptRefused
    <3> QED
      BY <3>2, Zenon DEF OrderAt
  <2>6. CASE Removed(c)
    <3>1. undo[c].paths \in UndoLists(c)
      BY Zenon DEF TypeInv
    <3>2. undo'[c].paths = <<>> \/ Head(undo'[c].paths) \notin Targets
      BY <2>6, <3>1, ListsGoOn, Zenon DEF Removed
    <3>3. ~Published(c, "receipt")
      BY <2>1, <2>6, Zenon DEF OrderAt, Removed, Linked
    <3>4. ~Published(c, "receipt")'
      <4>1. ~ReceiptLinked(c) /\ ~DraftLinked(c)
        BY <2>6 DEF Removed, ReceiptLinked, DraftLinked
      <4>2. files'[ReceiptOf[c]] # files[ReceiptOf[c]]
              => files'[ReceiptOf[c]] = None
        BY <1>1, <1>4, <4>1, Zenon
      <4> QED
        BY <1>2, <1>3, <3>3, <4>2, Zenon DEF Published
    <3> QED
      BY <2>6, <3>2, <3>4, Zenon DEF OrderAt, Removed
  <2> QED
    BY <2>2, <2>3, <2>4, <2>5, <2>6, Zenon
<1> QED
  BY <1>5, <1>6, Zenon DEF OrderInv

\* Another process that takes an empty target keeps it too.
LEMMA OrderOccupied ==
    ASSUME TypeInv, OrderInv, UNCHANGED <<pc, undo>>, NEW p \in Targets,
           files[p] = None, files' = [files EXCEPT ![p] = Foreign]
    PROVE  OrderInv'
<1>1. ASSUME NEW d \in Commands, NEW k \in Kinds
      PROVE  Published(d, k)' <=> Published(d, k)
  <2>1. TargetOf(d, k) \in DOMAIN files /\ p \in DOMAIN files
    BY NamesDiffer, Zenon DEF TypeInv, Paths
  <2>2. File(d, k) # None /\ File(d, k) # Foreign
    BY NamesDiffer, Zenon
  <2> QED
    BY <2>1, <2>2, Zenon DEF Published
<1> QED
  BY <1>1, Zenon DEF OrderInv, OrderAt, Kinds

\* The order of publication holds in every state.
LEMMA OrderInvariance == Spec => []OrderInv
<1>1. ASSUME Init PROVE OrderInv
  <2>1. ASSUME NEW c \in Commands, NEW k \in Kinds PROVE ~Published(c, k)
    <3>1. files[TargetOf(c, k)] = None /\ File(c, k) # None
      BY <1>1, NamesDiffer, Zenon DEF Init
    <3> QED
      BY <3>1, Zenon DEF Published
  <2>2. \A c \in Commands : pc[c] # "link-receipt" /\ pc[c] # "undo"
    BY <1>1, Zenon DEF Init
  <2> QED
    BY <2>1, <2>2, Zenon DEF OrderInv, OrderAt, Kinds
<1>2. ASSUME TypeInv, OrderInv, [Next]_vars PROVE OrderInv'
  <2>1. CASE UNCHANGED <<pc, files, undo>>
    BY <1>2, <2>1, Zenon DEF OrderInv, OrderAt, Published
  <2> QED
    BY <1>2, <2>1, NextKinds, StepKinds, OrderStep, OrderOccupied, Zenon
<1> QED
  BY <1>1, <1>2, TypeInvariance, PTL DEF Spec

\* A receipt at its target has its draft beside it, whatever was killed and
\* whoever wants the same targets (publish_pair).
THEOREM PairsAreWhole == Spec => []PairIsWhole
<1>1. OrderInv => PairIsWhole
  BY Zenon DEF OrderInv, OrderAt, PairIsWhole
<1> QED
  BY <1>1, OrderInvariance, PTL

\* No command replaces what is at a target, and none removes anything there
\* but its own draft while it takes a failed publication back.
THEOREM TargetsAreKept == Spec => TargetsNeverReplaced
<1> DEFINE Kept == \A p \in Targets :
        files[p] # None /\ files'[p] # files[p] =>
           /\ files'[p] = None
           /\ \E c \in Commands :
                 /\ files[p] = File(c, "draft") /\ p = DraftOf[c]
                 /\ pc[c] = "undo" /\ pc'[c] = "undo"
<1>1. ASSUME TypeInv, OrderInv, [Next]_vars PROVE Kept
  <2>1. CASE UNCHANGED <<pc, files, undo>>
    BY <2>1, Zenon
  <2>2. ASSUME NEW c \in Commands,
               \/ Quiet(c) \/ DraftLinked(c) \/ ReceiptLinked(c)
               \/ ReceiptRefused(c) \/ Removed(c)
        PROVE  Kept
    <3>1. ASSUME NEW p \in Targets, files[p] # None, files'[p] # files[p]
          PROVE  Removed(c) /\ p = DraftOf[c]
                 /\ files[p] = File(c, "draft") /\ files'[p] = None
      BY <1>1, <2>2, <3>1, TargetChange, Zenon
    <3>2. Removed(c) => pc[c] = "undo" /\ pc'[c] = "undo"
      BY Zenon DEF Removed
    <3> QED
      BY <3>1, <3>2, Zenon
  <2>3. ASSUME NEW p \in Targets, files[p] = None,
               files' = [files EXCEPT ![p] = Foreign]
        PROVE  Kept
    <3>1. \A q \in Targets : q \in DOMAIN files
      BY <1>1, Zenon DEF TypeInv, Paths
    <3> QED
      BY <2>3, <3>1, Zenon
  <2> HIDE DEF Kept
  <2> QED
    BY <1>1, <2>1, <2>2, <2>3, NextKinds, StepKinds, Zenon
<1> QED
  BY <1>1, TypeInvariance, OrderInvariance, PTL DEF Spec, TargetsNeverReplaced

-----------------------------------------------------------------------------
(* What the exit code tells. *)

\* The types of the other variables that publication changes.
DiskTypes ==
    /\ maybe = [p \in Paths |-> maybe[p]]
    /\ exit = [c \in Commands |-> exit[c]]

\* The files of c lie nowhere but in a set of paths.
Within(c, set) ==
    \A p \in Paths : \A k \in Kinds : files[p] = File(c, k) => p \in set

\* The paths of a list, and those that c still has to remove.
Entries(l) == {l[i] : i \in DOMAIN l}
Listed(c) == Entries(undo[c].paths)

Early == {"receipt-target", "draft-target", "admit", "observe", "build",
          "create-receipt"}
Committed == {"remove-receipt", "remove-draft", "sync-receipt", "sync-draft"}
Unpublished(code) ==
    code \notin Reported \union {None, "cleanup-failed", "sync-failed"}

\* Where the files of c may lie before they are published, and after a
\* failure: where the next removals look, unless one has failed.
HeldAt(c) ==
    /\ pc[c] \in Early => Within(c, {})
    /\ pc[c] \in {"write-receipt", "create-draft"} =>
          Within(c, {Temporary(c, "receipt")})
    /\ pc[c] \in {"write-draft", "link-draft"} =>
          Within(c, {Temporary(c, "receipt"), Temporary(c, "draft")})
    /\ pc[c] = "link-receipt" =>
          Within(c, {Temporary(c, "receipt"), Temporary(c, "draft"), DraftOf[c]})
    /\ pc[c] = "undo" /\ c \notin kept => Within(c, Listed(c))
    /\ Unpublished(exit[c]) /\ c \notin kept => Within(c, {})

\* A file is linked only once both are written.
WrittenAt(c) ==
    /\ pc[c] \in {"create-draft", "write-draft"} => File(c, "receipt") \in whole
    /\ pc[c] \in {"link-draft", "link-receipt"} =>
          File(c, "receipt") \in whole /\ File(c, "draft") \in whole

\* What is done step by step after the receipt was linked.
DurableAt(c) ==
    /\ exit[c] # None => pc[c] = "done"
    /\ pc[c] \in Committed \/ exit[c] \in Reported =>
          Published(c, "receipt") /\ Published(c, "draft")
    /\ pc[c] \in Committed \ {"remove-receipt"} \/ exit[c] \in Reported =>
          files[Temporary(c, "receipt")] = None
    /\ pc[c] \in {"sync-receipt", "sync-draft"} \/ exit[c] \in Reported =>
          files[Temporary(c, "draft")] = None
    /\ pc[c] = "sync-draft" \/ exit[c] \in Reported =>
          maybe[ReceiptOf[c]] = {File(c, "receipt")}
    /\ exit[c] \in Reported => maybe[DraftOf[c]] = {File(c, "draft")}

\* A target may hold what it holds now, and nothing that was not written.
TargetInv ==
    \A p \in Targets : /\ files[p] \in maybe[p]
                       /\ maybe[p] \subseteq whole \union {None, Foreign}

ExitInv ==
    /\ DiskTypes /\ TargetInv
    /\ \A c \in Commands : HeldAt(c) /\ WrittenAt(c) /\ DurableAt(c)

\* What a step of c may do to a path: nothing, or settle what it may hold;
\* or fill or empty a temporary name of c, fill an empty target with a file
\* that is written, or take the draft back.
Settled(p) ==
    files'[p] = files[p] /\ (maybe'[p] = maybe[p] \/ maybe'[p] = {files[p]})

Placed(c, p) ==
    /\ maybe'[p] = maybe[p] \union {files'[p]}
    /\ \/ \E k \in Kinds : /\ p = Temporary(c, k)
                           /\ files'[p] = None \/ files'[p] = File(c, k)
       \/ \E k \in Kinds : /\ p = TargetOf(c, k) /\ files[p] = None
                           /\ files'[p] = File(c, k) /\ File(c, k) \in whole
       \/ p = DraftOf[c] /\ files[p] = File(c, "draft") /\ files'[p] = None

Effect(c) ==
    /\ \A p \in Paths : Settled(p) \/ Placed(c, p)
    /\ \A d \in Commands : d # c =>
          pc'[d] = pc[d] /\ undo'[d] = undo[d] /\ exit'[d] = exit[d]
    /\ whole \subseteq whole' /\ kept \subseteq kept'
    /\ kept' \subseteq kept \union {c}

\* An update of a function.
LEMMA Updated ==
    ASSUME NEW D, NEW f, f = [x \in D |-> f[x]], NEW x \in D, NEW v,
           NEW g, g = [f EXCEPT ![x] = v]
    PROVE  /\ g = [y \in D |-> g[y]] /\ g[x] = v
           /\ \A y \in D : y # x => g[y] = f[y]
BY Zenon

\* What Put does.
LEMMA PutAt ==
    ASSUME TypeInv, DiskTypes, NEW q \in Paths, NEW v, Put(q, v)
    PROVE  /\ files'[q] = v /\ maybe'[q] = maybe[q] \union {v}
           /\ \A p \in Paths : p # q => files'[p] = files[p] /\ maybe'[p] = maybe[p]
           /\ maybe' = [p \in Paths |-> maybe'[p]]
<1>1. /\ files' = [files EXCEPT ![q] = v]
      /\ maybe' = [maybe EXCEPT ![q] = maybe[q] \union {v}]
  BY Zenon DEF Put
<1>2. files = [p \in Paths |-> files[p]] /\ maybe = [p \in Paths |-> maybe[p]]
  BY Zenon DEF TypeInv, DiskTypes
<1> QED
  BY <1>1, <1>2, Updated, Zenon

\* What Goto and Exit do to the control points and the codes.
LEMMA MovesAt ==
    ASSUME TypeInv, DiskTypes, NEW c \in Commands
    PROVE  /\ \A x : Goto(c, x) =>
                 pc'[c] = x /\ \A d \in Commands : d # c => pc'[d] = pc[d]
           /\ \A x : Exit(c, x) =>
                 /\ pc'[c] = "done" /\ exit'[c] = x
                 /\ exit' = [d \in Commands |-> exit'[d]]
                 /\ \A d \in Commands : d # c =>
                       pc'[d] = pc[d] /\ exit'[d] = exit[d]
<1>1. pc = [d \in Commands |-> pc[d]]
  BY DEF TypeInv
<1>2. exit = [d \in Commands |-> exit[d]]
  BY Zenon DEF DiskTypes
<1>3. ASSUME NEW x, Goto(c, x)
      PROVE  pc'[c] = x /\ \A d \in Commands : d # c => pc'[d] = pc[d]
  BY <1>1, <1>3, Updated, Zenon DEF Goto
<1>4. ASSUME NEW x, Exit(c, x)
      PROVE  /\ pc'[c] = "done" /\ exit'[c] = x
             /\ exit' = [d \in Commands |-> exit'[d]]
             /\ \A d \in Commands : d # c =>
                   pc'[d] = pc[d] /\ exit'[d] = exit[d]
  <2>1. pc' = [pc EXCEPT ![c] = "done"] /\ exit' = [exit EXCEPT ![c] = x]
    BY <1>4 DEF Exit
  <2> QED
    BY <1>1, <1>2, <2>1, Updated, Zenon
<1> QED
  BY <1>3, <1>4, Zenon

\* What a step of c leaves true of another command.
LEMMA OthersKeep ==
    ASSUME TypeInv, ExitInv, NEW c \in Commands, Effect(c),
           NEW d \in Commands, d # c
    PROVE  HeldAt(d)' /\ WrittenAt(d)' /\ DurableAt(d)'
<1>1. /\ pc'[d] = pc[d] /\ undo'[d] = undo[d] /\ exit'[d] = exit[d]
      /\ d \in kept <=> d \in kept'
  BY Zenon DEF Effect
<1>2. \A k, l \in Kinds :
         /\ File(d, l) # File(c, k) /\ File(d, l) # None
         /\ Temporary(d, l) # Temporary(c, k)
         /\ Temporary(d, l) \in Paths /\ Temporary(d, l) # TargetOf(c, k)
         /\ TargetOf(d, l) \in Paths /\ TargetOf(d, l) # Temporary(c, k)
  <2>1. \A k, l \in Kinds : File(d, l) # File(c, k) /\ File(d, l) # None
    BY NamesDiffer, Zenon
  <2>2. \A k, l \in Kinds : Temporary(d, l) # Temporary(c, k)
    BY <2>1 DEF File, Temporary
  <2> QED
    BY <2>1, <2>2, NamesDiffer
<1>3. DraftOf[c] = TargetOf(c, "draft") /\ "draft" \in Kinds
  BY Zenon DEF TargetOf, Kinds
<1>4. \A p \in Paths : \A k \in Kinds :
         files'[p] = File(d, k) => files[p] = File(d, k)
  <2>1. SUFFICES ASSUME NEW p \in Paths, NEW k \in Kinds,
                        files'[p] = File(d, k)
                 PROVE  files[p] = File(d, k)
    BY Zenon
  <2>2. Settled(p) \/ Placed(c, p)
    BY Zenon DEF Effect
  <2>3. CASE Settled(p)
    BY <2>1, <2>3, Zenon DEF Settled
  <2>4. CASE Placed(c, p)
    <3>1. files'[p] # None /\ \A l \in Kinds : files'[p] # File(c, l)
      BY <1>2, <2>1, Zenon
    <3> QED
      BY <2>4, <3>1, Zenon DEF Placed
  <2> QED
    BY <2>2, <2>3, <2>4, Zenon
<1>5. \A k \in Kinds : files'[Temporary(d, k)] = files[Temporary(d, k)]
  BY <1>2, <1>3 DEF Effect, Settled, Placed
<1>6. \A k \in Kinds : Published(d, k) =>
         /\ Published(d, k)'
         /\ maybe[TargetOf(d, k)] = {File(d, k)} =>
               maybe'[TargetOf(d, k)] = {File(d, k)}
  BY <1>2, <1>3 DEF Effect, Settled, Placed, Published
<1>7. HeldAt(d)'
  <2>1. HeldAt(d)
    BY DEF ExitInv
  <2>2. Listed(d)' = Listed(d)
    BY <1>1, Zenon DEF Listed
  <2>3. /\ Within(d, {}) => Within(d, {})'
        /\ Within(d, {Temporary(d, "receipt")}) =>
              Within(d, {Temporary(d, "receipt")})'
        /\ Within(d, {Temporary(d, "receipt"), Temporary(d, "draft")}) =>
              Within(d, {Temporary(d, "receipt"), Temporary(d, "draft")})'
        /\ Within(d, {Temporary(d, "receipt"), Temporary(d, "draft"), DraftOf[d]})
           => Within(d, {Temporary(d, "receipt"), Temporary(d, "draft"),
                         DraftOf[d]})'
    BY <1>4, Zenon DEF Within
  <2>4. Within(d, Listed(d)) => Within(d, Listed(d))'
    BY <1>4, <2>2, Zenon DEF Within
  <2> QED
    BY <1>1, <2>1, <2>3, <2>4, Zenon DEF HeldAt
<1>8. WrittenAt(d)'
  BY <1>1, Zenon DEF ExitInv, WrittenAt, Effect
<1>9. DurableAt(d)'
  <2>1. /\ TargetOf(d, "receipt") = ReceiptOf[d]
        /\ TargetOf(d, "draft") = DraftOf[d]
        /\ "receipt" \in Kinds /\ "draft" \in Kinds
    BY Zenon DEF TargetOf, Kinds
  <2>2. DurableAt(d)
    BY DEF ExitInv
  <2>3. /\ Published(d, "receipt") => Published(d, "receipt")'
        /\ Published(d, "draft") => Published(d, "draft")'
    BY <1>6, <2>1, Zenon
  <2>4. /\ Published(d, "receipt") /\ maybe[ReceiptOf[d]] = {File(d, "receipt")}
           => maybe'[ReceiptOf[d]] = {File(d, "receipt")}
        /\ Published(d, "draft") /\ maybe[DraftOf[d]] = {File(d, "draft")}
           => maybe'[DraftOf[d]] = {File(d, "draft")}
    BY <1>6, <2>1, Zenon
  <2>5. /\ files'[Temporary(d, "receipt")] = files[Temporary(d, "receipt")]
        /\ files'[Temporary(d, "draft")] = files[Temporary(d, "draft")]
    BY <1>5, <2>1, Zenon
  <2> QED
    BY <1>1, <2>2, <2>3, <2>4, <2>5, Zenon DEF DurableAt, Committed
<1> QED
  BY <1>7, <1>8, <1>9

\* What a target may hold is settled or grows by a file that is written.
LEMMA TargetKeep ==
    ASSUME TypeInv, ExitInv, NEW c \in Commands, Effect(c) PROVE TargetInv'
<1>1. ASSUME NEW p \in Targets
      PROVE  /\ files'[p] \in maybe'[p]
             /\ maybe'[p] \subseteq whole' \union {None, Foreign}
  <2>1. /\ p \in Paths /\ files[p] \in maybe[p]
        /\ maybe[p] \subseteq whole' \union {None, Foreign}
    BY Zenon DEF ExitInv, TargetInv, Paths, Effect
  <2>2. \A k \in Kinds : p # Temporary(c, k)
    BY NamesDiffer
  <2>3. CASE Settled(p)
    BY <2>1, <2>3, Zenon DEF Settled
  <2>4. CASE Placed(c, p)
    <3>1. files'[p] \in whole' \union {None}
      BY <2>2, <2>4, Zenon DEF Placed, Effect
    <3> QED
      BY <2>1, <2>4, <3>1, Zenon DEF Placed
  <2> QED
    BY <2>1, <2>3, <2>4, Zenon DEF Effect
<1> QED
  BY <1>1, Zenon DEF TargetInv

\* A step of c that keeps the invariant for c itself.
Keeps(c) ==
    DiskTypes' /\ Effect(c) /\ HeldAt(c)' /\ WrittenAt(c)' /\ DurableAt(c)'

\* An error of the mapping is not the code of success.
LEMMA MappingFails ==
    \A n, event : MapError(n, event) \notin Reported
BY NoneAssumption DEF MapError, EventError, Reported

\* The steps up to the construction of the receipt: nothing is on disk.
LEMMA EarlyKeeps ==
    ASSUME TypeInv, ExitInv, NEW c \in Commands, pc[c] \in Early,
           UNCHANGED <<files, maybe, whole, undo, kept>>,
           \/ UNCHANGED <<pc, exit>>
           \/ UNCHANGED exit /\ \E x \in Early : Goto(c, x)
           \/ \E code : code \notin Reported /\ Exit(c, code)
    PROVE  Keeps(c)
<1>1. DiskTypes /\ HeldAt(c) /\ DurableAt(c)
  BY Zenon DEF ExitInv
<1>2. exit[c] = None
  BY <1>1, Zenon DEF DurableAt, Early
<1>3. /\ \A d \in Commands : d # c => pc'[d] = pc[d] /\ exit'[d] = exit[d]
      /\ exit' = [d \in Commands |-> exit'[d]]
      /\ \/ pc'[c] \in Early /\ exit'[c] = None
         \/ pc'[c] = "done" /\ exit'[c] \notin Reported
  <2>1. CASE UNCHANGED <<pc, exit>>
    BY <1>1, <1>2, <2>1, Zenon DEF DiskTypes
  <2>2. ASSUME UNCHANGED exit, NEW x \in Early, Goto(c, x)
        PROVE  <1>3!1 /\ <1>3!2 /\ pc'[c] \in Early /\ exit'[c] = None
    BY <1>1, <1>2, <2>2, MovesAt DEF DiskTypes
  <2>3. ASSUME NEW code, code \notin Reported, Exit(c, code)
        PROVE  <1>3!1 /\ <1>3!2 /\ pc'[c] = "done" /\ exit'[c] \notin Reported
    BY <1>1, <2>3, MovesAt, Zenon
  <2> QED
    BY <2>1, <2>2, <2>3, Zenon
<1>4. DiskTypes'
  BY <1>1, <1>3, Zenon DEF DiskTypes
<1>5. Effect(c)
  BY <1>3, Zenon DEF Effect, Settled
<1>6. Within(c, {})'
  BY <1>1, Zenon DEF HeldAt, Within
<1>7. HeldAt(c)'
  BY <1>3, <1>6, NoneAssumption, Zenon DEF HeldAt, Early, Unpublished
<1>8. WrittenAt(c)'
  BY <1>3, Zenon DEF WrittenAt, Early
<1>9. DurableAt(c)'
  BY <1>3, NoneAssumption, Zenon DEF DurableAt, Early, Committed, Reported
<1> QED
  BY <1>4, <1>5, <1>7, <1>8, <1>9, Zenon DEF Keeps

\* A failed step: the files lie where the removals will look.
LEMMA UndoKeeps ==
    ASSUME TypeInv, ExitInv, NEW c \in Commands, NEW paths, NEW code,
           Undo(c, paths, code), UNCHANGED <<exit, whole, kept>>,
           pc[c] # "done", Within(c, Entries(paths))
    PROVE  Keeps(c)
<1>1. DiskTypes /\ DurableAt(c)
  BY Zenon DEF ExitInv
<1>2. exit'[c] = None
  BY <1>1, Zenon DEF DurableAt
<1>3. /\ pc'[c] = "undo" /\ undo'[c].paths = paths
      /\ \A d \in Commands : d # c => pc'[d] = pc[d] /\ undo'[d] = undo[d]
      /\ UNCHANGED <<files, maybe>>
  BY <1>1, MovesAt DEF Undo, TypeInv
<1>4. Effect(c) /\ DiskTypes'
  BY <1>1, <1>3, Zenon DEF Effect, Settled, DiskTypes
<1>5. Within(c, Listed(c))'
  BY <1>3, Zenon DEF Listed, Within
<1>6. HeldAt(c)'
  BY <1>2, <1>3, <1>5, ZenonT(40) DEF HeldAt, Early, Unpublished
<1>7. WrittenAt(c)' /\ DurableAt(c)'
  BY <1>2, <1>3, NoneAssumption, Zenon
     DEF WrittenAt, DurableAt, Committed, Reported
<1> QED
  BY <1>4, <1>6, <1>7, Zenon DEF Keeps

\* The lists the removals start from hold the paths of the earlier steps.
LEMMA ListedPaths ==
    ASSUME NEW c \in Commands
    PROVE  LET r == Temporary(c, "receipt")
               d == Temporary(c, "draft")
           IN  /\ Entries(Staged(c, "receipt")) = {}
               /\ Entries(Staged(c, "draft")) = {r}
               /\ Entries(<<r>> \o Staged(c, "receipt")) = {r}
               /\ Entries(<<d>> \o Staged(c, "draft")) = {r, d}
               /\ Entries(BothTemporaries(c)) = {r, d}
               /\ Entries(<<DraftOf[c]>> \o BothTemporaries(c)) = {r, d, DraftOf[c]}
<1> DEFINE r == Temporary(c, "receipt")
           d == Temporary(c, "draft")
<1>1. Staged(c, "receipt") = <<>> /\ Staged(c, "draft") = <<r>>
      /\ BothTemporaries(c) = <<r, d>>
  BY Zenon DEF Staged, BothTemporaries
<1> HIDE DEF r, d
<1>2. /\ Entries(<<>>) = {} /\ Entries(<<r>>) = {r}
      /\ Entries(<<d, r>>) = {r, d} /\ Entries(<<r, d>>) = {r, d}
  BY DEF Entries
<1>3. Entries(<<DraftOf[c], r, d>>) = {r, d, DraftOf[c]}
  BY DEF Entries
<1>4. /\ <<r>> \o Staged(c, "receipt") = <<r>>
      /\ <<d>> \o Staged(c, "draft") = <<d, r>>
      /\ <<DraftOf[c]>> \o BothTemporaries(c) = <<DraftOf[c], r, d>>
  BY <1>1, Concatenations, ZenonT(60)
<1>5. /\ Entries(Staged(c, "receipt")) = {}
      /\ Entries(Staged(c, "draft")) = {r}
      /\ Entries(<<r>> \o Staged(c, "receipt")) = {r}
      /\ Entries(<<d>> \o Staged(c, "draft")) = {r, d}
      /\ Entries(BothTemporaries(c)) = {r, d}
      /\ Entries(<<DraftOf[c]>> \o BothTemporaries(c)) = {r, d, DraftOf[c]}
  BY <1>1, <1>2, <1>3, <1>4, Zenon
<1> QED
  BY <1>5, Zenon DEF r, d

\* A removal leaves the rest of the list.
LEMMA ListedNext ==
    ASSUME NEW c \in Commands, NEW l \in UndoLists(c), l # <<>>
    PROVE  Entries(l) \subseteq Entries(Tail(l)) \union {Head(l)}
<1> DEFINE r == Temporary(c, "receipt")
           d == Temporary(c, "draft")
<1>1. l \in {<<r>>, <<d>>, <<d, r>>, <<r, d>>, <<DraftOf[c], r, d>>}
  BY Zenon DEF UndoLists
<1> HIDE DEF r, d
<1>2. ASSUME NEW x, NEW y, NEW z, l \in {<<x>>, <<x, y>>, <<x, y, z>>}
      PROVE  Entries(l) \subseteq Entries(Tail(l)) \union {Head(l)}
  <2>1. CASE l = <<x>>
    BY <2>1 DEF Entries
  <2>2. CASE l = <<x, y>>
    <3>1. Tail(l) = <<y>> /\ Head(l) = x
      BY <2>2
    <3> QED
      BY <2>2, <3>1 DEF Entries
  <2>3. CASE l = <<x, y, z>>
    <3>1. Tail(l) = <<y, z>> /\ Head(l) = x
      BY <2>3
    <3>2. Entries(l) = {x, y, z} /\ Entries(<<y, z>>) = {y, z}
      BY <2>3 DEF Entries
    <3> QED
      BY <3>1, <3>2, Zenon
  <2> QED
    BY <1>2, <2>1, <2>2, <2>3, Zenon
<1>3. \A x, y, z : l \in {<<x>>, <<x, y>>, <<x, y, z>>} =>
         Entries(l) \subseteq Entries(Tail(l)) \union {Head(l)}
  BY <1>2, Zenon
<1>4. CASE l \in {<<r>>, <<r, d>>}
  BY <1>3, <1>4, Zenon
<1>5. CASE l \in {<<d>>, <<d, r>>}
  BY <1>3, <1>5, Zenon
<1>6. CASE l = <<DraftOf[c], r, d>>
  BY <1>3, <1>6
<1> QED
  BY <1>1, <1>4, <1>5, <1>6, Zenon

\* A step of a command that has not exited, seen from the codes.
LEMMA Running ==
    ASSUME ExitInv, NEW c \in Commands, pc[c] # "done"
    PROVE  DiskTypes /\ HeldAt(c) /\ WrittenAt(c) /\ DurableAt(c) /\ exit[c] = None
BY Zenon DEF ExitInv, DurableAt

\* The temporary names and the targets of a command.
LEMMA OwnNames ==
    ASSUME NEW c \in Commands
    PROVE  /\ "receipt" \in Kinds /\ "draft" \in Kinds
           /\ TargetOf(c, "receipt") = ReceiptOf[c]
           /\ TargetOf(c, "draft") = DraftOf[c]
           /\ ReceiptOf[c] \in Targets /\ DraftOf[c] \in Targets
           /\ ReceiptOf[c] \in Paths /\ DraftOf[c] \in Paths
           /\ \A k \in Kinds : /\ Temporary(c, k) \in Paths
                               /\ Temporary(c, k) \notin Targets
           /\ Temporary(c, "receipt") # Temporary(c, "draft")
           /\ File(c, "receipt") # None /\ File(c, "draft") # None
           /\ File(c, "receipt") # File(c, "draft")
<1>1. "receipt" \in Kinds /\ "draft" \in Kinds
  BY Zenon DEF Kinds
<1>2. TargetOf(c, "receipt") = ReceiptOf[c] /\ TargetOf(c, "draft") = DraftOf[c]
  BY Zenon DEF TargetOf
<1>3. Temporary(c, "receipt") # Temporary(c, "draft")
  BY DEF Temporary
<1>4. File(c, "receipt") # File(c, "draft")
  BY DEF File
<1> QED
  BY <1>1, <1>2, <1>3, <1>4, NamesDiffer

\* A temporary file is created.
LEMMA CreateKeeps ==
    ASSUME TypeInv, ExitInv, NEW c \in Commands, NEW k \in Kinds,
           CreateTemporary(c, k)
    PROVE  Keeps(c)
<1> DEFINE r == Temporary(c, "receipt")
           d == Temporary(c, "draft")
<1>1. /\ pc[c] = IF k = "receipt" THEN "create-receipt" ELSE "create-draft"
      /\ UNCHANGED <<exit, whole, kept>>
  <2>1. Create[k] = IF k = "receipt" THEN "create-receipt" ELSE "create-draft"
    BY DEF Create, Kinds
  <2> QED
    BY <2>1, Zenon DEF CreateTemporary, At
<1>2. DiskTypes /\ HeldAt(c) /\ WrittenAt(c) /\ exit[c] = None
  BY <1>1, Running, Zenon
<1>3. /\ k = "receipt" => Within(c, {})
      /\ k # "receipt" => Within(c, {r}) /\ File(c, "receipt") \in whole
  BY <1>1, <1>2, Zenon DEF HeldAt, WrittenAt, Early
<1>4. CASE Undo(c, Staged(c, k), "create-failed")
  <2>1. Within(c, Entries(Staged(c, k)))
    BY <1>3, ListedPaths, Zenon DEF Kinds
  <2> QED
    BY <1>1, <1>4, <2>1, UndoKeeps, Zenon
<1>5. CASE /\ Put(Temporary(c, k), File(c, k)) /\ Goto(c, Write[k])
           /\ UNCHANGED undo
  <2> DEFINE q == Temporary(c, k)
  <2>1. q \in Paths
    BY OwnNames, Zenon
  <2>2. /\ files'[q] = File(c, k) /\ maybe'[q] = maybe[q] \union {File(c, k)}
        /\ \A p \in Paths : p # q =>
              files'[p] = files[p] /\ maybe'[p] = maybe[p]
        /\ maybe' = [p \in Paths |-> maybe'[p]]
    <3> HIDE DEF q
    <3> QED
      BY <1>2, <1>5, <2>1, PutAt, Zenon DEF q
  <2>3. /\ pc'[c] = IF k = "receipt" THEN "write-receipt" ELSE "write-draft"
        /\ \A e \in Commands : e # c => pc'[e] = pc[e]
    BY <1>2, <1>5, MovesAt DEF Write, Kinds
  <2>4. Effect(c) /\ DiskTypes'
    <3>1. Placed(c, q)
      BY <2>2, Zenon DEF Placed
    <3>2. \A p \in Paths : p # q => Settled(p)
      BY <2>2, Zenon DEF Settled
    <3> HIDE DEF q
    <3>3. \A p \in Paths : Settled(p) \/ Placed(c, p)
      BY <3>1, <3>2, Zenon
    <3> QED
      BY <1>1, <1>2, <1>5, <2>2, <2>3, <3>3, Zenon DEF Effect, DiskTypes
  <2>5. /\ k = "receipt" => Within(c, {r})'
        /\ k # "receipt" => Within(c, {r, d})'
    BY <1>3, <2>2, Zenon DEF Within, Kinds
  <2>6. HeldAt(c)'
    BY <1>1, <1>2, <2>3, <2>5, Zenon DEF HeldAt, Early, Unpublished
  <2>7. WrittenAt(c)' /\ DurableAt(c)'
    BY <1>1, <1>2, <1>3, <2>3, NoneAssumption, Zenon
       DEF WrittenAt, DurableAt, Committed, Reported
  <2> QED
    BY <2>4, <2>6, <2>7, Zenon DEF Keeps
<1> QED
  BY <1>4, <1>5, Zenon DEF CreateTemporary

\* A temporary file is written and synchronised.
LEMMA WriteKeeps ==
    ASSUME TypeInv, ExitInv, NEW c \in Commands, NEW k \in Kinds,
           WriteTemporary(c, k)
    PROVE  Keeps(c)
<1> DEFINE r == Temporary(c, "receipt")
           d == Temporary(c, "draft")
<1>1. /\ pc[c] = IF k = "receipt" THEN "write-receipt" ELSE "write-draft"
      /\ UNCHANGED <<exit, kept>>
  BY DEF WriteTemporary, At, Write, Kinds
<1>2. DiskTypes /\ HeldAt(c) /\ WrittenAt(c) /\ exit[c] = None
  BY <1>1, Running, Zenon
<1>3. /\ k = "receipt" => Within(c, {r})
      /\ k # "receipt" => Within(c, {r, d}) /\ File(c, "receipt") \in whole
  BY <1>1, <1>2, Zenon DEF HeldAt, WrittenAt
<1>4. CASE /\ Undo(c, <<Temporary(c, k)>> \o Staged(c, k), "write-failed")
           /\ UNCHANGED whole
  <2>1. Within(c, Entries(<<Temporary(c, k)>> \o Staged(c, k)))
    <3>1. CASE k = "receipt"
      BY <1>3, <3>1, ListedPaths, ZenonT(40)
    <3>2. CASE k = "draft"
      <4>1. Entries(<<d>> \o Staged(c, "draft")) = {r, d}
        BY ListedPaths, Zenon
      <4> QED
        BY <1>3, <3>2, <4>1, Zenon
    <3> QED
      BY <3>1, <3>2, Zenon DEF Kinds
  <2> QED
    BY <1>1, <1>4, <2>1, UndoKeeps, Zenon
<1>5. CASE /\ whole' = whole \union {File(c, k)}
           /\ Goto(c, IF k = "receipt" THEN Create["draft"] ELSE "link-draft")
           /\ UNCHANGED <<files, maybe, undo>>
  <2>1. /\ pc'[c] = IF k = "receipt" THEN "create-draft" ELSE "link-draft"
        /\ \A e \in Commands : e # c => pc'[e] = pc[e]
    BY <1>2, <1>5, MovesAt, Zenon DEF Create
  <2>2. Effect(c) /\ DiskTypes'
    BY <1>1, <1>2, <1>5, <2>1, Zenon DEF Effect, DiskTypes, Settled
  <2>3. /\ k = "receipt" => Within(c, {r})'
        /\ k # "receipt" => Within(c, {r, d})'
    BY <1>3, <1>5, Zenon DEF Within
  <2>4. HeldAt(c)'
    BY <1>1, <1>2, <2>1, <2>3, ZenonT(40) DEF HeldAt, Early, Unpublished
  <2>5. WrittenAt(c)'
    <3>1. /\ File(c, "receipt") \in whole' /\ pc'[c] # "link-receipt"
          /\ pc'[c] = "link-draft" => File(c, "draft") \in whole'
      BY <1>3, <1>5, <2>1, Zenon DEF Kinds
    <3> QED
      BY <3>1, Zenon DEF WrittenAt
  <2>6. DurableAt(c)'
    <3>1. /\ exit'[c] = None /\ None \notin Reported /\ pc'[c] # "sync-draft"
          /\ pc'[c] \notin Committed
          /\ pc'[c] \notin {"sync-receipt", "sync-draft"}
      BY <1>1, <1>2, <2>1, NoneAssumption, Zenon DEF Committed, Reported
    <3> QED
      BY <3>1, Zenon DEF DurableAt
  <2> QED
    BY <2>2, <2>4, <2>5, <2>6, Zenon DEF Keeps
<1> QED
  BY <1>4, <1>5, Zenon DEF WriteTemporary

\* The draft is linked, or the temporary files are taken back.
LEMMA LinkDraftKeeps ==
    ASSUME TypeInv, ExitInv, NEW c \in Commands, LinkDraft(c)
    PROVE  Keeps(c)
<1> DEFINE r == Temporary(c, "receipt")
           d == Temporary(c, "draft")
           q == DraftOf[c]
<1>1. pc[c] = "link-draft" /\ UNCHANGED <<exit, whole, kept>>
  BY Zenon DEF LinkDraft, At
<1>2. DiskTypes /\ HeldAt(c) /\ WrittenAt(c) /\ exit[c] = None
  BY <1>1, Running, Zenon
<1>3. /\ Within(c, {r, d})
      /\ File(c, "receipt") \in whole /\ File(c, "draft") \in whole
  BY <1>1, <1>2, Zenon DEF HeldAt, WrittenAt
<1>4. CASE Undo(c, BothTemporaries(c), "draft-publish-failed")
  <2>1. Within(c, Entries(BothTemporaries(c)))
    <3>1. Entries(BothTemporaries(c)) = {r, d}
      BY ListedPaths, Zenon
    <3> QED
      BY <1>3, <3>1, Zenon
  <2> QED
    BY <1>1, <1>4, <2>1, UndoKeeps, Zenon
<1>5. CASE /\ files[DraftOf[c]] = None /\ Put(DraftOf[c], File(c, "draft"))
           /\ Goto(c, "link-receipt") /\ UNCHANGED undo
  <2>1. q \in Paths /\ q = TargetOf(c, "draft") /\ "draft" \in Kinds
    BY OwnNames, Zenon
  <2>2. /\ files'[q] = File(c, "draft")
        /\ maybe'[q] = maybe[q] \union {File(c, "draft")}
        /\ \A p \in Paths : p # q =>
              files'[p] = files[p] /\ maybe'[p] = maybe[p]
        /\ maybe' = [p \in Paths |-> maybe'[p]]
    BY <1>2, <1>5, <2>1, PutAt
  <2>3. /\ pc'[c] = "link-receipt"
        /\ \A e \in Commands : e # c => pc'[e] = pc[e]
    BY <1>2, <1>5, MovesAt, Zenon
  <2>4. Effect(c) /\ DiskTypes'
    <3>1. Placed(c, q)
      BY <1>3, <1>5, <2>1, <2>2, Zenon DEF Placed
    <3>2. \A p \in Paths : p # q => Settled(p)
      BY <2>2, Zenon DEF Settled
    <3>3. \A p \in Paths : Settled(p) \/ Placed(c, p)
      BY <3>1, <3>2, Zenon
    <3> QED
      BY <1>1, <1>2, <1>5, <2>2, <2>3, <3>3, Zenon DEF Effect, DiskTypes
  <2>5. Within(c, {r, d, q})'
    BY <1>3, <2>2, Zenon DEF Within
  <2>6. HeldAt(c)'
    BY <1>1, <1>2, <2>3, <2>5, Zenon DEF HeldAt, Early, Unpublished
  <2>7. WrittenAt(c)' /\ DurableAt(c)'
    BY <1>1, <1>2, <1>3, <2>3, NoneAssumption, ZenonT(40)
       DEF WrittenAt, DurableAt, Committed, Reported
  <2> QED
    BY <2>4, <2>6, <2>7, Zenon DEF Keeps
<1> QED
  BY <1>4, <1>5, Zenon DEF LinkDraft

\* The receipt is linked beside the draft, or both are taken back.
LEMMA LinkReceiptKeeps ==
    ASSUME TypeInv, OrderInv, ExitInv, NEW c \in Commands, LinkReceipt(c)
    PROVE  Keeps(c)
<1> DEFINE r == Temporary(c, "receipt")
           d == Temporary(c, "draft")
           q == ReceiptOf[c]
<1>1. pc[c] = "link-receipt" /\ UNCHANGED <<exit, whole, kept>>
  BY Zenon DEF LinkReceipt, At
<1>2. DiskTypes /\ HeldAt(c) /\ WrittenAt(c) /\ exit[c] = None
  BY <1>1, Running, Zenon
<1>3. /\ Within(c, {r, d, DraftOf[c]})
      /\ File(c, "receipt") \in whole /\ Published(c, "draft")
  BY <1>1, <1>2, Zenon DEF HeldAt, WrittenAt, OrderInv, OrderAt
<1>4. CASE Undo(c, <<DraftOf[c]>> \o BothTemporaries(c), "receipt-publish-failed")
  <2>1. Within(c, Entries(<<DraftOf[c]>> \o BothTemporaries(c)))
    <3>1. Entries(<<DraftOf[c]>> \o BothTemporaries(c)) = {r, d, DraftOf[c]}
      BY ListedPaths, Zenon
    <3> QED
      BY <1>3, <3>1, Zenon
  <2> QED
    BY <1>1, <1>4, <2>1, UndoKeeps, Zenon
<1>5. CASE /\ files[ReceiptOf[c]] = None
           /\ Put(ReceiptOf[c], File(c, "receipt"))
           /\ Goto(c, "remove-receipt") /\ UNCHANGED undo
  <2>1. /\ q \in Paths /\ q = TargetOf(c, "receipt") /\ "receipt" \in Kinds
        /\ DraftOf[c] \in Paths /\ DraftOf[c] = TargetOf(c, "draft")
        /\ File(c, "draft") # None
    BY OwnNames, Zenon
  <2>2. /\ files'[q] = File(c, "receipt")
        /\ maybe'[q] = maybe[q] \union {File(c, "receipt")}
        /\ \A p \in Paths : p # q =>
              files'[p] = files[p] /\ maybe'[p] = maybe[p]
        /\ maybe' = [p \in Paths |-> maybe'[p]]
    BY <1>2, <1>5, <2>1, PutAt, Zenon
  <2>3. /\ pc'[c] = "remove-receipt"
        /\ \A e \in Commands : e # c => pc'[e] = pc[e]
    BY <1>2, <1>5, MovesAt, Zenon
  <2>4. Effect(c) /\ DiskTypes'
    <3>1. Placed(c, q)
      BY <1>3, <1>5, <2>1, <2>2, Zenon DEF Placed
    <3>2. \A p \in Paths : p # q => Settled(p)
      BY <2>2, Zenon DEF Settled
    <3>3. \A p \in Paths : Settled(p) \/ Placed(c, p)
      BY <3>1, <3>2, Zenon
    <3> QED
      BY <1>1, <1>2, <1>5, <2>2, <2>3, <3>3, Zenon DEF Effect, DiskTypes
  <2>5. Published(c, "receipt")' /\ Published(c, "draft")'
    BY <1>3, <1>5, <2>1, <2>2, Zenon DEF Published
  <2>6. HeldAt(c)' /\ WrittenAt(c)'
    BY <1>1, <1>2, <2>3, ZenonT(40) DEF HeldAt, WrittenAt, Early, Unpublished
  <2>7. DurableAt(c)'
    BY <1>1, <1>2, <2>3, <2>5, NoneAssumption, Zenon
       DEF DurableAt, Committed, Reported
  <2> QED
    BY <2>4, <2>6, <2>7, Zenon DEF Keeps
<1> QED
  BY <1>4, <1>5, ZenonT(40) DEF LinkReceipt

\* A removal of a failed publication, and its end.
LEMMA UndoNextKeeps ==
    ASSUME TypeInv, OrderInv, ExitInv, NEW c \in Commands, UndoNext(c)
    PROVE  Keeps(c)
<1> DEFINE l == undo[c].paths
<1>1. /\ pc[c] = "undo" /\ l # <<>> /\ UNCHANGED <<pc, exit, whole>>
      /\ undo' = [undo EXCEPT ![c].paths = Tail(l)]
  BY Zenon DEF UndoNext, At
<1>2. DiskTypes /\ HeldAt(c) /\ exit[c] = None
  BY <1>1, Running, Zenon
<1>3. l \in UndoLists(c)
  BY Zenon DEF TypeInv
<1>4. /\ undo'[c].paths = Tail(l)
      /\ \A e \in Commands : e # c => undo'[e] = undo[e]
  BY <1>1, Zenon DEF TypeInv
<1>5. Entries(l) \subseteq Entries(Tail(l)) \union {Head(l)}
  BY <1>1, <1>3, ListedNext, Zenon
<1>6. c \notin kept => Within(c, Entries(l))
  BY <1>1, <1>2, Zenon DEF HeldAt, Listed
<1>7. WrittenAt(c)' /\ DurableAt(c)'
  BY <1>1, <1>2, NoneAssumption, Zenon
     DEF WrittenAt, DurableAt, Committed, Reported
<1>8. CASE Put(Head(l), None) /\ UNCHANGED kept
  <2> DEFINE q == Head(l)
  <2>1. q = DraftOf[c] \/ \E k \in Kinds : q = Temporary(c, k)
    BY <1>1, <1>3, ListsGoOn, Zenon
  <2>2. q \in Paths
    BY <2>1, OwnNames, Zenon
  <2>3. q \in Targets => q = DraftOf[c] /\ files[q] = File(c, "draft")
    <3>1. q \in Targets => Published(c, "draft")
      BY <1>1, Zenon DEF OrderInv, OrderAt
    <3> HIDE DEF q
    <3> QED
      BY <2>1, <3>1, OwnNames DEF Published
  <2> HIDE DEF q
  <2>4. /\ files'[q] = None /\ maybe'[q] = maybe[q] \union {None}
        /\ \A p \in Paths : p # q =>
              files'[p] = files[p] /\ maybe'[p] = maybe[p]
        /\ maybe' = [p \in Paths |-> maybe'[p]]
    BY <1>2, <1>8, <2>2, PutAt DEF q
  <2>5. Effect(c) /\ DiskTypes'
    <3>1. Placed(c, q)
      BY <2>1, <2>3, <2>4, OwnNames, Zenon DEF Placed
    <3>2. \A p \in Paths : p # q => Settled(p)
      BY <2>4, Zenon DEF Settled
    <3>3. \A p \in Paths : Settled(p) \/ Placed(c, p)
      BY <3>1, <3>2, Zenon
    <3> QED
      BY <1>1, <1>2, <1>4, <1>8, <2>4, <3>3, Zenon DEF Effect, DiskTypes
  <2>6. c \notin kept => Within(c, Listed(c))'
    <3>1. \A k \in Kinds : File(c, k) # None
      BY NamesDiffer, Zenon
    <3>2. Listed(c)' = Entries(Tail(l))
      BY <1>4, Zenon DEF Listed, Entries
    <3> QED
      BY <1>5, <1>6, <2>4, <3>1, <3>2 DEF Within, q
  <2>7. HeldAt(c)'
    BY <1>1, <1>2, <1>8, <2>6, Zenon DEF HeldAt, Early, Unpublished
  <2> QED
    BY <1>7, <2>5, <2>7, Zenon DEF Keeps
<1>9. CASE kept' = kept \union {c} /\ UNCHANGED <<files, maybe>>
  <2>1. Effect(c) /\ DiskTypes'
    BY <1>1, <1>2, <1>4, <1>9, Zenon DEF Effect, DiskTypes, Settled
  <2>2. HeldAt(c)'
    BY <1>1, <1>2, <1>9, Zenon DEF HeldAt, Early, Unpublished
  <2> QED
    BY <1>7, <2>1, <2>2 DEF Keeps
<1> QED
  BY <1>8, <1>9, Zenon DEF UndoNext

\* The command ends with the code of the step that failed.
LEMMA UndoEndKeeps ==
    ASSUME TypeInv, ExitInv, NEW c \in Commands, UndoEnd(c)
    PROVE  Keeps(c)
<1>1. /\ pc[c] = "undo" /\ undo[c].paths = <<>> /\ Exit(c, undo[c].code)
      /\ UNCHANGED <<files, maybe, whole, undo, kept>>
  BY Zenon DEF UndoEnd, At, disk
<1>2. DiskTypes /\ HeldAt(c)
  BY <1>1, Running, Zenon
<1>3. undo[c].code \notin Reported
  BY NoneAssumption, Zenon DEF TypeInv, UndoCodes, Reported
<1>4. /\ pc'[c] = "done" /\ exit'[c] = undo[c].code
      /\ exit' = [e \in Commands |-> exit'[e]]
      /\ \A e \in Commands : e # c => pc'[e] = pc[e] /\ exit'[e] = exit[e]
  BY <1>1, <1>2, MovesAt, Zenon
<1>5. Effect(c) /\ DiskTypes'
  BY <1>1, <1>2, <1>4, Zenon DEF Effect, DiskTypes, Settled
<1>6. Listed(c) = {}
  BY <1>1, SMTT(30) DEF Listed, Entries
<1>7. c \notin kept' => Within(c, {})'
  BY <1>1, <1>2, <1>6, Zenon DEF HeldAt, Within
<1>8. HeldAt(c)'
  BY <1>4, <1>7, Zenon DEF HeldAt, Early
<1>9. WrittenAt(c)' /\ DurableAt(c)'
  BY <1>3, <1>4, Zenon DEF WrittenAt, DurableAt, Committed
<1> QED
  BY <1>5, <1>8, <1>9 DEF Keeps

\* After the links, the temporary names are removed one by one.
LEMMA RemoveKeeps ==
    ASSUME TypeInv, ExitInv, NEW c \in Commands, NEW k \in Kinds,
           RemoveTemporary(c, k)
    PROVE  Keeps(c)
<1> DEFINE r == Temporary(c, "receipt")
           d == Temporary(c, "draft")
           q == Temporary(c, k)
<1>1. /\ pc[c] = IF k = "receipt" THEN "remove-receipt" ELSE "remove-draft"
      /\ UNCHANGED <<whole, undo, kept>>
  BY DEF RemoveTemporary, At, Removal, Kinds
<1>2. DiskTypes /\ DurableAt(c) /\ exit[c] = None
  BY <1>1, Running, Zenon
<1>3. /\ Published(c, "receipt") /\ Published(c, "draft")
      /\ k # "receipt" => files[r] = None
  BY <1>1, <1>2, Zenon DEF DurableAt, Committed
<1>4. CASE Exit(c, "cleanup-failed") /\ UNCHANGED <<files, maybe>>
  <2>1. /\ pc'[c] = "done" /\ exit'[c] = "cleanup-failed"
        /\ exit' = [e \in Commands |-> exit'[e]]
        /\ \A e \in Commands : e # c => pc'[e] = pc[e] /\ exit'[e] = exit[e]
    BY <1>2, <1>4, MovesAt, Zenon
  <2>2. Effect(c) /\ DiskTypes'
    BY <1>1, <1>2, <1>4, <2>1, Zenon DEF Effect, DiskTypes, Settled
  <2>3. HeldAt(c)' /\ WrittenAt(c)'
    BY <2>1, Zenon DEF HeldAt, WrittenAt, Early, Unpublished
  <2>4. DurableAt(c)'
    BY <2>1, Zenon DEF DurableAt, Committed, Reported
  <2> QED
    BY <2>2, <2>3, <2>4, Zenon DEF Keeps
<1>5. CASE /\ Put(Temporary(c, k), None)
           /\ Goto(c, IF k = "receipt" THEN "remove-draft" ELSE "sync-receipt")
           /\ UNCHANGED exit
  <2>1. /\ pc'[c] = IF k = "receipt" THEN "remove-draft" ELSE "sync-receipt"
        /\ \A e \in Commands : e # c => pc'[e] = pc[e]
    BY <1>2, <1>5, MovesAt
  <2>2. q \in Paths /\ q \notin Targets
    BY OwnNames, Zenon
  <2>3. /\ files'[q] = None /\ maybe'[q] = maybe[q] \union {None}
        /\ \A p \in Paths : p # q =>
              files'[p] = files[p] /\ maybe'[p] = maybe[p]
        /\ maybe' = [p \in Paths |-> maybe'[p]]
    <3> HIDE DEF q
    <3> QED
      BY <1>2, <1>5, <2>2, PutAt DEF q
  <2>4. Effect(c) /\ DiskTypes'
    <3>1. Placed(c, q)
      BY <2>3, Zenon DEF Placed
    <3>2. \A p \in Paths : p # q => Settled(p)
      BY <2>3, Zenon DEF Settled
    <3> HIDE DEF q
    <3>3. \A p \in Paths : Settled(p) \/ Placed(c, p)
      BY <3>1, <3>2
    <3> QED
      BY <1>1, <1>2, <1>5, <2>1, <2>3, <3>3, Zenon DEF Effect, DiskTypes
  <2>5. Published(c, "receipt")' /\ Published(c, "draft")'
    <3> HIDE DEF q
    <3> QED
      BY <1>3, <2>2, <2>3, OwnNames DEF Published
  <2>6. /\ files'[r] = None
        /\ k # "receipt" => files'[d] = None
    <3>1. k = "receipt" \/ k = "draft"
      BY DEF Kinds
    <3>2. r \in Paths /\ r # d
      BY OwnNames, Zenon
    <3> QED
      BY <1>3, <2>3, <3>1, <3>2, Zenon
  <2>7. HeldAt(c)' /\ WrittenAt(c)'
    BY <1>2, <1>5, <2>1, ZenonT(40) DEF HeldAt, WrittenAt, Early, Unpublished
  <2>8. DurableAt(c)'
    BY <1>2, <1>5, <2>1, <2>5, <2>6, NoneAssumption, ZenonT(40)
       DEF DurableAt, Committed, Reported
  <2> QED
    BY <2>4, <2>7, <2>8 DEF Keeps
<1> QED
  BY <1>4, <1>5, Zenon DEF RemoveTemporary

\* The directories of the targets are synchronised one by one.
LEMMA SyncKeeps ==
    ASSUME TypeInv, ExitInv, NEW c \in Commands, NEW k \in Kinds,
           SyncParent(c, k)
    PROVE  Keeps(c)
<1>1. /\ pc[c] = IF k = "receipt" THEN "sync-receipt" ELSE "sync-draft"
      /\ UNCHANGED <<files, whole, undo, kept>>
  BY DEF SyncParent, At, Sync, Kinds
<1>2. DiskTypes /\ DurableAt(c) /\ exit[c] = None
  BY <1>1, Running, Zenon
<1>3. /\ Published(c, "receipt") /\ Published(c, "draft")
      /\ files[Temporary(c, "receipt")] = None
      /\ files[Temporary(c, "draft")] = None
      /\ k # "receipt" => maybe[ReceiptOf[c]] = {File(c, "receipt")}
  BY <1>1, <1>2, Zenon DEF DurableAt, Committed
<1>4. Published(c, "receipt")' /\ Published(c, "draft")'
  BY <1>1, <1>3, Zenon DEF Published
<1>5. CASE Exit(c, "sync-failed") /\ UNCHANGED maybe
  <2>1. /\ pc'[c] = "done" /\ exit'[c] = "sync-failed"
        /\ exit' = [e \in Commands |-> exit'[e]]
        /\ \A e \in Commands : e # c => pc'[e] = pc[e] /\ exit'[e] = exit[e]
    BY <1>2, <1>5, MovesAt, Zenon
  <2>2. Effect(c) /\ DiskTypes'
    BY <1>1, <1>2, <1>5, <2>1, Zenon DEF Effect, DiskTypes, Settled
  <2>3. HeldAt(c)' /\ WrittenAt(c)'
    BY <2>1, Zenon DEF HeldAt, WrittenAt, Early, Unpublished
  <2>4. DurableAt(c)'
    BY <2>1, Zenon DEF DurableAt, Committed, Reported
  <2> QED
    BY <2>2, <2>3, <2>4 DEF Keeps
<1>6. CASE /\ maybe' = [p \in Paths |->
                 IF Directory(p) = Parent[TargetOf(c, k)] THEN {files[p]}
                 ELSE maybe[p]]
           /\ IF k = "receipt" /\ Parent[ReceiptOf[c]] # Parent[DraftOf[c]]
              THEN Goto(c, "sync-draft") /\ UNCHANGED exit
              ELSE \E code \in Reported : Exit(c, code)
  <2>1. /\ maybe' = [p \in Paths |-> maybe'[p]]
        /\ \A p \in Paths : Settled(p)
        /\ \A p \in Paths : Directory(p) = Parent[TargetOf(c, k)] =>
              maybe'[p] = {files[p]}
    BY <1>1, <1>6, Zenon DEF Settled
  <2>2. /\ Directory(ReceiptOf[c]) = Parent[ReceiptOf[c]]
        /\ Directory(DraftOf[c]) = Parent[DraftOf[c]]
    BY OwnNames, Zenon DEF Directory
  <2>3. /\ files[ReceiptOf[c]] = File(c, "receipt")
        /\ files[DraftOf[c]] = File(c, "draft")
    BY <1>3, OwnNames, Zenon DEF Published
  <2>4. maybe'[ReceiptOf[c]] = {File(c, "receipt")}
    <3>1. CASE k = "receipt"
      BY <2>1, <2>2, <2>3, <3>1, OwnNames
    <3>2. CASE k # "receipt"
      BY <1>3, <2>1, <2>3, <3>2, OwnNames, Zenon DEF Settled
    <3> QED
      BY <3>1, <3>2, Zenon
  <2>5. k # "receipt" \/ Parent[ReceiptOf[c]] = Parent[DraftOf[c]] =>
           maybe'[DraftOf[c]] = {File(c, "draft")}
    <3>1. k = "receipt" \/ k = "draft"
      BY DEF Kinds
    <3> QED
      BY <2>1, <2>2, <2>3, <3>1, OwnNames
  <2>6. /\ exit' = [e \in Commands |-> exit'[e]]
        /\ \A e \in Commands : e # c => pc'[e] = pc[e] /\ exit'[e] = exit[e]
        /\ \/ pc'[c] = "sync-draft" /\ exit'[c] = None
           \/ /\ pc'[c] = "done" /\ exit'[c] \in Reported
              /\ k # "receipt" \/ Parent[ReceiptOf[c]] = Parent[DraftOf[c]]
    <3>1. CASE k = "receipt" /\ Parent[ReceiptOf[c]] # Parent[DraftOf[c]]
      BY <1>2, <1>6, <3>1, MovesAt DEF DiskTypes
    <3>2. CASE ~(k = "receipt" /\ Parent[ReceiptOf[c]] # Parent[DraftOf[c]])
      BY <1>2, <1>6, <3>2, MovesAt
    <3> QED
      BY <3>1, <3>2, Zenon
  <2>7. Effect(c) /\ DiskTypes'
    BY <1>1, <2>1, <2>6, Zenon DEF Effect, DiskTypes
  <2>8. HeldAt(c)' /\ WrittenAt(c)'
    BY <2>6, Zenon DEF HeldAt, WrittenAt, Early, Unpublished
  <2>9. DurableAt(c)'
    BY <1>1, <1>3, <1>4, <2>4, <2>5, <2>6, NoneAssumption, Zenon
       DEF DurableAt, Committed, Reported
  <2> QED
    BY <2>7, <2>8, <2>9 DEF Keeps
<1> QED
  BY <1>5, <1>6, ZenonT(40) DEF SyncParent

\* A command that is killed leaves everything as it is.
LEMMA KillKeeps ==
    ASSUME TypeInv, ExitInv, NEW c \in Commands, Kill(c)
    PROVE  Keeps(c)
<1>1. /\ pc[c] # "done" /\ Goto(c, "killed")
      /\ UNCHANGED <<exit, files, maybe, whole, undo, kept>>
  BY Zenon DEF Kill, disk
<1>2. DiskTypes /\ exit[c] = None
  BY <1>1, Running, Zenon
<1>3. pc'[c] = "killed" /\ \A e \in Commands : e # c => pc'[e] = pc[e]
  BY <1>1, <1>2, MovesAt, Zenon
<1>4. Effect(c) /\ DiskTypes'
  BY <1>1, <1>2, <1>3, Zenon DEF Effect, DiskTypes, Settled
<1>5. HeldAt(c)' /\ WrittenAt(c)' /\ DurableAt(c)'
  BY <1>1, <1>2, <1>3, NoneAssumption, Zenon
     DEF HeldAt, WrittenAt, DurableAt, Early, Unpublished, Committed, Reported
<1> QED
  BY <1>4, <1>5, Zenon DEF Keeps

\* Every step of a command keeps the invariant for it.
LEMMA StepKeeps ==
    ASSUME TypeInv, OrderInv, ExitInv, NEW c \in Commands, Step(c)
    PROVE  Keeps(c)
<1>1. CASE PrepareReceipt(c) \/ PrepareDraft(c)
  BY <1>1, EarlyKeeps, ZenonT(40)
     DEF PrepareReceipt, PrepareDraft, At, Early, disk, Reported
<1>2. CASE CreateOutputRoot(c)
  BY <1>2, EarlyKeeps, ZenonT(40)
     DEF CreateOutputRoot, At, Early, disk, Reported
<1>3. CASE AdmissionFail(c) \/ ObserverFail(c)
  BY <1>3, EarlyKeeps, Zenon
     DEF AdmissionFail, ObserverFail, At, Early, disk, Reported
<1>4. ASSUME NEW event \in TraceEvents, Observe(c, event)
      PROVE  Keeps(c)
  <2> DEFINE error == IF IsMapped(event)
                      THEN MapError(Len(events[c]), event) ELSE None
  <2>1. error \notin Reported
    BY MappingFails, NoneAssumption, Zenon DEF Reported
  <2>2. /\ pc[c] = "observe" /\ UNCHANGED <<files, maybe, whole, undo, kept>>
        /\ Exit(c, error) \/ UNCHANGED <<pc, exit>>
    BY <1>4, Zenon DEF Observe, At, disk
  <2> HIDE DEF error
  <2> QED
    BY <2>1, <2>2, EarlyKeeps, Zenon DEF Early
<1>5. ASSUME NEW end \in Ends, EndObservation(c, end)
      PROVE  Keeps(c)
  BY <1>5, EarlyKeeps, ZenonT(40) DEF EndObservation, At, Early, disk, Reported
<1>6. CASE Build(c)
  BY <1>6, EarlyKeeps, Zenon DEF Build, At, Early, disk, Reported
<1> QED
  BY <1>1, <1>2, <1>3, <1>4, <1>5, <1>6, CreateKeeps, WriteKeeps,
     LinkDraftKeeps, LinkReceiptKeeps, UndoNextKeeps, UndoEndKeeps,
     RemoveKeeps, SyncKeeps, Zenon
     DEF Step

\* Another process fills an empty target.
LEMMA OccupyKeeps ==
    ASSUME TypeInv, ExitInv, NEW q \in Targets, Occupy(q)
    PROVE  ExitInv'
<1>1. /\ files[q] = None /\ Put(q, Foreign)
      /\ UNCHANGED <<pc, exit, whole, undo, kept>>
  BY Zenon DEF Occupy
<1>2. q \in Paths /\ DiskTypes
  BY Zenon DEF Paths, ExitInv
<1>3. /\ files'[q] = Foreign /\ maybe'[q] = maybe[q] \union {Foreign}
      /\ \A p \in Paths : p # q => files'[p] = files[p] /\ maybe'[p] = maybe[p]
      /\ maybe' = [p \in Paths |-> maybe'[p]]
  BY <1>1, <1>2, PutAt, Zenon
<1>4. DiskTypes'
  BY <1>1, <1>2, <1>3, Zenon DEF DiskTypes
<1>5. TargetInv'
  BY <1>1, <1>3, Zenon DEF ExitInv, TargetInv, Paths
<1>6. ASSUME NEW c \in Commands
      PROVE  HeldAt(c)' /\ WrittenAt(c)' /\ DurableAt(c)'
  <2>1. HeldAt(c) /\ WrittenAt(c) /\ DurableAt(c)
    BY Zenon DEF ExitInv
  <2>2. \A k \in Kinds : File(c, k) # None /\ File(c, k) # Foreign
    BY NamesDiffer, Zenon
  <2>3. \A p \in Paths : \A k \in Kinds :
           files'[p] = File(c, k) => files[p] = File(c, k)
    BY <1>3, <2>2, Zenon
  <2>4. /\ Within(c, {}) => Within(c, {})'
        /\ Within(c, {Temporary(c, "receipt")}) =>
              Within(c, {Temporary(c, "receipt")})'
        /\ Within(c, {Temporary(c, "receipt"), Temporary(c, "draft")}) =>
              Within(c, {Temporary(c, "receipt"), Temporary(c, "draft")})'
        /\ Within(c, {Temporary(c, "receipt"), Temporary(c, "draft"), DraftOf[c]})
           => Within(c, {Temporary(c, "receipt"), Temporary(c, "draft"),
                         DraftOf[c]})'
    BY <2>3, Zenon DEF Within
  <2>5. Within(c, Listed(c)) => Within(c, Listed(c))'
    BY <1>1, <2>3, Zenon DEF Within, Listed
  <2>6. HeldAt(c)'
    BY <1>1, <2>1, <2>4, <2>5, Zenon DEF HeldAt
  <2>7. WrittenAt(c)'
    BY <1>1, <2>1, Zenon DEF WrittenAt
  <2>8. \A k \in Kinds : files'[Temporary(c, k)] = files[Temporary(c, k)]
    BY <1>3, OwnNames
  <2>9. \A k \in Kinds : Published(c, k) =>
           TargetOf(c, k) \in Paths /\ TargetOf(c, k) # q
    BY <1>1, <2>2, NamesDiffer, Zenon DEF Published
  <2>10. /\ Published(c, "receipt") =>
              Published(c, "receipt")' /\ maybe'[ReceiptOf[c]] = maybe[ReceiptOf[c]]
         /\ Published(c, "draft") =>
              Published(c, "draft")' /\ maybe'[DraftOf[c]] = maybe[DraftOf[c]]
    BY <1>3, <2>9, OwnNames DEF Published
  <2>11. DurableAt(c)'
    BY <1>1, <2>1, <2>8, <2>10, OwnNames, Zenon DEF DurableAt, Committed
  <2> QED
    BY <2>6, <2>7, <2>11, Zenon
<1> QED
  BY <1>4, <1>5, <1>6, Zenon DEF ExitInv

\* At the start nothing is on disk and nothing has ended.
LEMMA ExitInit == ASSUME Init PROVE ExitInv
<1>1. /\ \A c \in Commands : exit[c] = None /\ pc[c] \in {"receipt-target", "done"}
      /\ \A p \in Paths : files[p] = None /\ maybe[p] = {None}
  BY Zenon DEF Init
<1>2. DiskTypes
  BY Zenon DEF Init, DiskTypes
<1>3. TargetInv
  BY <1>1 DEF TargetInv, Paths
<1>4. ASSUME NEW c \in Commands PROVE HeldAt(c) /\ WrittenAt(c) /\ DurableAt(c)
  <2>1. Within(c, {})
    BY <1>1, NamesDiffer, Zenon DEF Within
  <2>2. HeldAt(c)
    BY <1>1, <2>1, Zenon DEF HeldAt, Early, Unpublished
  <2> QED
    BY <1>1, <2>2, NoneAssumption, ZenonT(40)
       DEF WrittenAt, DurableAt, Committed, Reported
<1> QED
  BY <1>2, <1>3, <1>4, Zenon DEF ExitInv

\* The invariant holds in every state.
LEMMA ExitInvariance == Spec => []ExitInv
<1>1. ASSUME TypeInv, OrderInv, ExitInv, [Next]_vars PROVE ExitInv'
  <2>1. CASE UNCHANGED vars
    <3>1. UNCHANGED <<pc, exit, files, maybe, whole, undo, kept>>
      BY <2>1, Zenon DEF vars, disk
    <3>2. DiskTypes' /\ TargetInv'
      BY <1>1, <3>1, Zenon DEF ExitInv, DiskTypes, TargetInv
    <3>3. ASSUME NEW c \in Commands PROVE HeldAt(c)'
      BY <1>1, <3>1, ZenonT(60) DEF ExitInv, HeldAt, Within, Listed
    <3>4. ASSUME NEW c \in Commands PROVE WrittenAt(c)' /\ DurableAt(c)'
      BY <1>1, <3>1, Zenon DEF ExitInv, WrittenAt, DurableAt, Published
    <3> QED
      BY <3>2, <3>3, <3>4, Zenon DEF ExitInv
  <2>2. ASSUME NEW c \in Commands, Keeps(c) PROVE ExitInv'
    <3>1. TargetInv'
      BY <1>1, <2>2, TargetKeep, Zenon DEF Keeps
    <3>2. ASSUME NEW d \in Commands
          PROVE  HeldAt(d)' /\ WrittenAt(d)' /\ DurableAt(d)'
      <4>1. CASE d = c
        BY <2>2, <4>1, Zenon DEF Keeps
      <4>2. CASE d # c
        BY <1>1, <2>2, <4>2, OthersKeep, Zenon DEF Keeps
      <4> QED
        BY <4>1, <4>2, Zenon
    <3> QED
      BY <2>2, <3>1, <3>2, Zenon DEF Keeps, ExitInv
  <2> QED
    BY <1>1, <2>1, <2>2, StepKeeps, KillKeeps, OccupyKeeps, Zenon
       DEF Next, Finished
<1> QED
  BY <1>1, ExitInit, TypeInvariance, OrderInvariance, PTL DEF Spec

\* A command that reports success has both files at their targets, durably,
\* and no temporary file left; no power failure leaves a target with a file
\* that was not completely written; and a command that failed before it
\* published left none of its files behind, unless a removal failed
\* (publish_pair and its callers).
THEOREM ExitsTellPublication == Spec => []ExitTellsPublication
<1>1. ASSUME ExitInv PROVE ExitTellsPublication
  <2>1. ASSUME NEW c \in Commands, exit[c] \in Reported, NEW k \in Kinds
        PROVE  /\ maybe[TargetOf(c, k)] = {File(c, k)}
               /\ files[Temporary(c, k)] = None
    <3>1. DurableAt(c)
      BY <1>1, Zenon DEF ExitInv
    <3>2. CASE k = "receipt"
      BY <2>1, <3>1, <3>2, OwnNames, ZenonT(40) DEF DurableAt
    <3>3. CASE k = "draft"
      BY <2>1, <3>1, <3>3, OwnNames, Zenon DEF DurableAt
    <3> QED
      BY <3>2, <3>3, Zenon DEF Kinds
  <2>2. \A p \in Targets : maybe[p] \subseteq whole \union {None, Foreign}
    BY <1>1, Zenon DEF ExitInv, TargetInv
  <2>3. ASSUME NEW c \in Commands \ kept, Unpublished(exit[c])
        PROVE  \A p \in Paths, k \in Kinds : files[p] # File(c, k)
    BY <1>1, <2>3, ZenonT(60) DEF ExitInv, HeldAt, Within
  <2> QED
    BY <2>1, <2>2, <2>3, ZenonT(40) DEF ExitTellsPublication, Unpublished
<1> QED
  BY <1>1, ExitInvariance, PTL
=============================================================================
