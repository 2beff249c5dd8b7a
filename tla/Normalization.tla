--------------------------- MODULE Normalization ---------------------------
(***************************************************************************)
(* sort_and_deduplicate_paths (core/src/normalize.rs): the entries of an   *)
(* authority plan are deduplicated in place with two cursors and then      *)
(* sorted in place by insertion.  sort_and_deduplicate_environment is the  *)
(* same code over names, which are here entries of one access and role.    *)
(*                                                                         *)
(* A path stands for its place in the byte order of AuthorityText; access  *)
(* and role are their ranks.  Cursors count from zero, as in the code, and *)
(* items[c + 1] is the item at cursor c.                                   *)
(***************************************************************************)
EXTENDS Integers, Sequences

CONSTANT Plans    \* the lists of entries a plan may declare

VARIABLES
    declared,     \* the entries of the plan
    items,        \* the vector that is normalized in place
    phase,        \* "deduplicate", "sort" or "done"
    write, read,  \* cursors of deduplicate_paths
    index, cursor \* cursors of the insertion sort

vars == <<declared, items, phase, write, read, index, cursor>>

FileAccessRank == 0..2
PathRoleRank == 0..4
PathAuthority == [path : Int, access : FileAccessRank, role : PathRoleRank]

SameValue(a, b) ==
    a.path = b.path /\ a.access = b.access /\ a.role = b.role

ComesBefore(a, b) ==
    IF a.path # b.path THEN a.path < b.path
    ELSE IF a.access # b.access THEN a.access < b.access
    ELSE a.role < b.role

PathPrefixContains(end, candidate) ==
    \E i \in 1..end : SameValue(items[i], items[candidate])

Swap(s, i, j) == [s EXCEPT ![i] = s[j], ![j] = s[i]]

Init ==
    /\ declared \in Plans /\ items = declared
    /\ phase = "deduplicate" /\ write = 0 /\ read = 0
    /\ index = 1 /\ cursor = 1

\* The entry at `read` is new: it moves to the end of the prefix.
Keep ==
    /\ phase = "deduplicate" /\ read < Len(items)
    /\ ~PathPrefixContains(write, read + 1)
    /\ items' = Swap(items, write + 1, read + 1)
    /\ write' = write + 1 /\ read' = read + 1
    /\ UNCHANGED <<declared, phase, index, cursor>>

Skip ==
    /\ phase = "deduplicate" /\ read < Len(items)
    /\ PathPrefixContains(write, read + 1)
    /\ read' = read + 1
    /\ UNCHANGED <<declared, items, phase, write, index, cursor>>

Truncate ==
    /\ phase = "deduplicate" /\ read = Len(items)
    /\ items' = SubSeq(items, 1, write) /\ phase' = "sort"
    /\ UNCHANGED <<declared, write, read, index, cursor>>

OutOfOrder ==
    cursor > 0 /\ ComesBefore(items[cursor + 1], items[cursor])

\* Mutant: the item moves without the cursor.
SinkOnce ==
    /\ phase = "sort" /\ index < Len(items) /\ OutOfOrder
    /\ items' = Swap(items, cursor + 1, cursor)
    /\ index' = index + 1 /\ cursor' = index + 1
    /\ UNCHANGED <<declared, phase, write, read>>

\* The item at `cursor` moves one place down.
Sink ==
    /\ phase = "sort" /\ index < Len(items) /\ OutOfOrder
    /\ items' = Swap(items, cursor + 1, cursor)
    /\ cursor' = cursor - 1
    /\ UNCHANGED <<declared, phase, write, read, index>>

NextIndex ==
    /\ phase = "sort" /\ index < Len(items) /\ ~OutOfOrder
    /\ index' = index + 1 /\ cursor' = index + 1
    /\ UNCHANGED <<declared, items, phase, write, read>>

Finish ==
    /\ phase = "sort" /\ index >= Len(items)
    /\ phase' = "done"
    /\ UNCHANGED <<declared, items, write, read, index, cursor>>

Next == Keep \/ Skip \/ Truncate \/ Sink \/ NextIndex \/ Finish

Spec == Init /\ [][Next]_vars

-----------------------------------------------------------------------------
(* Properties. *)

Entries(s) == {s[i] : i \in 1..Len(s)}

\* is_strictly_sorted, on neighbours.
IsStrictlySorted(s) ==
    \A i \in 1..(Len(s) - 1) : ComesBefore(s[i], s[i + 1])

\* Normalization neither adds nor loses authority: what it returns has the
\* entries of the plan, each once and in canonical order.
NormalizedExactly ==
    phase = "done" =>
        Entries(items) = Entries(declared) /\ IsStrictlySorted(items)
=============================================================================
