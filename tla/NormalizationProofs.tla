------------------------ MODULE NormalizationProofs ------------------------
(***************************************************************************)
(* Normalization is exact for plans of every length: an inductive          *)
(* invariant of the two in-place loops.                                    *)
(***************************************************************************)
EXTENDS Normalization, TLAPS

PlansAreEntries == Plans \subseteq Seq(PathAuthority)

TypeOK ==
    /\ declared \in Seq(PathAuthority) /\ items \in Seq(PathAuthority)
    /\ phase \in {"deduplicate", "sort", "done"}
    /\ write \in Nat /\ read \in Nat /\ index \in Nat /\ cursor \in Nat

Distinct(s, n) == \A i, j \in 1..n : i # j => s[i] # s[j]

\* deduplicate_paths: the prefix up to `write` has the entries seen so far,
\* each once, and what `read` has not reached is untouched.
Deduplicating ==
    /\ write <= read /\ read <= Len(items) /\ Len(items) = Len(declared)
    /\ \A i \in read + 1 .. Len(items) : items[i] = declared[i]
    /\ Distinct(items, write)
    /\ {items[i] : i \in 1..write} = {declared[i] : i \in 1..read}

\* The insertion sort: no two of the first index + 1 items are out of order,
\* except that the sinking item may be before those below it.
InOrder(n, but) ==
    \A i, j \in 1..n : i < j /\ j # but => ComesBefore(items[i], items[j])
Sorting ==
    /\ index \in Nat \ {0} /\ cursor <= index
    /\ index < Len(items) => InOrder(index + 1, cursor + 1)
    /\ index >= Len(items) => InOrder(Len(items), 0)

IInv ==
    /\ TypeOK
    /\ phase = "deduplicate" => Deduplicating /\ index = 1 /\ cursor = 1
    /\ phase # "deduplicate" =>
         Distinct(items, Len(items)) /\ Entries(items) = Entries(declared)
    /\ phase = "sort" => Sorting
    /\ phase = "done" => InOrder(Len(items), 0)

-----------------------------------------------------------------------------
(* The order of PathAuthority::comes_before is strict and total. *)

LEMMA Order ==
    ASSUME NEW a \in PathAuthority, NEW b \in PathAuthority,
           NEW c \in PathAuthority
    PROVE  /\ SameValue(a, b) <=> a = b
           /\ a # b => ComesBefore(a, b) \/ ComesBefore(b, a)
           /\ ComesBefore(a, b) => ~ComesBefore(b, a)
           /\ ComesBefore(a, b) /\ ComesBefore(b, c) => ComesBefore(a, c)
<1>1. /\ a.path \in Int /\ a.access \in Int /\ a.role \in Int
      /\ b.path \in Int /\ b.access \in Int /\ b.role \in Int
      /\ c.path \in Int /\ c.access \in Int /\ c.role \in Int
  BY DEF PathAuthority, FileAccessRank, PathRoleRank
<1>2. SameValue(a, b) <=> a = b
  BY DEF PathAuthority, SameValue
<1>3. ComesBefore(a, b) => ~ComesBefore(b, a)
  BY <1>1 DEF ComesBefore
<1>4. ~SameValue(a, b) => ComesBefore(a, b) \/ ComesBefore(b, a)
  BY <1>1 DEF ComesBefore, SameValue
<1>5. ComesBefore(a, b) /\ ComesBefore(b, c) => ComesBefore(a, c)
  BY <1>1 DEF ComesBefore
<1> QED
  BY <1>2, <1>3, <1>4, <1>5

LEMMA SwapProperties ==
    ASSUME NEW s \in Seq(PathAuthority),
           NEW i \in 1..Len(s), NEW j \in 1..Len(s)
    PROVE  /\ Swap(s, i, j) \in Seq(PathAuthority)
           /\ Len(Swap(s, i, j)) = Len(s)
           /\ \A k \in 1..Len(s) :
                Swap(s, i, j)[k] = IF k = i THEN s[j]
                                   ELSE IF k = j THEN s[i] ELSE s[k]
<1>1. CASE i = j
  BY <1>1 DEF Swap
<1>2. CASE i # j
  BY <1>2 DEF Swap
<1> QED
  BY <1>1, <1>2

-----------------------------------------------------------------------------
(* The invariant holds at the start and at every step. *)

LEMMA InitIInv ==
    ASSUME PlansAreEntries, Init
    PROVE  IInv
<1>1. TypeOK
  BY DEF TypeOK, Init, PlansAreEntries
<1>2. Deduplicating
  BY <1>1 DEF Init, Deduplicating, Distinct, TypeOK
<1> QED
  BY <1>1, <1>2 DEF IInv, Init

LEMMA KeepIInv ==
    ASSUME IInv, Keep
    PROVE  IInv'
<1> DEFINE w == write + 1
           r == read + 1
<1>0. TypeOK /\ Deduplicating
  BY DEF IInv, Keep
<1>1. /\ w \in 1..Len(items) /\ r \in 1..Len(items) /\ w <= r
      /\ TypeOK /\ Deduplicating
  <2>1. write <= read /\ read < Len(items) /\ Len(items) \in Nat
    BY <1>0 DEF Keep, TypeOK, Deduplicating
  <2> QED
    BY <1>0, <2>1 DEF TypeOK
<1>2. /\ items' \in Seq(PathAuthority) /\ Len(items') = Len(items)
      /\ \A k \in 1..Len(items) :
           items'[k] = IF k = w THEN items[r]
                       ELSE IF k = r THEN items[w] ELSE items[k]
  <2>1. items' = Swap(items, w, r) /\ items \in Seq(PathAuthority)
    BY <1>1 DEF Keep, TypeOK
  <2>2. w \in 1..Len(items) /\ r \in 1..Len(items)
    BY <1>1
  <2> HIDE DEF w, r
  <2> QED
    BY <2>1, <2>2, SwapProperties
<1>3. TypeOK'
  BY <1>1, <1>2 DEF TypeOK, Keep
<1>4. /\ write' = w /\ read' = r /\ declared' = declared
  BY DEF Keep
<1>5. \A k \in 1..write : items'[k] = items[k]
  BY <1>1, <1>2 DEF TypeOK
<1>6. items'[w] = items[r] /\ items[r] = declared[r]
  BY <1>1, <1>2 DEF Deduplicating, TypeOK
<1>7. \A k \in 1..write : items[k] # items[r]
  <2> SUFFICES ASSUME NEW k \in 1..write PROVE items[k] # items[r]
    OBVIOUS
  <2>1. items[k] \in PathAuthority /\ items[r] \in PathAuthority
    BY <1>1 DEF TypeOK
  <2>2. ~SameValue(items[k], items[r])
    BY DEF Keep, PathPrefixContains
  <2> QED
    BY <2>1, <2>2, Order
<1>8. Distinct(items', w)
  BY <1>1, <1>5, <1>6, <1>7 DEF Distinct, Deduplicating, TypeOK
<1>9. {items'[k] : k \in 1..w} = {declared[k] : k \in 1..r}
  <2>1. 1..w = (1..write) \union {w} /\ 1..r = (1..read) \union {r}
    BY <1>1 DEF TypeOK
  <2>2. {items'[k] : k \in 1..w} = {items[k] : k \in 1..write} \union {items[r]}
    BY <1>5, <1>6, <2>1
  <2>3. {declared[k] : k \in 1..r}
          = {declared[k] : k \in 1..read} \union {declared[r]}
    BY <2>1
  <2> QED
    BY <1>1, <1>6, <2>2, <2>3, Zenon DEF Deduplicating
<1>10. \A k \in r + 1 .. Len(items) : items'[k] = declared[k]
  BY <1>1, <1>2 DEF Deduplicating, TypeOK
<1>11. Deduplicating'
  <2>1. write' <= read' /\ read' <= Len(items') /\ Len(items') = Len(declared')
    BY <1>1, <1>2, <1>4 DEF Deduplicating, TypeOK
  <2>2. \A k \in read' + 1 .. Len(items') : items'[k] = declared'[k]
    BY <1>2, <1>4, <1>10
  <2>3. Distinct(items', write')
    BY <1>4, <1>8
  <2>4. {items'[k] : k \in 1..write'} = {declared'[k] : k \in 1..read'}
    BY <1>4, <1>9
  <2> QED
    BY <2>1, <2>2, <2>3, <2>4, Zenon DEF Deduplicating, Distinct
<1> QED
  BY <1>3, <1>11 DEF IInv, Keep

LEMMA SkipIInv ==
    ASSUME IInv, Skip
    PROVE  IInv'
<1>0. TypeOK /\ Deduplicating
  BY DEF IInv, Skip
<1>1. TypeOK /\ Deduplicating /\ read + 1 \in 1..Len(items)
  <2>1. read < Len(items) /\ Len(items) \in Nat
    BY <1>0 DEF Skip, TypeOK
  <2> QED
    BY <1>0, <2>1 DEF TypeOK
<1>2. TypeOK'
  BY <1>1 DEF TypeOK, Skip
<1>3. PICK k \in 1..write : SameValue(items[k], items[read + 1])
  BY DEF Skip, PathPrefixContains
<1>4. items[k] = items[read + 1] /\ items[read + 1] = declared[read + 1]
  BY <1>1, <1>3, Order DEF Deduplicating, TypeOK
<1>5. {items[i] : i \in 1..write} = {declared[i] : i \in 1..(read + 1)}
  <2>1. 1..(read + 1) = (1..read) \union {read + 1}
    BY <1>1 DEF TypeOK
  <2>2. {declared[i] : i \in 1..(read + 1)}
          = {declared[i] : i \in 1..read} \union {declared[read + 1]}
    BY <2>1
  <2> QED
    BY <1>1, <1>4, <2>2, Zenon DEF Deduplicating
<1>6. Deduplicating'
  <2>1. write <= read + 1 /\ \A i \in read + 2 .. Len(items) : items[i] = declared[i]
    BY <1>1 DEF Deduplicating, TypeOK
  <2>2. /\ write' = write /\ read' = read + 1 /\ items' = items
        /\ declared' = declared /\ read + 1 + 1 = read + 2
    BY <1>1 DEF Skip, TypeOK
  <2> QED
    <3>1. /\ write' <= read' /\ read' <= Len(items')
          /\ Len(items') = Len(declared')
      BY <1>1, <2>1, <2>2 DEF Deduplicating
    <3>2. \A i \in read' + 1 .. Len(items') : items'[i] = declared'[i]
      BY <2>1, <2>2
    <3>3. Distinct(items', write')
      BY <1>1, <2>2 DEF Deduplicating
    <3>4. {items'[i] : i \in 1..write'} = {declared'[i] : i \in 1..read'}
      BY <1>5, <2>2
    <3> QED
      BY <3>1, <3>2, <3>3, <3>4 DEF Deduplicating, Distinct
<1> QED
  BY <1>2, <1>6 DEF IInv, Skip

LEMMA TruncateIInv ==
    ASSUME IInv, Truncate
    PROVE  IInv'
<1>1. TypeOK /\ Deduplicating /\ read = Len(items) /\ index = 1 /\ cursor = 1
  BY DEF IInv, Truncate
<1>2. /\ items' \in Seq(PathAuthority) /\ Len(items') = write
      /\ \A k \in 1..write : items'[k] = items[k]
  BY <1>1 DEF Truncate, Deduplicating, TypeOK
<1>3. TypeOK'
  BY <1>1, <1>2 DEF TypeOK, Truncate
<1>4. Distinct(items', Len(items'))
  BY <1>1, <1>2 DEF Distinct, Deduplicating
<1>5. Entries(items') = Entries(declared)
  <2>1. Entries(items') = {items[k] : k \in 1..write}
    BY <1>2 DEF Entries
  <2>2. Entries(declared) = {declared[k] : k \in 1..read}
    BY <1>1 DEF Entries, Deduplicating
  <2> QED
    BY <1>1, <2>1, <2>2 DEF Deduplicating
<1>6. Sorting'
  BY <1>1, <1>2, <1>3 DEF Sorting, InOrder, Truncate, TypeOK
<1> QED
  BY <1>3, <1>4, <1>5, <1>6, Zenon DEF IInv, Truncate

LEMMA SinkIInv ==
    ASSUME IInv, Sink
    PROVE  IInv'
<1> DEFINE c == cursor
           n == index + 1
<1>0. /\ TypeOK /\ Sorting /\ Distinct(items, Len(items))
      /\ Entries(items) = Entries(declared)
  BY DEF IInv, Sink
<1>1. /\ c \in 1..Len(items) /\ c + 1 \in 1..Len(items) /\ c < n
      /\ n <= Len(items) /\ n \in Nat /\ Len(items) \in Nat
  <2>1. cursor > 0 /\ index < Len(items) /\ Len(items) \in Nat
    BY <1>0 DEF Sink, OutOfOrder, TypeOK
  <2> QED
    BY <1>0, <2>1 DEF TypeOK, Sorting
<1>2. ComesBefore(items[c + 1], items[c])
  BY DEF Sink, OutOfOrder
<1>3. InOrder(n, c + 1)
  BY <1>0 DEF Sorting, Sink
<1>4. /\ items' \in Seq(PathAuthority) /\ Len(items') = Len(items)
      /\ \A k \in 1..Len(items) :
           items'[k] = IF k = c + 1 THEN items[c]
                       ELSE IF k = c THEN items[c + 1] ELSE items[k]
  <2>1. items' = Swap(items, c + 1, c) /\ items \in Seq(PathAuthority)
    BY <1>0 DEF Sink, TypeOK
  <2> DEFINE d == c + 1
  <2>2. d \in 1..Len(items) /\ c \in 1..Len(items)
    BY <1>1
  <2> HIDE DEF c, d
  <2>3. /\ Swap(items, d, c) \in Seq(PathAuthority)
        /\ Len(Swap(items, d, c)) = Len(items)
        /\ \A k \in 1..Len(items) :
             Swap(items, d, c)[k] = IF k = d THEN items[c]
                                    ELSE IF k = c THEN items[d] ELSE items[k]
    <3>1. items \in Seq(PathAuthority)
      BY <2>1
    <3> QED
      BY <2>2, <3>1, SwapProperties
  <2> QED
    BY <2>1, <2>3 DEF d
<1>5. /\ cursor' = c - 1 /\ index' = index /\ declared' = declared
      /\ phase' = "sort"
  BY DEF Sink
<1>6. TypeOK'
  BY <1>0, <1>1, <1>4, <1>5 DEF TypeOK, Sink
<1>7. Distinct(items', Len(items'))
  BY <1>0, <1>1, <1>4 DEF Distinct
<1>8. Entries(items') = Entries(items)
  <2>1. ASSUME NEW k \in 1..Len(items)
        PROVE  \E m \in 1..Len(items) : items'[m] = items[k]
    <3>1. CASE k = c
      BY <1>1, <1>4, <3>1
    <3>2. CASE k = c + 1
      BY <1>1, <1>4, <3>2
    <3>3. CASE k # c /\ k # c + 1
      BY <1>4, <3>3
    <3> QED
      BY <3>1, <3>2, <3>3
  <2>2. ASSUME NEW k \in 1..Len(items)
        PROVE  \E m \in 1..Len(items) : items'[k] = items[m]
    BY <1>1, <1>4
  <2>3. Entries(items) \subseteq Entries(items')
    <3> SUFFICES ASSUME NEW e \in Entries(items) PROVE e \in Entries(items')
      OBVIOUS
    <3>1. PICK k \in 1..Len(items) : e = items[k]
      BY DEF Entries
    <3>2. PICK m \in 1..Len(items) : items'[m] = items[k]
      BY <2>1
    <3> QED
      BY <1>4, <3>1, <3>2 DEF Entries
  <2>4. Entries(items') \subseteq Entries(items)
    <3> SUFFICES ASSUME NEW e \in Entries(items') PROVE e \in Entries(items)
      OBVIOUS
    <3>1. PICK k \in 1..Len(items) : e = items'[k]
      BY <1>4 DEF Entries
    <3>2. PICK m \in 1..Len(items) : items'[k] = items[m]
      BY <2>2, Zenon
    <3> QED
      BY <3>1, <3>2 DEF Entries
  <2> QED
    BY <2>3, <2>4
<1>9. \A i, j \in 1..n : i < j /\ j # c => ComesBefore(items'[i], items'[j])
  <2> SUFFICES ASSUME NEW i \in 1..n, NEW j \in 1..n, i < j, j # c
               PROVE  ComesBefore(items'[i], items'[j])
    OBVIOUS
  <2>1. i \in 1..Len(items) /\ j \in 1..Len(items)
    BY <1>1
  <2>2. CASE j = c + 1
    <3>1. items'[j] = items[c]
      BY <1>1, <1>4, <2>2
    <3>2. CASE i = c
      BY <1>1, <1>2, <1>4, <3>1, <3>2
    <3>3. CASE i # c
      <4>1. items'[i] = items[i] /\ i < c
        BY <1>1, <1>4, <2>1, <2>2, <3>3
      <4> QED
        BY <1>1, <1>3, <3>1, <4>1 DEF InOrder
    <3> QED
      BY <3>2, <3>3
  <2>3. CASE j # c + 1
    <3>1. items'[j] = items[j]
      BY <1>4, <2>1, <2>3
    <3>2. CASE i = c
      BY <1>1, <1>3, <1>4, <2>3, <3>1, <3>2 DEF InOrder
    <3>3. CASE i = c + 1
      BY <1>1, <1>3, <1>4, <2>3, <3>1, <3>3 DEF InOrder
    <3>4. CASE i # c /\ i # c + 1
      BY <1>3, <1>4, <2>1, <2>3, <3>1, <3>4 DEF InOrder
    <3> QED
      BY <3>2, <3>3, <3>4
  <2> QED
    BY <2>2, <2>3
<1>10. Sorting'
  <2>1. c - 1 + 1 = c /\ index < Len(items)
    BY <1>1 DEF Sink
  <2> QED
    BY <1>0, <1>1, <1>4, <1>5, <1>6, <1>9, <2>1 DEF Sorting, InOrder, TypeOK
<1> QED
  BY <1>0, <1>5, <1>6, <1>7, <1>8, <1>10 DEF IInv

LEMMA NextIndexIInv ==
    ASSUME IInv, NextIndex
    PROVE  IInv'
<1> DEFINE c == cursor
           n == index + 1
<1>0. /\ TypeOK /\ Sorting /\ Distinct(items, Len(items))
      /\ Entries(items) = Entries(declared)
  BY DEF IInv, NextIndex
<1>1. /\ c \in Nat /\ c < n /\ n <= Len(items) /\ n \in Nat
      /\ Len(items) \in Nat
  BY <1>0 DEF TypeOK, Sorting, NextIndex
<1>2. InOrder(n, c + 1)
  BY <1>0 DEF Sorting, NextIndex
<1>3. \A i, j \in 1..n : i < j => ComesBefore(items[i], items[j])
  <2> SUFFICES ASSUME NEW i \in 1..n, NEW j \in 1..n, i < j
               PROVE  ComesBefore(items[i], items[j])
    OBVIOUS
  <2>1. CASE j # c + 1
    BY <1>2, <2>1 DEF InOrder
  <2>2. CASE j = c + 1
    <3>1. c \in 1..n /\ c \in 1..Len(items) /\ c + 1 \in 1..Len(items)
          /\ i \in 1..Len(items)
      BY <1>1, <2>2
    <3>2. /\ items[c] \in PathAuthority /\ items[c + 1] \in PathAuthority
          /\ items[i] \in PathAuthority /\ items[c] # items[c + 1]
      BY <1>0, <3>1 DEF TypeOK, Distinct
    <3>3. ~ComesBefore(items[c + 1], items[c])
      BY <3>1 DEF NextIndex, OutOfOrder
    <3>4. ComesBefore(items[c], items[c + 1])
      BY <3>2, <3>3, Order
    <3>5. CASE i = c
      BY <2>2, <3>4, <3>5
    <3>6. CASE i # c
      <4>1. ComesBefore(items[i], items[c])
        BY <1>1, <1>2, <2>2, <3>1, <3>6 DEF InOrder
      <4> QED
        BY <2>2, <3>2, <3>4, <4>1, Order
    <3> QED
      BY <3>5, <3>6
  <2> QED
    BY <2>1, <2>2
<1>4. /\ index' = n /\ cursor' = n /\ items' = items /\ declared' = declared
      /\ phase' = "sort"
  BY DEF NextIndex
<1>5. TypeOK'
  BY <1>0, <1>1, <1>4 DEF TypeOK, NextIndex
<1>6. Sorting'
  <2>1. n < Len(items) =>
          \A i, j \in 1..(n + 1) :
             i < j /\ j # n + 1 => ComesBefore(items[i], items[j])
    <3> SUFFICES ASSUME NEW i \in 1..(n + 1), NEW j \in 1..(n + 1),
                        i < j, j # n + 1
                 PROVE  ComesBefore(items[i], items[j])
      OBVIOUS
    <3>1. i \in 1..n /\ j \in 1..n
      BY <1>1
    <3> QED
      BY <1>3, <3>1
  <2>2. n >= Len(items) =>
          \A i, j \in 1..Len(items) :
             i < j /\ j # 0 => ComesBefore(items[i], items[j])
    BY <1>1, <1>3
  <2>3. n \in Nat \ {0}
    BY <1>1
  <2> HIDE DEF n
  <2> QED
    BY <1>4, <2>1, <2>2, <2>3 DEF Sorting, InOrder
<1> QED
  BY <1>0, <1>4, <1>5, <1>6 DEF IInv, Distinct

LEMMA FinishIInv ==
    ASSUME IInv, Finish
    PROVE  IInv'
<1>1. /\ TypeOK /\ Sorting /\ Distinct(items, Len(items))
      /\ Entries(items) = Entries(declared)
  BY DEF IInv, Finish
<1>2. InOrder(Len(items), 0)
  BY <1>1 DEF Sorting, Finish
<1>3. TypeOK'
  BY <1>1 DEF TypeOK, Finish
<1> QED
  BY <1>1, <1>2, <1>3 DEF IInv, Finish, InOrder, Distinct

LEMMA InvariantImplies ==
    ASSUME IInv
    PROVE  NormalizedExactly
<1> SUFFICES ASSUME phase = "done"
             PROVE  Entries(items) = Entries(declared) /\ IsStrictlySorted(items)
  BY DEF NormalizedExactly
<1>1. InOrder(Len(items), 0) /\ Len(items) \in Nat
  BY DEF IInv, TypeOK
<1>2. Entries(items) = Entries(declared)
  BY DEF IInv
<1>3. IsStrictlySorted(items)
  BY <1>1 DEF IsStrictlySorted, InOrder
<1> QED
  BY <1>2, <1>3

\* For plans of every length, over every set of paths: normalize_authority
\* keeps exactly the declared authority, each entry once and in canonical
\* order.
THEOREM NormalizationIsExact ==
    ASSUME PlansAreEntries
    PROVE  Spec => []NormalizedExactly
<1>1. Init => IInv
  BY InitIInv
<1>2. IInv /\ [Next]_vars => IInv'
  <2> SUFFICES ASSUME IInv, [Next]_vars PROVE IInv'
    OBVIOUS
  <2>1. CASE UNCHANGED vars
    <3>1. /\ declared' = declared /\ items' = items /\ phase' = phase
          /\ write' = write /\ read' = read /\ index' = index
          /\ cursor' = cursor
      BY <2>1 DEF vars
    <3>2. TypeOK' = TypeOK
      BY <3>1 DEF TypeOK
    <3>3. Deduplicating' = Deduplicating
      BY <3>1 DEF Deduplicating
    <3>4. Sorting' = Sorting /\ InOrder(Len(items), 0)' = InOrder(Len(items), 0)
      BY <3>1 DEF Sorting, InOrder
    <3> QED
      BY <3>1, <3>2, <3>3, <3>4 DEF IInv
  <2> QED
    BY <2>1, KeepIInv, SkipIInv, TruncateIInv, SinkIInv, NextIndexIInv,
       FinishIInv DEF Next
<1>3. IInv => NormalizedExactly
  BY InvariantImplies
<1> QED
  BY <1>1, <1>2, <1>3, PTL DEF Spec
=============================================================================
