------------------------- MODULE PromptQueueProofs -------------------------
(***************************************************************************)
(* Theorems about PromptQueue, for every set of prompts and every bound.   *)
(*                                                                         *)
(* The inductive invariant joins the type invariant, the inertness of a    *)
(* closed session's queue and the dispatch behind every prompt being sent. *)
(* They need each other: a prompt is only ever sent from a record that is  *)
(* not terminal, and whether a settled answer may touch the active prompt  *)
(* depends on the record it finds.                                         *)
(*                                                                         *)
(* That no prompt is in two places and that none is lost rest on a second  *)
(* invariant, Whole, about ids alone: each id of the queue is at one place *)
(* and was given by enqueue, in the queue and in the snapshot a restart    *)
(* would read.                                                             *)
(*                                                                         *)
(* Layout: what each method of the queue makes of one record comes first   *)
(* (lemmas ...Record), then what the ways of committing a record do to the *)
(* state (lemmas ...Step), then one lemma per action; the same order again *)
(* for the ids.                                                            *)
(***************************************************************************)
EXTENDS PromptQueue, Integers, FiniteSetTheorems, SequenceTheorems, TLAPS

-----------------------------------------------------------------------------
(* What Select, LeastIn and Splice do, for sequences of any length.  The   *)
(* core is that ranks number the elements of a finite set of naturals      *)
(* without gaps, from the principle of the least number: induction over    *)
(* the length is not needed.                                               *)

\* A set of natural numbers that is not empty has a least element.
LEMMA LeastExists ==
  ASSUME NEW T \in SUBSET Nat, T # {}
  PROVE  \E i \in T : \A j \in T : i <= j
<1> DEFINE Less == {ss \in Nat \X Nat : ss[1] < ss[2]}
<1>1. IsWellFoundedOn(Less, Nat)
  BY NatLessThanWellFounded DEF OpToRel
<1>2. \A x, y \in Nat : <<y, x>> \in Less <=> y < x
  OBVIOUS
<1> HIDE DEF Less
<1>3. \E x \in T : \A y \in T : ~(<<y, x>> \in Less)
  BY <1>1, WFMin
<1>4. PICK x \in T : \A y \in T : ~(<<y, x>> \in Less)
  BY <1>3
<1>5. ASSUME NEW y \in T PROVE x <= y
  <2>1. x \in Nat /\ y \in Nat
    OBVIOUS
  <2>2. ~(y < x)
    BY <1>2, <1>4, <2>1
  <2>. QED
    BY <2>1, <2>2
<1>. QED
  BY <1>5

\* LeastIn returns that element.
LEMMA LeastInProperties ==
  ASSUME NEW T \in SUBSET Nat, T # {}
  PROVE  LeastIn(T) \in T /\ \A j \in T : LeastIn(T) <= j
BY LeastExists DEF LeastIn

\* Every part of 1..m is finite, and ranks count its elements upwards.
LEMMA RankStep ==
  ASSUME NEW m \in Nat, NEW K \in SUBSET (1..m)
  PROVE  /\ IsFiniteSet(K)
         /\ Cardinality(K) \in Nat
         /\ \A i \in 0..m : Rank(K, i) \in Nat
         /\ Rank(K, 0) = 0
         /\ Rank(K, m) = Cardinality(K)
         /\ \A i \in 1..m :
              Rank(K, i) = IF i \in K THEN Rank(K, i - 1) + 1
                                      ELSE Rank(K, i - 1)
<1>0. \A x \in K : x \in Int /\ 1 <= x /\ x <= m
  OBVIOUS
<1>1. IsFiniteSet(1..m)
  BY FS_Interval
<1>2. \A T \in SUBSET (1..m) : IsFiniteSet(T) /\ Cardinality(T) \in Nat
  BY <1>1, FS_Subset, FS_CardinalityType
<1>3. \A i \in 0..m : Rank(K, i) \in Nat
  BY <1>2 DEF Rank
<1>4. Rank(K, 0) = 0
  <2>1. \A j \in K : ~(j <= 0)
    BY <1>0
  <2>2. {j \in K : j <= 0} = {}
    BY <2>1, Zenon
  <2>. QED
    BY <2>2, FS_EmptySet DEF Rank
<1>5. Rank(K, m) = Cardinality(K)
  <2>1. {j \in K : j <= m} = K
    BY <1>0
  <2>. QED
    BY <2>1 DEF Rank
<1>6. ASSUME NEW i \in 1..m
      PROVE  Rank(K, i) = IF i \in K THEN Rank(K, i - 1) + 1
                                     ELSE Rank(K, i - 1)
  <2> DEFINE below == {j \in K : j <= i - 1}
  <2>1. IsFiniteSet(below)
    BY <1>2
  <2>2. CASE i \in K
    <3>0. i \notin below /\ \A j \in K : j <= i <=> j <= i - 1 \/ j = i
      BY <1>0, <2>2
    <3>1. {j \in K : j <= i} = below \cup {i} /\ i \notin below
      BY <2>2, <3>0, Zenon
    <3>2. Cardinality(below \cup {i}) = Cardinality(below) + 1
      BY <2>1, <3>1, FS_AddElement
    <3>. QED
      BY <2>2, <3>1, <3>2 DEF Rank
  <2>3. CASE i \notin K
    <3>0. \A j \in K : j <= i <=> j <= i - 1
      <4>. SUFFICES ASSUME NEW j \in K PROVE j <= i <=> j <= i - 1
        OBVIOUS
      <4>. QED
        BY <1>0, <2>3
    <3>1. {j \in K : j <= i} = below
      BY <3>0, Zenon
    <3>. QED
      BY <2>3, <3>1 DEF Rank
  <2>. QED
    BY <2>2, <2>3
<1>. QED
  BY <1>2, <1>3, <1>4, <1>5, <1>6

\* The ranks of the elements of K are the numbers from 1 to its size: each
\* number is a rank, and no two elements share one.
LEMMA RanksNumberElements ==
  ASSUME NEW m \in Nat, NEW K \in SUBSET (1..m)
  PROVE  /\ \A n \in 1..Cardinality(K) : \E i \in K : Rank(K, i) = n
         /\ \A i \in K : Rank(K, i) \in 1..Cardinality(K)
         /\ \A i, j \in K : i < j => Rank(K, i) < Rank(K, j)
<1>0. \A x \in K : x \in Int /\ 1 <= x /\ x <= m
  OBVIOUS
<1>rank. /\ IsFiniteSet(K)
         /\ Cardinality(K) \in Nat
         /\ \A i \in 0..m : Rank(K, i) \in Nat
         /\ Rank(K, 0) = 0
         /\ Rank(K, m) = Cardinality(K)
         /\ \A i \in 1..m :
              Rank(K, i) = IF i \in K THEN Rank(K, i - 1) + 1
                                      ELSE Rank(K, i - 1)
  BY RankStep
<1>1. ASSUME NEW n \in 1..Cardinality(K)
      PROVE  \E i \in K : Rank(K, i) = n
  <2> DEFINE T == {i \in 1..m : Rank(K, i) >= n}
  <2>1. m \in T
    BY <1>rank, m \in 1..m \/ m = 0
  <2>2. PICK i \in T : \A j \in T : i <= j
    BY <2>1, LeastExists, T \in SUBSET Nat
  <2>3. Rank(K, i - 1) < n
    <3>1. i \in 1..m /\ i - 1 \in 0..m
      OBVIOUS
    <3>2. Rank(K, i - 1) \in Nat
      BY <3>1, <1>rank
    <3>3. CASE i - 1 = 0
      BY <3>3, <1>rank
    <3>4. CASE i - 1 \in 1..m
      <4>1. i - 1 \notin T
        BY <2>2, <3>1
      <4>. QED
        BY <3>2, <3>4, <4>1
    <3>. QED
      BY <3>1, <3>3, <3>4
  <2>4. i \in K /\ Rank(K, i) = n
    <3>1. i \in 1..m /\ i - 1 \in 0..m /\ Rank(K, i) >= n
      BY <2>2
    <3>. QED
      BY <2>3, <3>1, <1>rank
  <2>. QED
    BY <2>4
<1>2. ASSUME NEW i \in K PROVE Rank(K, i) \in 1..Cardinality(K)
  <2>0. i \in 1..m /\ i - 1 \in 0..m
    BY <1>0
  <2>1. Rank(K, i) = Rank(K, i - 1) + 1 /\ Rank(K, i - 1) \in Nat
    BY <2>0, <1>rank
  <2>2. Rank(K, i) <= Cardinality(K)
    BY <1>rank, FS_Subset, {j \in K : j <= i} \in SUBSET K DEF Rank
  <2>. QED
    BY <2>1, <2>2, <1>rank
<1>3. ASSUME NEW i \in K, NEW j \in K, i < j
      PROVE  Rank(K, i) < Rank(K, j)
  <2>1. Rank(K, j) = Rank(K, j - 1) + 1
    <3>1. j \in 1..m
      BY <1>0
    <3>. QED
      BY <3>1, <1>rank
  <2>. i \in Int /\ j \in Int /\ i <= m /\ 1 <= j
    BY <1>0
  <2>0. \A k \in K : k <= i => k <= j - 1
    BY <1>0, <1>3
  <2>2. {k \in K : k <= i} \in SUBSET {k \in K : k <= j - 1}
    BY <2>0, Zenon
  <2>3. IsFiniteSet({k \in K : k <= j - 1})
    BY <1>rank, FS_Subset, {k \in K : k <= j - 1} \in SUBSET K
  <2>4. Rank(K, i) <= Rank(K, j - 1)
    BY <2>2, <2>3, FS_Subset DEF Rank
  <2>5. Rank(K, i) \in Nat /\ Rank(K, j - 1) \in Nat
    BY <1>0, <1>rank, i \in 0..m, j - 1 \in 0..m
  <2>. QED
    BY <2>1, <2>4, <2>5
<1>. QED
  BY <1>1, <1>2, <1>3

\* Select returns a sequence as long as K; its nth element is the element of s
\* whose index has rank n.
LEMMA SelectProperties ==
  ASSUME NEW S, NEW s \in Seq(S), NEW K \in SUBSET (DOMAIN s)
  PROVE  /\ Select(s, K) \in Seq(S)
         /\ Len(Select(s, K)) = Cardinality(K)
         /\ Cardinality(K) \in Nat
         /\ \A n \in 1..Cardinality(K) :
              \E i \in K : Rank(K, i) = n /\ Select(s, K)[n] = s[i]
<1>1. Len(s) \in Nat /\ DOMAIN s = 1..Len(s) /\ \A i \in DOMAIN s : s[i] \in S
  BY LenProperties, ElementOfSeq
<1>2. K \in SUBSET (1..Len(s))
  BY <1>1
<1>3. Cardinality(K) \in Nat
  BY <1>1, <1>2, RankStep
<1>4. ASSUME NEW n \in 1..Cardinality(K)
      PROVE  \E i \in K : /\ Rank(K, i) = n
                          /\ s[CHOOSE k \in K : Rank(K, k) = n] = s[i]
  BY <1>1, <1>2, RanksNumberElements
<1>5. \A n \in 1..Cardinality(K) : s[CHOOSE k \in K : Rank(K, k) = n] \in S
  BY <1>1, <1>2, <1>4
<1>6. Select(s, K) \in [1..Cardinality(K) -> S]
  BY <1>5 DEF Select
<1>7. /\ Select(s, K) \in Seq(S)
      /\ Len(Select(s, K)) = Cardinality(K)
  BY <1>3, <1>6
<1>. QED
  BY <1>3, <1>4, <1>7 DEF Select

\* Every element selected is an element of s at an index in K, each such element
\* is selected, and two places of the selection are two indices of s.
LEMMA SelectElements ==
  ASSUME NEW S, NEW s \in Seq(S), NEW K \in SUBSET (DOMAIN s)
  PROVE  /\ \A n \in DOMAIN Select(s, K) : \E i \in K : Select(s, K)[n] = s[i]
         /\ \A i \in K : \E n \in DOMAIN Select(s, K) : Select(s, K)[n] = s[i]
         /\ \A n1, n2 \in DOMAIN Select(s, K) : n1 # n2 =>
              \E i1, i2 \in K : /\ i1 # i2
                                /\ Select(s, K)[n1] = s[i1]
                                /\ Select(s, K)[n2] = s[i2]
<1>1. Len(s) \in Nat /\ DOMAIN s = 1..Len(s)
  BY LenProperties
<1>2. K \in SUBSET (1..Len(s))
  BY <1>1
<1>3. DOMAIN Select(s, K) = 1..Cardinality(K)
  BY DEF Select
<1>4. \A n \in 1..Cardinality(K) :
        \E i \in K : Rank(K, i) = n /\ Select(s, K)[n] = s[i]
  BY SelectProperties
<1>5. ASSUME NEW i \in K
      PROVE  \E n \in 1..Cardinality(K) : Select(s, K)[n] = s[i]
  <2>1. Rank(K, i) \in 1..Cardinality(K)
    BY <1>1, <1>2, RanksNumberElements
  <2>2. PICK k \in K : /\ Rank(K, k) = Rank(K, i)
                       /\ Select(s, K)[Rank(K, i)] = s[k]
    BY <1>4, <2>1
  <2>3. k \in Int /\ i \in Int /\ Rank(K, i) \in Int
    BY <1>2, <2>1
  <2>4. /\ k < i => Rank(K, k) < Rank(K, i)
        /\ i < k => Rank(K, i) < Rank(K, k)
    BY <1>1, <1>2, RanksNumberElements
  <2>5. k = i
    BY <2>2, <2>3, <2>4
  <2>. QED
    BY <2>1, <2>2, <2>5
<1>. QED
  BY <1>3, <1>4, <1>5

\* The first index that satisfies a condition is one of those that do.
LEMMA LeastInDomain ==
  ASSUME NEW S, NEW s \in Seq(S), NEW K \in SUBSET (DOMAIN s), K # {}
  PROVE  LeastIn(K) \in K /\ \A j \in K : LeastIn(K) <= j
<1>1. K \in SUBSET Nat
  BY LenProperties
<1>. QED
  BY <1>1, LeastInProperties

\* Splice keeps every element of s and adds the one inserted.
LEMMA SpliceProperties ==
  ASSUME NEW S, NEW s \in Seq(S), NEW i \in 0..Len(s), NEW item \in S
  PROVE  /\ Splice(s, i, item) \in Seq(S)
         /\ Len(Splice(s, i, item)) = Len(s) + 1
         /\ \A n \in 1..Len(s) + 1 :
              Splice(s, i, item)[n] = IF n <= i THEN s[n]
                                      ELSE IF n = i + 1 THEN item ELSE s[n - 1]
<1>1. Len(s) \in Nat /\ \A n \in 1..Len(s) : s[n] \in S
  BY LenProperties, ElementOfSeq
<1> DEFINE left == SubSeq(s, 1, i)
           right == SubSeq(s, i + 1, Len(s))
<1>2. /\ left \in Seq(S)
      /\ Len(left) = i
      /\ \A n \in 1..i : left[n] = s[n]
  BY <1>1, SubSeqProperties
<1>3. /\ right \in Seq(S)
      /\ Len(right) = Len(s) - i
      /\ \A n \in 1..Len(s) - i : right[n] = s[i + n]
  BY <1>1, SubSeqProperties
<1>4. <<item>> \in Seq(S) /\ Len(<<item>>) = 1 /\ <<item>>[1] = item
  OBVIOUS
<1> HIDE DEF left, right
<1>5. /\ left \o <<item>> \in Seq(S)
      /\ Len(left \o <<item>>) = i + 1
      /\ \A n \in 1..i + 1 : (left \o <<item>>)[n] =
                                IF n <= i THEN left[n] ELSE item
  BY <1>2, <1>4, ConcatProperties
<1> DEFINE front == left \o <<item>>
<1> HIDE DEF front
<1>6. /\ front \in Seq(S)
      /\ Len(front) = i + 1
      /\ \A n \in 1..i + 1 : front[n] = IF n <= i THEN s[n] ELSE item
  BY <1>2, <1>5 DEF front
<1>7. /\ front \o right \in Seq(S)
      /\ Len(front \o right) = (i + 1) + (Len(s) - i)
      /\ \A n \in 1..(i + 1) + (Len(s) - i) : (front \o right)[n] =
           IF n <= i + 1 THEN front[n] ELSE right[n - (i + 1)]
  <2>1. /\ front \o right \in Seq(S)
        /\ Len(front \o right) = Len(front) + Len(right)
        /\ \A n \in 1..Len(front) + Len(right) : (front \o right)[n] =
             IF n <= Len(front) THEN front[n] ELSE right[n - Len(front)]
    BY <1>3, <1>6, ConcatProperties
  <2>2. Len(front) = i + 1 /\ Len(right) = Len(s) - i
    BY <1>3, <1>6
  <2>. QED
    BY <2>1, <2>2, Zenon
<1>8. (i + 1) + (Len(s) - i) = Len(s) + 1
  BY <1>1
<1>9. ASSUME NEW n \in 1..Len(s) + 1
       PROVE  (front \o right)[n] =
                IF n <= i THEN s[n] ELSE IF n = i + 1 THEN item ELSE s[n - 1]
  <2>1. CASE n <= i + 1
    BY <1>1, <1>6, <1>7, <1>8, <2>1
  <2>2. CASE ~(n <= i + 1)
    <3>1. (front \o right)[n] = right[n - (i + 1)]
      BY <1>1, <1>7, <1>8, <2>2
    <3>2. n - (i + 1) \in 1..Len(s) - i /\ i + (n - (i + 1)) = n - 1
      BY <1>1, <2>2
    <3>. QED
      BY <1>1, <1>3, <2>2, <3>1, <3>2
  <2>. QED
    BY <2>1, <2>2
<1>10. /\ (left \o <<item>>) \o right \in Seq(S)
      /\ Len((left \o <<item>>) \o right) = Len(s) + 1
      /\ \A n \in 1..Len(s) + 1 :
           ((left \o <<item>>) \o right)[n] =
             IF n <= i THEN s[n] ELSE IF n = i + 1 THEN item ELSE s[n - 1]
  BY <1>7, <1>8, <1>9 DEF front
<1>. QED
  BY <1>10 DEF Splice, left, right

-----------------------------------------------------------------------------
(* Helpers on items and sequences of items. *)

\* Filtering by id, or down to the first of each id, keeps the type.
LEMMA FiltersType ==
  ASSUME NEW S, NEW s \in Seq(S)
  PROVE  /\ \A p : Without(s, p) \in Seq(S)
         /\ Deduplicated(s) \in Seq(S)
BY SelectProperties DEF Without, Deduplicated

\* and every element filtered is one of the elements there were.
LEMMA WithoutElements ==
  ASSUME NEW S, NEW s \in Seq(S), NEW p
  PROVE  \A n \in DOMAIN Without(s, p) :
           \E i \in DOMAIN s : s[i].id # p /\ Without(s, p)[n] = s[i]
<1> DEFINE others == {i \in DOMAIN s : s[i].id # p}
<1>1. others \in SUBSET (DOMAIN s)
  OBVIOUS
<1> HIDE DEF others
<1>2. \A n \in DOMAIN Select(s, others) :
        \E i \in others : Select(s, others)[n] = s[i]
  BY <1>1, SelectElements
<1>. QED
  BY <1>2 DEF Without, others

\* The item found under an id is an item of the sequence with that id.
LEMMA FoundItem ==
  ASSUME NEW S, NEW s \in Seq(S), NEW p, Holds(s, p)
  PROVE  /\ LeastIn(IndicesOf(s, p)) \in DOMAIN s
         /\ ItemAt(s, p) \in S
         /\ ItemAt(s, p).id = p
<1>1. /\ IndicesOf(s, p) \in SUBSET (DOMAIN s)
      /\ IndicesOf(s, p) # {}
  BY DEF IndicesOf, Holds
<1>2. LeastIn(IndicesOf(s, p)) \in IndicesOf(s, p)
  BY <1>1, LeastInDomain
<1>. QED
  BY <1>2, LenProperties, ElementOfSeq DEF IndicesOf, ItemAt

\* An item is put back inside the sequence, whatever the position remembered.
LEMMA InsertionPointInRange ==
  ASSUME NEW S, NEW s \in Seq(S), NEW pos \in Positions \cup {None}
  PROVE  InsertionPoint(s, pos) \in 0..Len(s)
<1>1. Len(s) \in Nat /\ DOMAIN s = 1..Len(s)
  BY LenProperties
<1>2. \A p : Holds(s, p) => LeastIn(IndicesOf(s, p)) \in 1..Len(s)
  BY <1>1, FoundItem
<1>3. CASE pos = None
  BY <1>1, <1>3 DEF InsertionPoint
<1>4. CASE pos # None
  <2>1. pos.index \in Nat
    BY <1>4 DEF Positions
  <2>. QED
    BY <1>1, <1>2, <1>4, <2>1 DEF InsertionPoint
<1>. QED
  BY <1>3, <1>4

LEMMA InsertAtPositionType ==
  ASSUME NEW S, NEW s \in Seq(S), NEW item \in S,
         NEW pos \in Positions \cup {None}
  PROVE  InsertAtPosition(s, item, pos) \in Seq(S)
<1>1. Without(s, item.id) \in Seq(S)
  BY FiltersType
<1>2. InsertionPoint(Without(s, item.id), pos) \in 0..Len(Without(s, item.id))
  BY <1>1, InsertionPointInRange
<1>. QED
  BY <1>1, <1>2, SpliceProperties DEF InsertAtPosition

-----------------------------------------------------------------------------
(* What the methods make of one record. *)

\* Every item of a closed session's queue was failed by the closing.
Closed(q) == \A i \in DOMAIN q.items : q.items[i].closed

\* The part of the invariant that speaks of the record alone.
Sound(q) == q \in Records /\ (q.terminal => Inert(q) /\ Closed(q))

\* A prompt shown as being sent has a dispatch in f.
HasDispatch(q, f) ==
    q.active # None /\ q.active.st = "sending" => f[q.active.id] > 0

LEMMA ItemTypes ==
  /\ ActiveItems \subseteq Items
  /\ EditingItems \subseteq Items
  /\ WaitingItems \subseteq Items
  /\ \A item \in Items :
       /\ Requeued(item) \in WaitingItems
       /\ ClosedItem(item) \in WaitingItems
       /\ ClosedItem(item).st = "failed" /\ ClosedItem(item).closed
       /\ Failed(item) \in WaitingItems
       /\ Requeued(item).id = item.id
       /\ ClosedItem(item).id = item.id
       /\ Failed(item).id = item.id
  /\ \A p \in Prompts : New(p) \in WaitingItems /\ New(p).id = p
BY DEF ActiveItems, EditingItems, WaitingItems, Items, Statuses, Requeued,
       ClosedItem, Failed, New

LEMMA RecordRecord ==
  ASSUME NEW known \in BOOLEAN, NEW terminal \in BOOLEAN
  PROVE  /\ Sound(Record(known, terminal))
         /\ Record(known, terminal).active = None
BY DEF Sound, Record, Records, Inert, Closed

LEMMA OpenedRecord ==
  ASSUME NEW q, Sound(q), NEW l
  PROVE  /\ Sound(Opened(q, l))
         /\ Opened(q, l) = q \/ Opened(q, l).active = None
BY RecordRecord DEF Opened

\* Binding the window that asks.
LEMMA OwnedRecord ==
  ASSUME NEW q, Sound(q)
  PROVE  /\ Sound([q EXCEPT !.owned = TRUE])
         /\ [q EXCEPT !.owned = TRUE].active = q.active
BY DEF Sound, Records, Inert, Closed

LEMMA AllItemsType ==
  ASSUME NEW q \in Records
  PROVE  AllItems(q) \in Seq(Items)
<1>1. /\ OptSeq(q.active) \in Seq(Items)
      /\ OptSeq(q.editing) \in Seq(Items)
      /\ q.items \in Seq(Items)
  BY ItemTypes, SeqMonotonic DEF OptSeq, Records
<1>. QED
  BY <1>1, ConcatProperties DEF AllItems

LEMMA TerminalizedRecord ==
  ASSUME NEW q, Sound(q)
  PROVE  /\ Sound(Terminalized(q))
         /\ Terminalized(q).terminal
         /\ Terminalized(q).active = None
<1> DEFINE all == AllItems(q)
           closed == [i \in DOMAIN all |-> ClosedItem(all[i])]
           kept == Deduplicated(closed)
           Inerts == {item \in WaitingItems : item.st = "failed" /\ item.closed}
<1>1. all \in Seq(Items)
  BY AllItemsType DEF Sound
<1>2. closed \in Seq(Inerts)
  <2>1. Len(all) \in Nat /\ DOMAIN all = 1..Len(all)
    BY <1>1, LenProperties
  <2>2. \A i \in DOMAIN all : ClosedItem(all[i]) \in Inerts
    BY <1>1, ItemTypes, ElementOfSeq, <2>1
  <2>. QED
    BY <2>1, <2>2
<1> HIDE DEF closed
<1>3. kept \in Seq(Inerts)
  BY <1>2, FiltersType
<1> HIDE DEF kept
<1>4. /\ kept \in Seq(WaitingItems)
      /\ \A i \in DOMAIN kept : kept[i].st = "failed" /\ kept[i].closed
  <2>1. Inerts \subseteq WaitingItems
    OBVIOUS
  <2>. QED
    BY <1>3, <2>1, SeqMonotonic, LenProperties, ElementOfSeq
<1>5. CASE q.terminal /\ Inert(q)
  BY <1>5 DEF Terminalized, Sound, Inert
<1>6. CASE ~(q.terminal /\ Inert(q))
  <2>1. Terminalized(q) =
          [q EXCEPT !.active = None, !.editing = None, !.pos = None,
                    !.items = kept, !.paused = TRUE, !.resume = FALSE,
                    !.terminal = TRUE]
    BY <1>6 DEF Terminalized, kept, closed
  <2>2. q \in Records
    BY DEF Sound
  <2>3. /\ Terminalized(q) \in Records
        /\ Terminalized(q).items = kept
        /\ Terminalized(q).active = None
        /\ Terminalized(q).editing = None
        /\ Terminalized(q).terminal
    BY <2>1, <2>2, <1>4 DEF Records
  <2>. QED
    BY <2>3, <1>4 DEF Sound, Inert, Closed
<1>. QED
  BY <1>5, <1>6

LEMMA CheckedRecord ==
  ASSUME NEW q, Sound(q), NEW l
  PROVE  /\ Sound(Checked(q, l))
         /\ Checked(q, l) = q \/ Checked(q, l).active = None
BY TerminalizedRecord DEF Checked

\* The record a user operation starts from.
LEMMA AskedRecord ==
  ASSUME Sound(queue), NEW l
  PROVE  /\ Sound(Bound(l)) /\ Sound(Checked(Bound(l), l))
         /\ Bound(l).active \in {queue.active, None}
         /\ Checked(Bound(l), l).active \in {queue.active, None}
<1>1. Sound(Opened(queue, l)) /\ Opened(queue, l).active \in {queue.active, None}
  BY OpenedRecord
<1>2. Sound(Bound(l)) /\ Bound(l).active = Opened(queue, l).active
  BY <1>1, OwnedRecord DEF Bound
<1>. QED
  BY <1>1, <1>2, CheckedRecord

\* The prompt that is sent next comes from the items.
LEMMA SentItemType ==
  ASSUME NEW q \in Records, Waiting(q) # {}
  PROVE  /\ LeastIn(Waiting(q)) \in Waiting(q)
         /\ SentItem(q) \in ActiveItems
<1>1. Waiting(q) \in SUBSET (DOMAIN q.items) /\ q.items \in Seq(WaitingItems)
  BY DEF Waiting, Records
<1>2. LeastIn(Waiting(q)) \in Waiting(q)
  BY <1>1, LeastInDomain
<1>3. q.items[LeastIn(Waiting(q))] \in Items
  BY <1>1, <1>2, LenProperties, ElementOfSeq, ItemTypes
<1>. QED
  BY <1>2, <1>3 DEF SentItem, ActiveItems, Items, Statuses

LEMMA DrainedRecord ==
  ASSUME NEW q, Sound(q), NEW l
  PROVE  /\ Sound(Drained(q, l))
         /\ CanDrain(q, l) => /\ Drained(q, l).active \in ActiveItems
                              /\ Drained(q, l).active.id \in Prompts
         /\ ~CanDrain(q, l) => Drained(q, l).active \in {q.active, None}
<1>1. CASE CanDrain(q, l)
  <2>1. q \in Records /\ ~q.terminal /\ Waiting(q) # {}
    BY <1>1 DEF Sound, CanDrain
  <2>2. SentItem(q) \in ActiveItems /\ SentItem(q).id \in Prompts
    BY <2>1, SentItemType DEF ActiveItems, Items
  <2>3. Without(q.items, SentItem(q).id) \in Seq(WaitingItems)
    BY <2>1, FiltersType DEF Records
  <2>4. Drained(q, l) = [q EXCEPT !.items  = Without(@, SentItem(q).id),
                                  !.active = SentItem(q)]
    BY <1>1 DEF Drained
  <2>. QED
    BY <1>1, <2>1, <2>2, <2>3, <2>4 DEF Sound, Records
<1>2. CASE ~CanDrain(q, l)
  BY <1>2, CheckedRecord DEF Drained
<1>. QED
  BY <1>1, <1>2

\* The operations' own changes.  A queue of items with one of them put in front
\* or behind.
LEMMA ItemsOps ==
  ASSUME NEW s \in Seq(WaitingItems), NEW item \in WaitingItems
  PROVE  /\ <<item>> \o s \in Seq(WaitingItems)
         /\ Append(s, item) \in Seq(WaitingItems)
         /\ DOMAIN Append(s, item) = 1..Len(s) + 1
         /\ Len(s) \in Nat /\ DOMAIN s = 1..Len(s)
         /\ \A i \in 1..Len(s) + 1 :
              Append(s, item)[i] = IF i <= Len(s) THEN s[i] ELSE item
<1>1. <<item>> \in Seq(WaitingItems)
  OBVIOUS
<1>2. <<item>> \o s \in Seq(WaitingItems)
  BY <1>1, ConcatProperties
<1>. QED
  BY <1>2, AppendProperties, LenProperties

LEMMA EditRestoredType ==
  ASSUME NEW q \in Records
  PROVE  EditRestored(q) \in Seq(WaitingItems)
<1>1. q.items \in Seq(WaitingItems) /\ q.pos \in Positions \cup {None}
  BY DEF Records
<1>2. CASE q.editing = None
  BY <1>1, <1>2 DEF EditRestored
<1>3. CASE q.editing # None
  <2>1. Requeued(q.editing) \in WaitingItems
    BY <1>3, ItemTypes DEF Records
  <2>. QED
    BY <1>1, <1>3, <2>1, InsertAtPositionType DEF EditRestored
<1>. QED
  BY <1>2, <1>3

LEMMA PositionOfType ==
  ASSUME NEW s \in Seq(WaitingItems), NEW i \in DOMAIN s
  PROVE  PositionOf(s, i) \in Positions
<1>1. Len(s) \in Nat /\ DOMAIN s = 1..Len(s)
  BY LenProperties
<1>2. \A k : IdAt(s, k) \in Prompts \cup {None}
  <2>. SUFFICES ASSUME NEW k \in DOMAIN s PROVE s[k].id \in Prompts
    BY DEF IdAt
  <2>1. s[k] \in WaitingItems
    BY <1>1, ElementOfSeq
  <2>. QED
    BY <2>1 DEF WaitingItems, Items
<1>3. i - 1 \in Nat
  BY <1>1
<1>. QED
  BY <1>2, <1>3 DEF PositionOf, Positions

-----------------------------------------------------------------------------
(* What the ways of committing a record do to the state. *)

Stored ==
    /\ Sound(queue)
    /\ HasDispatch(queue, flight)
    /\ flight \in [Prompts -> 0..MaxFlight]
    /\ disk \in Snapshots
    /\ lag \in 0..MaxLag

Others ==
    /\ live \in {"none", "idle", "busy", "closed"}
    /\ steers \in 0..MaxFlight
    /\ used \in SUBSET Prompts
    /\ gone \in BOOLEAN
    /\ hold \in {"none", "restored", "stopped", "steered"}

IInv ==
    /\ TypeOK
    /\ TerminalIsInert
    /\ SendingHasDispatch
    /\ queue.terminal => Closed(queue)

LEMMA IInvParts == IInv <=> Stored /\ Others
BY DEF IInv, Stored, Others, Sound, HasDispatch, TypeOK, TerminalIsInert,
       SendingHasDispatch

LEMMA SavedType ==
  ASSUME NEW q, Sound(q)
  PROVE  Saved(q) \in Snapshots
BY DEF Sound, Saved, Records, Snapshots

\* Whatever snapshots are on their way, the store holds one of them.
LEMMA PersistStep ==
  ASSUME Stored, NEW versions, \A q \in versions : Sound(q), Persist(versions)
  PROVE  disk' \in Snapshots /\ lag' \in 0..MaxLag
<1>1. disk' \in Snapshots
  BY SavedType DEF Persist, Stored
<1>2. lag' \in 0..MaxLag
  BY MaxLagAssumption DEF Persist, Stored
<1>. QED
  BY <1>1, <1>2

LEMMA NothingQueuedStep ==
  ASSUME Stored, NothingQueued
  PROVE  Stored'
BY DEF Stored, NothingQueued, NoCommit, Sound, HasDispatch, Inert, Closed

LEMMA CommitStep ==
  ASSUME Stored, NEW q, Sound(q), HasDispatch(q, flight), Commit(q)
  PROVE  Stored'
<1>1. disk' \in Snapshots /\ lag' \in 0..MaxLag
  BY PersistStep DEF Commit
<1>2. queue' = q /\ flight' = flight
  BY DEF Commit
<1>3. Sound(queue)' /\ HasDispatch(queue, flight)'
  BY <1>2 DEF Sound, HasDispatch, Inert, Closed
<1>. QED
  BY <1>1, <1>2, <1>3 DEF Stored

LEMMA TouchStep ==
  ASSUME Stored, NEW q, Sound(q), HasDispatch(q, flight), Touch(q)
  PROVE  Stored'
<1>1. disk' \in Snapshots /\ lag' \in 0..MaxLag
  BY PersistStep DEF Touch, NoCommit, Stored
<1>2. queue' = q /\ flight' = flight
  BY DEF Touch
<1>3. Sound(queue)' /\ HasDispatch(queue, flight)'
  BY <1>2 DEF Sound, HasDispatch, Inert, Closed
<1>. QED
  BY <1>1, <1>2, <1>3 DEF Stored

LEMMA CommitAndDrainStep ==
  ASSUME Stored, NEW q, NEW l, Sound(q), HasDispatch(q, flight),
         CommitAndDrain(q, l)
  PROVE  Stored'
<1> DEFINE d == Drained(q, l)
<1>1. Sound(d) /\ queue' = d
  BY DrainedRecord DEF CommitAndDrain
<1>2. disk' \in Snapshots /\ lag' \in 0..MaxLag
  BY <1>1, PersistStep DEF CommitAndDrain
<1>3. CASE CanDrain(q, l)
  <2>1. /\ d.active.id \in Prompts
        /\ flight[d.active.id] < MaxFlight
        /\ flight' = [flight EXCEPT ![d.active.id] = @ + 1]
    BY <1>3, DrainedRecord DEF CommitAndDrain
  <2>2. flight' \in [Prompts -> 0..MaxFlight] /\ flight'[d.active.id] > 0
    BY <2>1, MaxFlightAssumption DEF Stored
  <2>3. Sound(queue)' /\ HasDispatch(queue, flight)'
    BY <1>1, <2>2 DEF Sound, HasDispatch, Inert, Closed
  <2>. QED
    BY <1>2, <2>2, <2>3 DEF Stored
<1>4. CASE ~CanDrain(q, l)
  <2>1. flight' = flight /\ d.active \in {q.active, None}
    BY <1>4, DrainedRecord DEF CommitAndDrain
  <2>2. Sound(queue)' /\ HasDispatch(queue, flight)'
    BY <1>1, <2>1 DEF Sound, HasDispatch, Inert, Closed
  <2>. QED
    BY <1>2, <2>1, <2>2 DEF Stored
<1>. QED
  BY <1>3, <1>4

-----------------------------------------------------------------------------
(* One lemma per action. *)

\* What a user operation starts from, and what it leaves alone.
LEMMA AskedFacts ==
  ASSUME Stored
  PROVE  /\ Sound(Asked) /\ HasDispatch(Asked, flight)
         /\ Sound(Bound(live)) /\ HasDispatch(Bound(live), flight)
BY AskedRecord DEF Stored, Asked, HasDispatch

LEMMA GetSnapshotStep ==
  ASSUME IInv, GetSnapshot
  PROVE  IInv'
<1>1. Stored /\ Others
  BY IInvParts
<1>2. Stored'
  BY <1>1, AskedFacts, TouchStep DEF GetSnapshot
<1>3. Others'
  BY <1>1 DEF GetSnapshot, KeepHold, UserKeeps, Others
<1>. QED
  BY <1>2, <1>3, IInvParts, PTL

\* A new prompt, at the back of the queue, or at its front when it resumes it.
LEMMA EnqueueIntoStep ==
  ASSUME Stored, NEW q, Sound(q), HasDispatch(q, flight), NEW p \in Prompts,
         EnqueueInto(q, p)
  PROVE  Stored'
<1>1. q.items \in Seq(WaitingItems)
  BY DEF Sound, Records
<1>2. CASE q.terminal
  <2> DEFINE item == ClosedItem(New(p))
             r == [q EXCEPT !.items = Append(@, item), !.paused = TRUE]
  <2>1. item \in WaitingItems /\ item.st = "failed" /\ item.closed
    BY ItemTypes
  <2>2. Append(q.items, item) \in Seq(WaitingItems)
    BY <1>1, <2>1, ItemsOps
  <2>3. \A i \in DOMAIN Append(q.items, item) :
          /\ Append(q.items, item)[i].st = "failed"
          /\ Append(q.items, item)[i].closed
    <3>1. \A i \in DOMAIN q.items : /\ q.items[i].st = "failed"
                                    /\ q.items[i].closed
      BY <1>2 DEF Sound, Inert, Closed
    <3>. QED
      BY <1>1, <2>1, <3>1, ItemsOps
  <2> HIDE DEF item
  <2>4. Sound(r) /\ HasDispatch(r, flight)
    BY <1>2, <2>2, <2>3 DEF Sound, Inert, Closed, Records, HasDispatch
  <2>5. Commit(r)
    BY <1>2 DEF EnqueueInto, item
  <2> HIDE DEF r
  <2>. QED
    BY <2>4, <2>5, CommitStep
<1>3. CASE ~q.terminal
  <2>1. New(p) \in WaitingItems
    BY ItemTypes
  <2>2. /\ <<New(p)>> \o q.items \in Seq(WaitingItems)
        /\ Append(q.items, New(p)) \in Seq(WaitingItems)
    BY <1>1, <2>1, ItemsOps
  <2>3. Sound(Enqueued(q, p)) /\ HasDispatch(Enqueued(q, p), flight)
    BY <1>3, <2>2 DEF Enqueued, Sound, Records, HasDispatch
  <2>4. CommitAndDrain(Enqueued(q, p), live)
    BY <1>3 DEF EnqueueInto
  <2>. QED
    BY <2>3, <2>4, CommitAndDrainStep
<1>. QED
  BY <1>2, <1>3

LEMMA EnqueueStep ==
  ASSUME IInv, NEW p \in Prompts, Enqueue(p)
  PROVE  IInv'
<1>1. Stored /\ Others
  BY IInvParts
<1>2. Stored'
  BY <1>1, AskedFacts, EnqueueIntoStep DEF Enqueue
<1>3. Others'
  BY <1>1 DEF Enqueue, Release, Others
<1>. QED
  BY <1>2, <1>3, IInvParts, PTL

LEMMA BeginEditStep ==
  ASSUME IInv, NEW p \in Prompts, BeginEdit(p)
  PROVE  IInv'
<1> DEFINE q == Asked
           items == EditRestored(q)
           at == LeastIn(IndicesOf(items, p))
           r == [q EXCEPT !.pos = PositionOf(items, at),
                          !.editing = [items[at] EXCEPT !.st = "editing"],
                          !.items = Without(items, p)]
           ends == \/ q.terminal
                   \/ q.editing # None /\ q.editing.id = p
                   \/ ~Holds(items, p)
<1>1. Stored /\ Others
  BY IInvParts
<1>2. Sound(q) /\ HasDispatch(q, flight)
  BY <1>1, AskedFacts
<1>3. IF ends THEN Touch(q) ELSE Commit(r)
  BY DEF BeginEdit
<1>4. ASSUME ~ends PROVE Sound(r) /\ HasDispatch(r, flight)
  <2>1. items \in Seq(WaitingItems)
    BY <1>2, EditRestoredType DEF Sound
  <2>2. at \in DOMAIN items /\ items[at] \in WaitingItems
    BY <1>4, <2>1, FoundItem DEF ItemAt
  <2>3. [items[at] EXCEPT !.st = "editing"] \in EditingItems
    BY <2>2 DEF WaitingItems, EditingItems, Items, Statuses
  <2>4. PositionOf(items, at) \in Positions
    BY <2>1, <2>2, PositionOfType
  <2>5. Without(items, p) \in Seq(WaitingItems)
    BY <2>1, FiltersType
  <2>6. ~q.terminal
    BY <1>4
  <2> HIDE DEF q, items, at
  <2>. QED
    BY <1>2, <2>3, <2>4, <2>5, <2>6 DEF Sound, Records, HasDispatch
<1> HIDE DEF q, r, ends
<1>5. Stored'
  BY <1>1, <1>2, <1>3, <1>4, TouchStep, CommitStep
<1>6. Others'
  BY <1>1 DEF BeginEdit, KeepHold, UserKeeps, Others
<1>. QED
  BY <1>5, <1>6, IInvParts, PTL

LEMMA CancelEditStep ==
  ASSUME IInv, CancelEdit
  PROVE  IInv'
<1> DEFINE q == Asked
           r == [q EXCEPT !.items = EditRestored(q),
                          !.editing = None, !.pos = None]
           ends == q.terminal \/ q.editing = None
<1>1. Stored /\ Others
  BY IInvParts
<1>2. Sound(q) /\ HasDispatch(q, flight)
  BY <1>1, AskedFacts
<1>3. IF ends THEN Touch(q) ELSE CommitAndDrain(r, live)
  BY DEF CancelEdit
<1>4. ASSUME ~ends PROVE Sound(r) /\ HasDispatch(r, flight)
  <2>1. EditRestored(q) \in Seq(WaitingItems)
    BY <1>2, EditRestoredType DEF Sound
  <2>2. ~q.terminal
    BY <1>4
  <2> HIDE DEF q
  <2>. QED
    BY <1>2, <2>1, <2>2 DEF Sound, Records, HasDispatch
<1> HIDE DEF q, r, ends
<1>5. Stored'
  BY <1>1, <1>2, <1>3, <1>4, TouchStep, CommitAndDrainStep
<1>6. Others'
  BY <1>1 DEF CancelEdit, KeepHold, UserKeeps, Others
<1>. QED
  BY <1>5, <1>6, IInvParts, PTL

LEMMA UpdateStep ==
  ASSUME IInv, NEW p \in Prompts, Update(p)
  PROVE  IInv'
<1> DEFINE q == Asked
           edits == q.editing # None /\ q.editing.id = p
           r == [q EXCEPT !.items = InsertAtPosition(@, New(p), q.pos),
                          !.editing = None, !.pos = None, !.paused = FALSE]
<1>1. Stored /\ Others
  BY IInvParts
<1>2. Sound(q) /\ HasDispatch(q, flight)
  BY <1>1, AskedFacts
<1>3. \/ Touch(q)
      \/ EnqueueInto(q, p)
      \/ ~q.terminal /\ CommitAndDrain(r, live)
  BY DEF Update
<1>4. ASSUME ~q.terminal PROVE Sound(r) /\ HasDispatch(r, flight)
  <2>1. InsertAtPosition(q.items, New(p), q.pos) \in Seq(WaitingItems)
    BY <1>2, ItemTypes, InsertAtPositionType DEF Sound, Records
  <2> HIDE DEF q
  <2>. QED
    BY <1>2, <1>4, <2>1 DEF Sound, Records, HasDispatch
<1> HIDE DEF q, r
<1>5. Stored'
  BY <1>1, <1>2, <1>3, <1>4, TouchStep, EnqueueIntoStep, CommitAndDrainStep
<1>6. Others'
  BY <1>1 DEF Update, Release, UserKeeps, Others
<1>. QED
  BY <1>5, <1>6, IInvParts, PTL

\* Items without one of them: a terminal record keeps only failed ones.
LEMMA WithoutRecord ==
  ASSUME NEW q, Sound(q), NEW p
  PROVE  /\ Without(q.items, p) \in Seq(WaitingItems)
         /\ q.terminal => \A i \in DOMAIN Without(q.items, p) :
                            /\ Without(q.items, p)[i].st = "failed"
                            /\ Without(q.items, p)[i].closed
<1>1. q.items \in Seq(WaitingItems)
  BY DEF Sound, Records
<1>2. q.terminal => \A i \in DOMAIN q.items : /\ q.items[i].st = "failed"
                                              /\ q.items[i].closed
  BY DEF Sound, Inert, Closed
<1>3. Without(q.items, p) \in Seq(WaitingItems)
  BY <1>1, FiltersType
<1>4. \A n \in DOMAIN Without(q.items, p) :
        \E i \in DOMAIN q.items : Without(q.items, p)[n] = q.items[i]
  BY <1>1, WithoutElements
<1>. QED
  BY <1>2, <1>3, <1>4

LEMMA RemoveStep ==
  ASSUME IInv, NEW p \in Prompts, Remove(p)
  PROVE  IInv'
<1> DEFINE q == Bound(live)
           edits == q.editing # None /\ q.editing.id = p
           r == [q EXCEPT !.items = Without(@, p),
                          !.editing = IF edits THEN None ELSE @,
                          !.pos = IF edits THEN None ELSE @]
<1>1. Stored /\ Others
  BY IInvParts
<1>2. Sound(q) /\ HasDispatch(q, flight)
  BY <1>1, AskedFacts
<1>3. Touch(q) \/ CommitAndDrain(r, live)
  BY DEF Remove
<1>4. Sound(r) /\ HasDispatch(r, flight)
  <2>1. /\ Without(q.items, p) \in Seq(WaitingItems)
        /\ q.terminal => \A i \in DOMAIN Without(q.items, p) :
                           /\ Without(q.items, p)[i].st = "failed"
                           /\ Without(q.items, p)[i].closed
    BY <1>2, WithoutRecord
  <2> HIDE DEF q
  <2>. QED
    BY <1>2, <2>1 DEF Sound, Inert, Closed, Records, HasDispatch
<1> HIDE DEF q, r
<1>5. Stored'
  BY <1>1, <1>2, <1>3, <1>4, TouchStep, CommitAndDrainStep
<1>6. Others'
  BY <1>1 DEF Remove, KeepHold, UserKeeps, Others
<1>. QED
  BY <1>5, <1>6, IInvParts, PTL

LEMMA ClearStep ==
  ASSUME IInv, Clear
  PROVE  IInv'
<1> DEFINE q == Asked
           r == [q EXCEPT !.items = <<>>, !.editing = None, !.pos = None,
                          !.paused = q.terminal, !.resume = FALSE]
<1>1. Stored /\ Others
  BY IInvParts
<1>2. Sound(q) /\ HasDispatch(q, flight)
  BY <1>1, AskedFacts
<1>3. Commit(r)
  BY DEF Clear
<1> HIDE DEF q
<1>4. Sound(r) /\ HasDispatch(r, flight)
  <2>1. <<>> \in Seq(WaitingItems) /\ DOMAIN <<>> = {}
    OBVIOUS
  <2>2. q \in Records /\ q.terminal \in BOOLEAN
    BY <1>2 DEF Sound, Records
  <2>3. r \in Records
    BY <2>1, <2>2 DEF Records
  <2>4. /\ r.active = q.active
        /\ r.editing = None
        /\ r.items = <<>>
        /\ r.terminal = q.terminal
    BY <2>2 DEF Records
  <2> HIDE DEF r
  <2>. QED
    BY <1>2, <2>1, <2>3, <2>4 DEF Sound, Inert, Closed, HasDispatch
<1> HIDE DEF r
<1>5. Stored'
  BY <1>1, <1>3, <1>4, CommitStep
<1>6. Others'
  BY <1>1 DEF Clear, Release, UserKeeps, Others
<1>. QED
  BY <1>5, <1>6, IInvParts, PTL

LEMMA SteerStep ==
  ASSUME IInv, NEW p \in Prompts, Steer(p)
  PROVE  IInv'
<1> DEFINE q == Asked
           first == [ItemAt(q.items, p) EXCEPT !.st = "queued",
                                               !.closed = FALSE]
           r == [q EXCEPT !.items = <<first>> \o Without(@, p)]
           waits == [r EXCEPT !.paused = TRUE, !.resume = TRUE]
           goes == [r EXCEPT !.paused = FALSE]
           ends == q.terminal \/ ~Holds(q.items, p)
<1>1. Stored /\ Others
  BY IInvParts
<1>2. Sound(q) /\ HasDispatch(q, flight)
  BY <1>1, AskedFacts
<1>3. \/ Touch(q)
      \/ ~ends /\ (Commit(waits) \/ CommitAndDrain(goes, live))
  BY DEF Steer
<1>4. ASSUME ~ends
      PROVE  /\ Sound(waits) /\ HasDispatch(waits, flight)
             /\ Sound(goes) /\ HasDispatch(goes, flight)
  <2>1. q.items \in Seq(WaitingItems) /\ ~q.terminal
    BY <1>2, <1>4 DEF Sound, Records
  <2>2. ItemAt(q.items, p) \in WaitingItems
    BY <1>4, <2>1, FoundItem
  <2>3. first \in WaitingItems
    BY <2>2 DEF WaitingItems, Items, Statuses
  <2> HIDE DEF first
  <2>4. <<first>> \o Without(q.items, p) \in Seq(WaitingItems)
    BY <1>2, <2>3, WithoutRecord, ItemsOps
  <2> HIDE DEF q
  <2>. QED
    BY <1>2, <2>1, <2>4 DEF Sound, Records, HasDispatch
<1> HIDE DEF q, waits, goes, ends
<1>5. Stored'
  BY <1>1, <1>2, <1>3, <1>4, TouchStep, CommitStep, CommitAndDrainStep
<1>6. Others'
  BY <1>1, MaxFlightAssumption DEF Steer, Release, KeepHold, Others
<1>. QED
  BY <1>5, <1>6, IInvParts, PTL

LEMMA SteerSettlesStep ==
  ASSUME IInv, NEW ok \in BOOLEAN, SteerSettles(ok)
  PROVE  IInv'
<1> DEFINE r == [queue EXCEPT !.resume = FALSE]
<1>1. Stored /\ Others
  BY IInvParts
<1>2. Sound(r) /\ HasDispatch(r, flight)
  BY <1>1 DEF Stored, Sound, Inert, Closed, Records, HasDispatch
<1>3. NothingQueued \/ Commit(r)
  BY DEF SteerSettles
<1> HIDE DEF r
<1>4. Stored'
  BY <1>1, <1>2, <1>3, NothingQueuedStep, CommitStep
<1>5. Others'
  BY <1>1, MaxFlightAssumption DEF SteerSettles, KeepHold, Others
<1>. QED
  BY <1>4, <1>5, IInvParts, PTL

LEMMA StopStep ==
  ASSUME IInv, Stop
  PROVE  IInv'
<1> DEFINE q == Opened(queue, live)
<1>1. Stored /\ Others
  BY IInvParts
<1>2. Sound(q) /\ HasDispatch(q, flight)
  BY <1>1, OpenedRecord DEF Stored, HasDispatch
<1>3. Touch(q) \/ Commit(Paused(q))
  BY DEF Stop
<1> HIDE DEF q
<1>4. Sound(Paused(q)) /\ HasDispatch(Paused(q), flight)
  BY <1>2 DEF Paused, Sound, Inert, Closed, Records, HasDispatch
<1>5. Stored'
  BY <1>1, <1>2, <1>3, <1>4, TouchStep, CommitStep
<1>6. Others'
  BY <1>1 DEF Stop, UserKeeps, Others
<1>. QED
  BY <1>5, <1>6, IInvParts, PTL

\* Deleting or restarting leaves no dispatch and no record that needs one.
LEMMA DeleteStep ==
  ASSUME IInv, Delete
  PROVE  IInv'
<1>1. Stored /\ Others
  BY IInvParts
<1>2. Sound(queue)' /\ HasDispatch(queue, flight)'
  BY RecordRecord DEF Delete, Absent, HasDispatch
<1>3. NothingSaved \in Snapshots
  BY DEF NothingSaved, Snapshots
<1>4. Stored'
  BY <1>1, <1>2, <1>3, MaxFlightAssumption, MaxLagAssumption DEF Delete, Stored
<1>5. Others'
  BY <1>1, MaxFlightAssumption DEF Delete, Others
<1>. QED
  BY <1>4, <1>5, IInvParts, PTL

LEMMA RuntimeOthers ==
  ASSUME Others, RuntimeKeeps, live' \in {"none", "idle", "busy", "closed"}
  PROVE  Others'
BY DEF Others, RuntimeKeeps

LEMMA ResumeAfterActiveSettlesStep ==
  ASSUME Stored, NEW l, ResumeAfterActiveSettles(l)
  PROVE  Stored'
<1> DEFINE q == Checked(queue, l)
<1>1. Sound(q) /\ HasDispatch(q, flight)
  BY CheckedRecord DEF Stored, HasDispatch
<1>2. Touch(q) \/ (~q.terminal /\ CommitAndDrain(Resumed(q), l))
  BY DEF ResumeAfterActiveSettles
<1> HIDE DEF q
<1>3. ~q.terminal => Sound(Resumed(q)) /\ HasDispatch(Resumed(q), flight)
  BY <1>1 DEF Resumed, Sound, Records, HasDispatch
<1>. QED
  BY <1>1, <1>2, <1>3, TouchStep, CommitAndDrainStep

\* A session prepared again: the prompts its closing failed are dropped.
LEMMA SessionSnapshotStep ==
  ASSUME IInv, NEW l \in {"idle", "busy", "closed"}, SessionSnapshot(l)
  PROVE  IInv'
<1> DEFINE closed == Terminalized(queue)
           left == Select(queue.items,
                          {i \in DOMAIN queue.items : ~queue.items[i].closed})
           reopened == [queue EXCEPT
                          !.active = None, !.editing = None, !.pos = None,
                          !.items = left,
                          !.paused = FALSE, !.resume = FALSE,
                          !.terminal = FALSE]
           open == IF ~queue.terminal THEN queue ELSE reopened
<1>1. Stored /\ Others
  BY IInvParts
<1>2. queue \in Records /\ queue.items \in Seq(WaitingItems)
  BY <1>1 DEF Stored, Sound, Records
<1>3. Sound(closed) /\ HasDispatch(closed, flight)
  BY <1>1, TerminalizedRecord DEF Stored, HasDispatch
<1>4. left \in Seq(WaitingItems)
  BY <1>2, SelectProperties
<1>5. /\ Sound(open) /\ HasDispatch(open, flight)
      /\ Sound(Resumed(open)) /\ HasDispatch(Resumed(open), flight)
  <2> HIDE DEF left
  <2>1. CASE queue.terminal
    <3>1. Sound(reopened) /\ ~reopened.terminal /\ reopened.active = None
      BY <1>2, <1>4 DEF Sound, Records
    <3> HIDE DEF reopened
    <3>. QED
      BY <2>1, <3>1 DEF Sound, Records, HasDispatch, Resumed
  <2>2. CASE ~queue.terminal
    BY <1>1, <2>2 DEF Stored, Sound, Records, HasDispatch, Resumed
  <2>. QED
    BY <2>1, <2>2
<1>6. \/ NothingQueued
      \/ Touch(closed)
      \/ Touch(open)
      \/ CommitAndDrain(Resumed(open), l)
      \/ CommitAndDrain(open, l)
  BY DEF SessionSnapshot
<1> HIDE DEF closed, open
<1>7. Stored'
  BY <1>1, <1>3, <1>5, <1>6, NothingQueuedStep, TouchStep, CommitAndDrainStep
<1>8. Others'
  BY <1>1, RuntimeOthers DEF SessionSnapshot
<1>. QED
  BY <1>7, <1>8, IInvParts, PTL

LEMMA StatusEventStep ==
  ASSUME IInv, NEW status \in {"idle", "error", "busy"}, StatusEvent(status)
  PROVE  IInv'
<1>1. Stored /\ Others
  BY IInvParts
<1>2. NothingQueued \/ ResumeAfterActiveSettles(live')
  BY DEF StatusEvent
<1>3. Stored'
  BY <1>1, <1>2, NothingQueuedStep, ResumeAfterActiveSettlesStep
<1>4. live' \in {"none", "idle", "busy", "closed"}
  BY <1>1 DEF StatusEvent, Others
<1>5. Others'
  BY <1>1, <1>4, RuntimeOthers DEF StatusEvent
<1>. QED
  BY <1>3, <1>5, IInvParts, PTL

LEMMA TurnStatusStep ==
  ASSUME IInv, NEW t, NEW result, TurnStatus(t, result)
  PROVE  IInv'
<1> DEFINE r == Settled(queue, result)
<1>1. Stored /\ Others
  BY IInvParts
<1>2. \/ NothingQueued
      \/ ResumeAfterActiveSettles(live)
      \/ queue.active # None /\ (Commit(r) \/ CommitAndDrain(r, live))
  BY DEF TurnStatus
<1>3. ASSUME queue.active # None PROVE Sound(r) /\ HasDispatch(r, flight)
  <2>1. /\ queue \in Records /\ ~queue.terminal
        /\ queue.active \in Items
        /\ queue.items \in Seq(WaitingItems)
    BY <1>1, <1>3, ItemTypes DEF Stored, Sound, Inert, Records
  <2>2. <<Failed(queue.active)>> \o queue.items \in Seq(WaitingItems)
    BY <2>1, ItemTypes, ItemsOps
  <2>. QED
    BY <2>1, <2>2 DEF Settled, Sound, Records, HasDispatch
<1> HIDE DEF r
<1>4. Stored'
  BY <1>1, <1>2, <1>3, NothingQueuedStep, ResumeAfterActiveSettlesStep,
     CommitStep, CommitAndDrainStep
<1>5. Others'
  BY <1>1, RuntimeOthers DEF TurnStatus, Others
<1>. QED
  BY <1>4, <1>5, IInvParts, PTL

LEMMA UserMessageStep ==
  ASSUME IInv, NEW p \in Prompts, UserMessage(p)
  PROVE  IInv'
<1> DEFINE r == [queue EXCEPT !.active.st = "running"]
<1>1. Stored /\ Others
  BY IInvParts
<1>2. Commit(r) /\ queue.active # None
  BY DEF UserMessage
<1>3. [queue.active EXCEPT !.st = "running"] \in ActiveItems
  BY <1>1, <1>2 DEF Stored, Sound, Records, ActiveItems, Items, Statuses
<1>4. queue \in Records /\ ~queue.terminal
  BY <1>1, <1>2 DEF Stored, Sound, Inert
<1>5. r = [queue EXCEPT !.active = [queue.active EXCEPT !.st = "running"]]
  OBVIOUS
<1>6. Sound(r) /\ HasDispatch(r, flight)
  <2>1. r.active.st = "running" /\ ~r.terminal
    BY <1>3, <1>4, <1>5 DEF Records, ActiveItems, Items
  <2>2. r \in Records
    BY <1>3, <1>4, <1>5 DEF Records
  <2>. QED
    BY <2>1, <2>2 DEF Sound, HasDispatch
<1> HIDE DEF r
<1>7. Stored'
  BY <1>1, <1>2, <1>6, CommitStep
<1>8. Others'
  BY <1>1, RuntimeOthers DEF UserMessage, Others
<1>. QED
  BY <1>7, <1>8, IInvParts, PTL

LEMMA SessionClosedStep ==
  ASSUME IInv, SessionClosed
  PROVE  IInv'
<1>1. Stored /\ Others
  BY IInvParts
<1>2. Sound(Terminalized(queue)) /\ HasDispatch(Terminalized(queue), flight)
  BY <1>1, TerminalizedRecord DEF Stored, HasDispatch
<1>3. Touch(Terminalized(queue)) \/ NothingQueued
  BY DEF SessionClosed
<1>4. Stored'
  BY <1>1, <1>2, <1>3, TouchStep, NothingQueuedStep
<1>5. Others'
  BY <1>1, RuntimeOthers DEF SessionClosed, Others
<1>. QED
  BY <1>4, <1>5, IInvParts, PTL

LEMMA LiveOnlyStep ==
  ASSUME IInv, NEW l \in {"idle", "busy", "closed"},
         AdoptSnapshot(l) \/ ForgetLive
  PROVE  IInv'
<1>1. Stored /\ Others
  BY IInvParts
<1>2. Stored'
  BY <1>1, NothingQueuedStep DEF AdoptSnapshot, ForgetLive
<1>3. Others'
  BY <1>1, RuntimeOthers DEF AdoptSnapshot, ForgetLive
<1>. QED
  BY <1>2, <1>3, IInvParts, PTL

\* An answer touches the active prompt only if it is the prompt it answers.
LEMMA AnsweredRecord ==
  ASSUME NEW q, Sound(q), NEW p \in Prompts,
         NEW outcome \in {"accepted", "failed", "busy"}
  PROVE  /\ Sound(Answered(q, p, outcome))
         /\ \/ Answered(q, p, outcome) = q /\ (q.active = None \/ q.active.id # p)
            \/ Answered(q, p, outcome).active = None
            \/ Answered(q, p, outcome).active.st = "running"
<1> DEFINE status == IF outcome = "busy" THEN "pending_dispatch" ELSE "failed"
           back == [New(p) EXCEPT !.st = status]
<1>1. CASE q.active = None \/ q.active.id # p
  BY <1>1 DEF Answered
<1>2. CASE ~(q.active = None \/ q.active.id # p)
  <2>1. /\ q \in Records /\ ~q.terminal
        /\ q.active \in ActiveItems
        /\ q.items \in Seq(WaitingItems)
    BY <1>2 DEF Sound, Inert, Records
  <2>2. back \in WaitingItems
    BY DEF New, WaitingItems, Items, Statuses
  <2> HIDE DEF back
  <2>3. <<back>> \o q.items \in Seq(WaitingItems)
    BY <2>1, <2>2, ItemsOps
  <2>4. CASE outcome = "accepted"
    <3> DEFINE runs == [q.active EXCEPT !.st = "running"]
    <3>1. runs \in ActiveItems /\ runs.st = "running"
      BY <2>1 DEF ActiveItems, Items, Statuses
    <3>2. Answered(q, p, outcome) = [q EXCEPT !.active = runs]
      BY <1>2, <2>4 DEF Answered
    <3> HIDE DEF runs
    <3>. QED
      BY <2>1, <3>1, <3>2 DEF Sound, Records
  <2>5. CASE outcome # "accepted"
    <3>1. Answered(q, p, outcome) =
            [q EXCEPT !.active = None, !.items = <<back>> \o @]
      BY <1>2, <2>5 DEF Answered, PutBack, back
    <3>. QED
      BY <2>1, <2>3, <3>1 DEF Sound, Records
  <2>. QED
    BY <2>4, <2>5
<1>. QED
  BY <1>1, <1>2

LEMMA DispatchSettlesStep ==
  ASSUME IInv, NEW p \in Prompts, NEW outcome \in {"accepted", "failed", "busy"},
         DispatchSettles(p, outcome)
  PROVE  IInv'
<1> DEFINE r == Answered(queue, p, outcome)
<1>1. Stored /\ Others
  BY IInvParts
<1>2. /\ Sound(r)
      /\ \/ r = queue /\ (queue.active = None \/ queue.active.id # p)
         \/ r.active = None
         \/ r.active.st = "running"
  BY <1>1, AnsweredRecord DEF Stored
<1>3. queue' = r /\ flight' = [flight EXCEPT ![p] = @ - 1] /\ flight[p] > 0
  BY DEF DispatchSettles
<1>4. NoCommit \/ Persist({r})
  BY <1>3 DEF DispatchSettles
<1> HIDE DEF r
<1>5. disk' \in Snapshots /\ lag' \in 0..MaxLag
  BY <1>1, <1>2, <1>4, PersistStep DEF NoCommit, Stored
<1>6. flight' \in [Prompts -> 0..MaxFlight]
  <2>1. flight[p] - 1 \in 0..MaxFlight
    BY <1>1, <1>3, MaxFlightAssumption DEF Stored
  <2>. QED
    BY <1>1, <1>3, <2>1 DEF Stored
<1>7. HasDispatch(queue, flight)'
  <2>1. CASE r = queue /\ (queue.active = None \/ queue.active.id # p)
    <3>1. queue.active # None => queue.active.id \in Prompts
      BY <1>1 DEF Stored, Sound, Records, ActiveItems, Items
    <3>. QED
      BY <1>1, <1>3, <2>1, <3>1 DEF Stored, HasDispatch
  <2>2. CASE r.active = None \/ r.active.st = "running"
    BY <1>3, <2>2 DEF HasDispatch
  <2>. QED
    BY <1>2, <2>1, <2>2
<1>8. Stored'
  BY <1>2, <1>3, <1>5, <1>6, <1>7 DEF Stored, Sound, Inert, Closed
<1>9. Others'
  BY <1>1, RuntimeOthers DEF DispatchSettles, Others
<1>. QED
  BY <1>8, <1>9, IInvParts, PTL

\* A restored queue holds waiting items only, whatever had been saved.
LEMMA RestoredRecord ==
  ASSUME NEW d \in Snapshots
  PROVE  Sound(Restored(d)) /\ Restored(d).active = None
<1> DEFINE active == IF d.active = None THEN <<>>
                     ELSE <<[d.active EXCEPT !.st = "pending_dispatch",
                                             !.closed = FALSE]>>
           editing == IF d.editing = None THEN <<>>
                      ELSE <<[d.editing EXCEPT !.st = "queued",
                                               !.closed = FALSE]>>
           kept == [i \in DOMAIN d.items |->
                      IF d.items[i].st \in {"running", "sending"}
                      THEN [d.items[i] EXCEPT !.st = "pending_dispatch"]
                      ELSE d.items[i]]
<1>1. /\ d.active \in ActiveItems \cup {None}
      /\ d.editing \in EditingItems \cup {None}
      /\ d.items \in Seq(WaitingItems)
  BY DEF Snapshots
<1>2. active \in Seq(WaitingItems)
  <2>1. d.active # None =>
          [d.active EXCEPT !.st = "pending_dispatch", !.closed = FALSE]
            \in WaitingItems
    BY <1>1 DEF ActiveItems, WaitingItems, Items, Statuses
  <2>. QED
    BY <2>1
<1>3. editing \in Seq(WaitingItems)
  <2>1. d.editing # None =>
          [d.editing EXCEPT !.st = "queued", !.closed = FALSE] \in WaitingItems
    BY <1>1 DEF EditingItems, WaitingItems, Items, Statuses
  <2>. QED
    BY <2>1
<1>4. kept \in Seq(WaitingItems)
  <2>1. Len(d.items) \in Nat /\ DOMAIN d.items = 1..Len(d.items)
    BY <1>1, LenProperties
  <2>2. ASSUME NEW i \in DOMAIN d.items PROVE kept[i] \in WaitingItems
    <3>1. d.items[i] \in WaitingItems
      BY <1>1, <2>1, ElementOfSeq
    <3>. QED
      BY <3>1 DEF WaitingItems, Items, Statuses
  <2>3. DOMAIN kept = DOMAIN d.items /\ kept = [i \in DOMAIN kept |-> kept[i]]
    OBVIOUS
  <2> HIDE DEF kept
  <2>4. kept \in [1..Len(d.items) -> WaitingItems]
    BY <2>1, <2>2, <2>3
  <2>. QED
    BY <2>1, <2>4
<1> HIDE DEF active, editing, kept
<1>5. active \o editing \o kept \in Seq(WaitingItems)
  BY <1>2, <1>3, <1>4, ConcatProperties
<1>6. RestoredItems(d) \in Seq(WaitingItems)
  BY <1>5, FiltersType DEF RestoredItems, active, editing, kept
<1>7. /\ Sound([Record(TRUE, FALSE) EXCEPT !.items = RestoredItems(d),
                                           !.paused = TRUE])
      /\ [Record(TRUE, FALSE) EXCEPT !.items = RestoredItems(d),
                                     !.paused = TRUE].active = None
  <2>1. /\ Record(TRUE, FALSE) \in Records
        /\ Record(TRUE, FALSE).terminal = FALSE
        /\ Record(TRUE, FALSE).active = None
    BY RecordRecord DEF Record, Sound
  <2>. QED
    BY <1>6, <2>1 DEF Sound, Records
<1>. QED
  BY <1>7, RecordRecord DEF Restored, Absent

LEMMA RestartStep ==
  ASSUME IInv, Restart
  PROVE  IInv'
<1>1. Stored /\ Others
  BY IInvParts
<1>2. Sound(Restored(disk)) /\ Restored(disk).active = None
  BY <1>1, RestoredRecord DEF Stored
<1>3. Sound(queue)' /\ HasDispatch(queue, flight)'
  BY <1>2 DEF Restart, Sound, Inert, Closed, HasDispatch
<1>4. Stored'
  BY <1>1, <1>3, MaxFlightAssumption, MaxLagAssumption DEF Restart, Stored
<1>5. Others'
  BY <1>1, MaxFlightAssumption DEF Restart, Others
<1>. QED
  BY <1>4, <1>5, IInvParts, PTL

-----------------------------------------------------------------------------
(* The inductive invariant, and what follows from it. *)

LEMMA InitIInv == Init => IInv
<1>. SUFFICES ASSUME Init PROVE IInv
  OBVIOUS
<1>1. Sound(queue) /\ HasDispatch(queue, flight)
  BY RecordRecord DEF Init, Absent, HasDispatch
<1>2. disk \in Snapshots
  BY DEF Init, NothingSaved, Snapshots
<1>3. Stored
  BY <1>1, <1>2, MaxFlightAssumption, MaxLagAssumption DEF Init, Stored
<1>4. Others
  <2>1. {} \in SUBSET Prompts /\ FALSE \in BOOLEAN /\ 0 \in 0..MaxFlight
    BY MaxFlightAssumption
  <2>. QED
    BY <2>1 DEF Init, Others
<1>. QED
  BY <1>3, <1>4, IInvParts

LEMMA StutterIInv ==
  ASSUME IInv, UNCHANGED vars
  PROVE  IInv'
BY DEF IInv, TypeOK, TerminalIsInert, Inert, Closed, SendingHasDispatch, vars

LEMMA NextIInv == IInv /\ [Next]_vars => IInv'
<1>. SUFFICES ASSUME IInv, [Next]_vars PROVE IInv'
  OBVIOUS
<1>1. CASE UserStep
  BY <1>1, GetSnapshotStep, CancelEditStep, ClearStep, StopStep, DeleteStep,
     EnqueueStep, BeginEditStep, UpdateStep, RemoveStep, SteerStep DEF UserStep
<1>2. CASE RuntimeStep
  BY <1>2, SessionSnapshotStep, LiveOnlyStep, StatusEventStep, TurnStatusStep,
     DispatchSettlesStep, UserMessageStep, SteerSettlesStep, SessionClosedStep
     DEF RuntimeStep
<1>3. CASE Restart
  BY <1>3, RestartStep
<1>4. CASE UNCHANGED vars
  BY <1>4, StutterIInv
<1>. QED
  BY <1>1, <1>2, <1>3, <1>4 DEF Next

\* The three properties hold together in every reachable state of the queue.
THEOREM Invariant == Spec => []IInv
BY InitIInv, NextIInv, PTL DEF Spec

\* Every reachable state of the queue is well typed: in particular an item's
\* status always agrees with the place of the record that holds it.
THEOREM TypeCorrect == Spec => []TypeOK
<1>1. IInv => TypeOK
  BY DEF IInv
<1>. QED
  BY <1>1, Invariant, PTL

\* The queue of a closed session has nothing active, nothing open for editing
\* and only failed prompts, whatever was on its way when the session closed.
THEOREM ClosedQueueIsInert == Spec => []TerminalIsInert
<1>1. IInv => TerminalIsInert
  BY DEF IInv
<1>. QED
  BY <1>1, Invariant, PTL

\* A prompt shown as being sent always has a dispatch whose answer is still to
\* come, in every order of answers, cancellations, closings and retries.
THEOREM SendingIsAwaited == Spec => []SendingHasDispatch
<1>1. IInv => SendingHasDispatch
  BY DEF IInv
<1>. QED
  BY <1>1, Invariant, PTL

-----------------------------------------------------------------------------
(* Stop and Restart: the queue stays quiet until the user lets it go on. *)

\* Nothing can be sent from the record: it is paused and waits for no turn to
\* resume it, or it holds nothing.
Resting(q) ==
    \/ q.paused /\ ~q.resume
    \/ q.active = None /\ q.editing = None /\ q.items = <<>>

\* A stopped or restored queue is quiet.
HoldsQuiet == hold \in {"restored", "stopped"} => Resting(queue)

\* The fields that the changes below reach.
Fields(q) == {"active", "editing", "pos", "items", "owned", "paused", "resume",
              "terminal"} \subseteq DOMAIN q

NothingSent == \A p \in Prompts : ~(flight'[p] > flight[p])

StaysQuiet == Resting(queue)' /\ NothingSent

LEMMA SoundFields ==
  ASSUME NEW q, Sound(q)
  PROVE  Fields(q)
BY DEF Sound, Records, Fields

LEMMA QuietCannotDrain ==
  ASSUME NEW q, Resting(q), NEW l
  PROVE  ~CanDrain(q, l)
BY DEF Resting, CanDrain, Waiting

LEMMA CheckedQuiet ==
  ASSUME NEW q, Fields(q), Resting(q), NEW l
  PROVE  Resting(Checked(q, l))
BY DEF Fields, Resting, Checked, Terminalized

\* Committing a quiet record sends nothing, even through #drain.
LEMMA QuietCommit ==
  ASSUME Stored, NEW q, Fields(q), Resting(q), NEW l,
         Commit(q) \/ Touch(q) \/ CommitAndDrain(q, l)
  PROVE  StaysQuiet
<1>1. ~CanDrain(q, l)
  BY QuietCannotDrain
<1>2. Resting(Drained(q, l))
  BY <1>1, CheckedQuiet DEF Drained
<1>3. flight' = flight /\ queue' \in {q, Drained(q, l)}
  BY <1>1 DEF Commit, Touch, CommitAndDrain
<1>4. NothingSent
  BY <1>3 DEF Stored, NothingSent
<1>. QED
  BY <1>2, <1>3, <1>4 DEF StaysQuiet, Resting

LEMMA QuietNothingQueued ==
  ASSUME Stored, Resting(queue), NothingQueued
  PROVE  StaysQuiet
BY DEF Stored, NothingQueued, StaysQuiet, NothingSent, Resting

LEMMA AskedQuiet ==
  ASSUME Stored, Resting(queue)
  PROVE  /\ Resting(Opened(queue, live)) /\ Fields(Opened(queue, live))
         /\ Resting(Bound(live)) /\ Fields(Bound(live))
         /\ Resting(Asked) /\ Fields(Asked)
<1>1. Resting(Opened(queue, live)) /\ Sound(Opened(queue, live))
  BY OpenedRecord DEF Opened, Record, Resting, Stored
<1>2. Resting(Bound(live))
  BY <1>1, SoundFields DEF Bound, Resting, Fields
<1>3. Sound(Bound(live)) /\ Sound(Asked)
  BY AskedFacts
<1>. QED
  BY <1>1, <1>2, <1>3, CheckedQuiet, SoundFields DEF Asked

\* The user's steps that do not tell the queue to go on.
LEMMA UserStaysQuiet ==
  ASSUME IInv, Resting(queue),
         \/ GetSnapshot
         \/ CancelEdit
         \/ \E p \in Prompts : \/ BeginEdit(p)
                               \/ Remove(p)
                               \/ Steer(p) /\ Touch(Asked)
         \/ \E ok \in BOOLEAN : SteerSettles(ok)
  PROVE  StaysQuiet
<1> DEFINE q == Asked
<1>1. Stored
  BY IInvParts
<1>2. Resting(q) /\ Fields(q) /\ Resting(Bound(live)) /\ Fields(Bound(live))
  BY <1>1, AskedQuiet
<1>3. ASSUME Touch(q) PROVE StaysQuiet
  BY <1>1, <1>2, <1>3, QuietCommit
<1>4. CASE GetSnapshot
  BY <1>3, <1>4 DEF GetSnapshot
<1>5. CASE CancelEdit
  <2> DEFINE r == [q EXCEPT !.items = EditRestored(q),
                            !.editing = None, !.pos = None]
  <2>1. Touch(q) \/ (q.editing # None /\ CommitAndDrain(r, live))
    BY <1>5 DEF CancelEdit
  <2> HIDE DEF q
  <2>2. q.editing # None => Resting(r) /\ Fields(r)
    BY <1>2 DEF Resting, Fields
  <2> HIDE DEF r
  <2>. QED
    BY <1>1, <1>3, <2>1, <2>2, QuietCommit
<1>6. ASSUME NEW p \in Prompts, BeginEdit(p) PROVE StaysQuiet
  <2> DEFINE items == EditRestored(q)
             at == LeastIn(IndicesOf(items, p))
             r == [q EXCEPT !.pos = PositionOf(items, at),
                            !.editing = [items[at] EXCEPT !.st = "editing"],
                            !.items = Without(items, p)]
  <2>1. Touch(q) \/ (Holds(items, p) /\ Commit(r))
    BY <1>6 DEF BeginEdit
  <2> HIDE DEF q
  <2>2. q.editing = None /\ q.items = <<>> => ~Holds(items, p)
    BY DEF EditRestored, Holds, IndicesOf
  <2> HIDE DEF items
  <2>3. Holds(items, p) => Resting(r) /\ Fields(r)
    BY <1>2, <2>2 DEF Resting, Fields
  <2> HIDE DEF r
  <2>. QED
    BY <1>1, <1>3, <2>1, <2>3, QuietCommit
<1>7. ASSUME NEW p \in Prompts, Remove(p) PROVE StaysQuiet
  <2> DEFINE b == Bound(live)
             edits == b.editing # None /\ b.editing.id = p
             r == [b EXCEPT !.items = Without(@, p),
                            !.editing = IF edits THEN None ELSE @,
                            !.pos = IF edits THEN None ELSE @]
  <2>1. \/ Touch(b)
        \/ (Holds(b.items, p) \/ edits) /\ CommitAndDrain(r, live)
    BY <1>7 DEF Remove
  <2> HIDE DEF b
  <2>2. b.items = <<>> => ~Holds(b.items, p)
    BY DEF Holds, IndicesOf
  <2>3. Holds(b.items, p) \/ edits => Resting(r) /\ Fields(r)
    BY <1>2, <2>2 DEF Resting, Fields, b
  <2> HIDE DEF r, edits
  <2>. QED
    BY <1>1, <1>2, <2>1, <2>3, QuietCommit DEF b
<1>8. ASSUME NEW ok \in BOOLEAN, SteerSettles(ok) PROVE StaysQuiet
  <2> DEFINE r == [queue EXCEPT !.resume = FALSE]
  <2>1. NothingQueued \/ Commit(r)
    BY <1>8 DEF SteerSettles
  <2>2. Resting(r) /\ Fields(r)
    BY <1>1, SoundFields DEF Stored, Resting, Fields
  <2> HIDE DEF r
  <2>. QED
    BY <1>1, <2>1, <2>2, QuietCommit, QuietNothingQueued
<1>. QED
  BY <1>3, <1>4, <1>5, <1>6, <1>7, <1>8

\* A turn that settles resumes a quiet queue only if it holds nothing.
LEMMA ResumeStaysQuiet ==
  ASSUME Stored, Resting(queue), queue.resume, NEW l, ResumeAfterActiveSettles(l)
  PROVE  StaysQuiet
<1> DEFINE q == Checked(queue, l)
<1>1. Resting(q) /\ Fields(q)
  BY CheckedQuiet, CheckedRecord, SoundFields DEF Stored
<1>2. Touch(q) \/ (~q.terminal /\ CommitAndDrain(Resumed(q), l))
  BY DEF ResumeAfterActiveSettles
<1>3. ~q.terminal => Resting(Resumed(q)) /\ Fields(Resumed(q))
  <2>1. ~q.terminal => q = queue
    BY TerminalizedRecord DEF Checked, Stored
  <2> HIDE DEF q
  <2>. QED
    BY <1>1, <2>1 DEF Resting, Resumed, Fields
<1> HIDE DEF q
<1>. QED
  BY <1>1, <1>2, <1>3, QuietCommit

\* The closing's failed prompts are all that a terminal record holds.
LEMMA NothingLeft ==
  ASSUME Stored, queue.terminal
  PROVE  Select(queue.items,
                {i \in DOMAIN queue.items : ~queue.items[i].closed}) = <<>>
<1>1. {i \in DOMAIN queue.items : ~queue.items[i].closed} = {}
  BY DEF Stored, Sound, Closed
<1>2. Select(queue.items, {}) \in Seq(WaitingItems)
      /\ Len(Select(queue.items, {})) = 0
  BY SelectProperties, FS_EmptySet DEF Stored, Sound, Records
<1>. QED
  BY <1>1, <1>2, EmptySeq

LEMMA SnapshotStaysQuiet ==
  ASSUME IInv, Resting(queue), NEW l, SessionSnapshot(l)
  PROVE  StaysQuiet
<1> DEFINE closed == Terminalized(queue)
           left == Select(queue.items,
                          {i \in DOMAIN queue.items : ~queue.items[i].closed})
           reopened == [queue EXCEPT
                          !.active = None, !.editing = None, !.pos = None,
                          !.items = left,
                          !.paused = FALSE, !.resume = FALSE,
                          !.terminal = FALSE]
           open == IF ~queue.terminal THEN queue ELSE reopened
<1>1. Stored
  BY IInvParts
<1>2. Fields(queue) /\ Fields(closed)
  BY <1>1, TerminalizedRecord, SoundFields DEF Stored
<1>3. Resting(closed)
  BY <1>2 DEF Resting, Terminalized, Fields
<1>4. Resting(open) /\ Fields(open)
  <2>1. queue.terminal => left = <<>>
    BY <1>1, NothingLeft
  <2> HIDE DEF left
  <2>. QED
    BY <1>2, <2>1 DEF Resting, Fields
<1>5. \/ NothingQueued
      \/ Touch(closed)
      \/ Touch(open)
      \/ /\ ~(open.paused /\ ~open.resume)
         /\ CommitAndDrain(Resumed(open), l) \/ CommitAndDrain(open, l)
  BY DEF SessionSnapshot
<1> HIDE DEF closed, open
<1>6. ~(open.paused /\ ~open.resume)
        => Resting(Resumed(open)) /\ Fields(Resumed(open))
  BY <1>4 DEF Resting, Fields, Resumed
<1>. QED
  BY <1>1, <1>2, <1>3, <1>4, <1>5, <1>6, QuietCommit, QuietNothingQueued

LEMMA TurnStatusStaysQuiet ==
  ASSUME IInv, Resting(queue), NEW t, NEW result, TurnStatus(t, result)
  PROVE  StaysQuiet
<1> DEFINE r == Settled(queue, result)
<1>1. Stored
  BY IInvParts
<1>2. \/ NothingQueued
      \/ queue.resume /\ ResumeAfterActiveSettles(live)
      \/ queue.active # None /\ (Commit(r) \/ CommitAndDrain(r, live))
  BY DEF TurnStatus
<1>3. queue.active # None => Resting(r) /\ Fields(r)
  BY <1>1, SoundFields DEF Stored, Resting, Fields, Settled
<1> HIDE DEF r
<1>. QED
  BY <1>1, <1>2, <1>3, ResumeStaysQuiet, QuietCommit, QuietNothingQueued

LEMMA AnswerStaysQuiet ==
  ASSUME IInv, Resting(queue), NEW p \in Prompts, NEW outcome,
         DispatchSettles(p, outcome)
  PROVE  StaysQuiet
<1>1. Stored
  BY IInvParts
<1>2. Fields(queue)
  BY <1>1, SoundFields DEF Stored
<1>3. Resting(Answered(queue, p, outcome))
  BY <1>2 DEF Resting, Answered, PutBack, Fields
<1>4. Resting(queue)'
  BY <1>3 DEF DispatchSettles, Resting
<1>5. NothingSent
  BY <1>1 DEF DispatchSettles, NothingSent, Stored
<1>. QED
  BY <1>4, <1>5 DEF StaysQuiet

\* The runtime's steps.
LEMMA RuntimeStaysQuiet ==
  ASSUME IInv, Resting(queue), RuntimeStep
  PROVE  StaysQuiet
<1>1. Stored
  BY IInvParts
<1>2. ASSUME NEW status, StatusEvent(status) PROVE StaysQuiet
  <2>1. NothingQueued \/ (queue.resume /\ ResumeAfterActiveSettles(live'))
    BY <1>2 DEF StatusEvent
  <2>. QED
    BY <1>1, <2>1, QuietNothingQueued, ResumeStaysQuiet
<1>3. ASSUME NEW p \in Prompts, UserMessage(p) PROVE StaysQuiet
  <2> DEFINE r == [queue EXCEPT !.active.st = "running"]
  <2>1. Commit(r) /\ queue.active # None
    BY <1>3 DEF UserMessage
  <2>2. r = [queue EXCEPT !.active = [queue.active EXCEPT !.st = "running"]]
    OBVIOUS
  <2>3. Resting(r) /\ Fields(r)
    BY <1>1, <2>1, <2>2, SoundFields DEF Stored, Resting, Fields
  <2> HIDE DEF r
  <2>. QED
    BY <1>1, <2>1, <2>3, QuietCommit
<1>4. ASSUME SessionClosed PROVE StaysQuiet
  <2>1. Touch(Terminalized(queue)) \/ NothingQueued
    BY <1>4 DEF SessionClosed
  <2>2. Resting(Terminalized(queue)) /\ Fields(Terminalized(queue))
    BY <1>1, TerminalizedRecord, SoundFields DEF Stored, Resting, Terminalized, Fields
  <2>. QED
    BY <1>1, <2>1, <2>2, QuietCommit, QuietNothingQueued
<1>5. ASSUME NEW l, AdoptSnapshot(l) \/ ForgetLive PROVE StaysQuiet
  BY <1>1, <1>5, QuietNothingQueued DEF AdoptSnapshot, ForgetLive
<1>. QED
  BY <1>2, <1>3, <1>4, <1>5, UserStaysQuiet, SnapshotStaysQuiet,
     TurnStatusStaysQuiet, AnswerStaysQuiet DEF RuntimeStep

Held == hold \in {"restored", "stopped"}

\* Stop and Restart make the queue quiet, whatever it was.
LEMMA StopQuiets ==
  ASSUME IInv, Stop
  PROVE  HoldsQuiet' /\ NothingSent
<1> DEFINE q == Opened(queue, live)
<1>1. Stored
  BY IInvParts
<1>2. flight' = flight /\ queue' = Paused(q)
  BY DEF Stop, Touch, Commit, Paused
<1>3. Fields(q) /\ (~queue.resume => ~q.resume)
  BY <1>1, OpenedRecord, SoundFields DEF Stored, Opened, Record
<1> HIDE DEF q
<1>4. ~queue.resume => Resting(Paused(q))
  BY <1>3 DEF Resting, Paused, Fields
<1>5. hold' = "stopped" => ~queue.resume
  BY DEF Stop
<1>6. hold' # "restored"
  BY DEF Stop
<1>7. HoldsQuiet'
  BY <1>2, <1>4, <1>5, <1>6 DEF HoldsQuiet, Resting
<1>8. NothingSent
  BY <1>1, <1>2 DEF NothingSent, Stored
<1>. QED
  BY <1>7, <1>8

LEMMA RestartQuiets ==
  ASSUME IInv, Restart
  PROVE  HoldsQuiet' /\ NothingSent
<1>1. Stored
  BY IInvParts
<1>2. Restored(disk).known => Resting(Restored(disk))
  BY DEF Restored, Absent, Record, Resting
<1>3. HoldsQuiet'
  BY <1>2 DEF Restart, HoldsQuiet, Resting
<1>4. NothingSent
  BY <1>1, MaxFlightAssumption DEF Restart, NothingSent, Stored
<1>. QED
  BY <1>3, <1>4

LEMMA HoldStep ==
  ASSUME IInv, HoldsQuiet, [Next]_vars
  PROVE  HoldsQuiet' /\ (Held /\ hold' = hold => NothingSent)
<1>1. Stored
  BY IInvParts
<1>2. ASSUME hold' = hold, Held => StaysQuiet
      PROVE  HoldsQuiet' /\ (Held /\ hold' = hold => NothingSent)
  BY <1>2 DEF HoldsQuiet, Held, StaysQuiet, Resting
<1>3. ASSUME hold' = "none"
      PROVE  HoldsQuiet' /\ (Held /\ hold' = hold => NothingSent)
  BY <1>3 DEF HoldsQuiet, Held
<1>4. Held => Resting(queue)
  BY DEF HoldsQuiet, Held
<1>5. CASE UserStep
  <2>1. CASE GetSnapshot \/ CancelEdit \/ \E p \in Prompts : BeginEdit(p) \/ Remove(p)
    <3>1. hold' = hold
      BY <2>1 DEF GetSnapshot, CancelEdit, BeginEdit, Remove, KeepHold
    <3>2. Held => StaysQuiet
      BY <1>4, <2>1, UserStaysQuiet
    <3>. QED
      BY <1>2, <3>1, <3>2
  <2>2. CASE Clear \/ Delete \/ \E p \in Prompts : Enqueue(p) \/ Update(p)
    BY <1>3, <2>2 DEF Clear, Delete, Enqueue, Update, Release
  <2>3. ASSUME NEW p \in Prompts, Steer(p)
        PROVE  HoldsQuiet' /\ (Held /\ hold' = hold => NothingSent)
    <3>1. hold' = "none" \/ (hold' = hold /\ Touch(Asked))
      BY <2>3 DEF Steer, Release, KeepHold
    <3>2. Touch(Asked) => (Held => StaysQuiet)
      BY <1>4, <2>3, UserStaysQuiet
    <3>. QED
      BY <1>2, <1>3, <3>1, <3>2
  <2>4. CASE Stop
    BY <2>4, StopQuiets
  <2>. QED
    BY <1>5, <2>1, <2>2, <2>3, <2>4 DEF UserStep
<1>6. CASE RuntimeStep
  <2>1. hold' = hold
    BY <1>6 DEF RuntimeStep, SessionSnapshot, AdoptSnapshot, StatusEvent,
       TurnStatus, DispatchSettles, UserMessage, SteerSettles, SessionClosed,
       ForgetLive, RuntimeKeeps, KeepHold
  <2>2. Held => StaysQuiet
    BY <1>4, <1>6, RuntimeStaysQuiet
  <2>. QED
    BY <1>2, <2>1, <2>2
<1>7. CASE Restart
  BY <1>7, RestartQuiets
<1>8. CASE UNCHANGED vars
  BY <1>1, <1>8 DEF vars, HoldsQuiet, Resting, NothingSent, Stored
<1>. QED
  BY <1>5, <1>6, <1>7, <1>8 DEF Next

\* A stopped or restored queue is quiet until the user lets it go on.
THEOREM HeldQueueIsQuiet == Spec => []HoldsQuiet
<1>1. Init => HoldsQuiet
  BY DEF Init, HoldsQuiet
<1>2. IInv /\ HoldsQuiet /\ [Next]_vars => HoldsQuiet'
  BY HoldStep
<1>. QED
  BY <1>1, <1>2, Invariant, PTL DEF Spec

\* After Stop, in a queue where no steering waits, no step sends a prompt before
\* the user lets the queue go on: not the answers, the statuses and the
\* snapshots that the cancelled turn still causes, and no edit or removal.
THEOREM StoppedQueueSendsNothing == Spec => StopHolds
<1>1. IInv /\ HoldsQuiet /\ [Next]_vars
        => [hold = "stopped" /\ hold' = "stopped" => ~Sends]_vars
  BY HoldStep DEF Held, NothingSent, Sends
<1>. QED
  BY <1>1, Invariant, HeldQueueIsQuiet, PTL DEF Spec, StopHolds

\* After a restart no step sends what was queued or in progress, before the
\* user lets the queue go on.
THEOREM RestoredQueueSendsNothing == Spec => RestoredWorkWaits
<1>1. IInv /\ HoldsQuiet /\ [Next]_vars
        => [hold = "restored" /\ hold' = "restored" => ~Sends]_vars
  BY HoldStep DEF Held, NothingSent, Sends
<1>. QED
  BY <1>1, Invariant, HeldQueueIsQuiet, PTL DEF Spec, RestoredWorkWaits
-----------------------------------------------------------------------------
(* No prompt in two places, and none lost.  Both follow from what the      *)
(* methods make of the ids a record holds: only the end of a turn and the  *)
(* user take an id away, only enqueue adds one, and the three places that  *)
(* hold items never share one.  An id enqueued is new because the ids of   *)
(* the queue, and of the snapshot a restart would read, were all used.     *)

IdOf(x) == IF x = None THEN {} ELSE {x.id}

IdsOf(s) == {s[i].id : i \in DOMAIN s}

Unique(s) == \A i, j \in DOMAIN s : s[i].id = s[j].id => i = j

\* The ids of a record, or of a snapshot of one.
Ids(r) == IdOf(r.active) \cup IdOf(r.editing) \cup IdsOf(r.items)

Neat(q) ==
    /\ Unique(q.items)
    /\ IdOf(q.active) \cap IdOf(q.editing) = {}
    /\ (IdOf(q.active) \cup IdOf(q.editing)) \cap IdsOf(q.items) = {}
    /\ q.known \/ Ids(q) = {}

Whole ==
    /\ Neat(queue)
    /\ Ids(queue) \subseteq used
    /\ Ids(disk) \subseteq used

\* Filtering keeps each id at one place at most.
LEMMA SelectIds ==
  ASSUME NEW S, NEW s \in Seq(S), NEW K \in SUBSET (DOMAIN s)
  PROVE  /\ IdsOf(Select(s, K)) = {s[i].id : i \in K}
         /\ Unique(s) => Unique(Select(s, K))
<1>1. /\ \A n \in DOMAIN Select(s, K) : \E i \in K : Select(s, K)[n] = s[i]
      /\ \A i \in K : \E n \in DOMAIN Select(s, K) : Select(s, K)[n] = s[i]
      /\ \A n1, n2 \in DOMAIN Select(s, K) : n1 # n2 =>
           \E i1, i2 \in K : /\ i1 # i2
                             /\ Select(s, K)[n1] = s[i1]
                             /\ Select(s, K)[n2] = s[i2]
  BY SelectElements
<1>2. IdsOf(Select(s, K)) = {s[i].id : i \in K}
  BY <1>1 DEF IdsOf
<1>3. ASSUME Unique(s) PROVE Unique(Select(s, K))
  <2>. SUFFICES ASSUME NEW m \in DOMAIN Select(s, K),
                       NEW n \in DOMAIN Select(s, K), m # n
                PROVE  Select(s, K)[m].id # Select(s, K)[n].id
    BY DEF Unique
  <2>1. PICK i, j \in K : /\ i # j
                          /\ Select(s, K)[m] = s[i]
                          /\ Select(s, K)[n] = s[j]
    BY <1>1
  <2>. QED
    BY <1>3, <2>1 DEF Unique
<1>. QED
  BY <1>2, <1>3

LEMMA WithoutIds ==
  ASSUME NEW S, NEW s \in Seq(S), NEW p
  PROVE  /\ IdsOf(Without(s, p)) = IdsOf(s) \ {p}
         /\ Unique(s) => Unique(Without(s, p))
<1> DEFINE others == {i \in DOMAIN s : s[i].id # p}
<1>1. others \in SUBSET (DOMAIN s)
  OBVIOUS
<1>2. {s[i].id : i \in others} = IdsOf(s) \ {p}
  BY DEF IdsOf
<1>3. Without(s, p) = Select(s, others)
  BY DEF Without
<1> HIDE DEF others
<1>. QED
  BY <1>1, <1>2, <1>3, SelectIds

\* deduplicateItems keeps every id, and at one place.
LEMMA DeduplicatedIds ==
  ASSUME NEW S, NEW s \in Seq(S)
  PROVE  IdsOf(Deduplicated(s)) = IdsOf(s) /\ Unique(Deduplicated(s))
<1> DEFINE firsts == {i \in DOMAIN s : \A j \in 1..(i - 1) : s[j].id # s[i].id}
<1>1. firsts \in SUBSET (DOMAIN s) /\ Deduplicated(s) = Select(s, firsts)
  BY DEF Deduplicated
<1>2. Len(s) \in Nat /\ DOMAIN s = 1..Len(s)
  BY LenProperties
<1>3. \A i, k \in firsts : s[i].id = s[k].id => i = k
  BY <1>2
<1>4. ASSUME NEW i \in DOMAIN s
      PROVE  \E k \in firsts : s[k].id = s[i].id
  <2> DEFINE same == IndicesOf(s, s[i].id)
             k == LeastIn(same)
  <2>1. same \in SUBSET (DOMAIN s) /\ same # {}
    BY DEF IndicesOf
  <2>2. k \in same /\ \A j \in same : k <= j
    BY <2>1, LeastInDomain
  <2>3. k \in DOMAIN s /\ s[k].id = s[i].id
    BY <2>2 DEF IndicesOf
  <2>4. \A j \in DOMAIN s : s[j].id = s[i].id => k <= j
    BY <2>2 DEF IndicesOf
  <2> HIDE DEF k, same
  <2>5. \A j \in 1..(k - 1) : s[j].id # s[k].id
    BY <1>2, <2>3, <2>4
  <2>. QED
    BY <2>3, <2>5
<1> HIDE DEF firsts
<1>5. {s[i].id : i \in firsts} = IdsOf(s)
  <2>1. {s[i].id : i \in firsts} \subseteq IdsOf(s)
    BY <1>1 DEF IdsOf
  <2>2. ASSUME NEW x \in IdsOf(s) PROVE x \in {s[i].id : i \in firsts}
    <3>1. PICK i \in DOMAIN s : x = s[i].id
      BY DEF IdsOf
    <3>2. PICK k \in firsts : s[k].id = s[i].id
      BY <1>4
    <3>. QED
      BY <3>1, <3>2
  <2>. QED
    BY <2>1, <2>2
<1>6. Unique(Select(s, firsts))
  <2>1. \A n1, n2 \in DOMAIN Select(s, firsts) : n1 # n2 =>
           \E i1, i2 \in firsts : /\ i1 # i2
                                  /\ Select(s, firsts)[n1] = s[i1]
                                  /\ Select(s, firsts)[n2] = s[i2]
    BY <1>1, SelectElements
  <2>. QED
    BY <1>3, <2>1 DEF Unique
<1>. QED
  BY <1>1, <1>5, <1>6, SelectIds

\* One item more, in front or behind.
LEMMA AddedIds ==
  ASSUME NEW s \in Seq(WaitingItems), NEW item \in WaitingItems
  PROVE  /\ IdsOf(<<item>> \o s) = IdsOf(s) \cup {item.id}
         /\ IdsOf(Append(s, item)) = IdsOf(s) \cup {item.id}
         /\ Unique(s) /\ item.id \notin IdsOf(s)
              => Unique(<<item>> \o s) /\ Unique(Append(s, item))
<1> DEFINE front == <<item>> \o s
           back == Append(s, item)
<1>1. Len(s) \in Nat /\ DOMAIN s = 1..Len(s)
  BY LenProperties
<1>2. /\ DOMAIN front = 1..Len(s) + 1
      /\ front[1] = item
      /\ \A i \in 2..Len(s) + 1 : front[i] = s[i - 1]
  <2>1. <<item>> \in Seq(WaitingItems) /\ Len(<<item>>) = 1 /\ <<item>>[1] = item
    OBVIOUS
  <2>2. /\ front \in Seq(WaitingItems)
        /\ Len(front) = Len(<<item>>) + Len(s)
        /\ \A i \in 1..Len(<<item>>) + Len(s) :
             front[i] = IF i <= Len(<<item>>) THEN <<item>>[i]
                        ELSE s[i - Len(<<item>>)]
    BY <2>1, ConcatProperties
  <2> HIDE DEF front
  <2>3. DOMAIN front = 1..Len(front)
    BY <2>2, LenProperties
  <2>. QED
    BY <1>1, <2>1, <2>2, <2>3
<1>3. /\ DOMAIN back = 1..Len(s) + 1
      /\ \A i \in 1..Len(s) + 1 : back[i] = IF i <= Len(s) THEN s[i] ELSE item
  BY ItemsOps
<1> HIDE DEF front, back
<1>4. IdsOf(front) = IdsOf(s) \cup {item.id}
  <2>1. \A i \in DOMAIN s : i + 1 \in 2..Len(s) + 1 /\ front[i + 1] = s[i]
    BY <1>1, <1>2
  <2>2. ASSUME NEW i \in DOMAIN front
        PROVE  front[i] = item \/ \E j \in DOMAIN s : front[i] = s[j]
    <3>1. i = 1 \/ (i \in 2..Len(s) + 1 /\ i - 1 \in DOMAIN s)
      BY <1>1, <1>2
    <3>. QED
      BY <1>2, <3>1
  <2>3. 1 \in DOMAIN front /\ 2..Len(s) + 1 \subseteq DOMAIN front
    BY <1>1, <1>2
  <2>4. \A j \in DOMAIN s : \E i \in DOMAIN front : front[i] = s[j]
    BY <2>1, <2>3
  <2>5. ASSUME NEW p \in IdsOf(front) PROVE p \in IdsOf(s) \cup {item.id}
    BY <2>2, <2>5 DEF IdsOf
  <2>6. ASSUME NEW p \in IdsOf(s) PROVE p \in IdsOf(front)
    BY <2>4, <2>6 DEF IdsOf
  <2>7. item.id \in IdsOf(front)
    BY <1>2, <2>3 DEF IdsOf
  <2>. QED
    BY <2>5, <2>6, <2>7
<1>5. IdsOf(back) = IdsOf(s) \cup {item.id}
  <2>1. \A i \in DOMAIN s : i \in DOMAIN back /\ back[i] = s[i]
    BY <1>1, <1>3
  <2>2. \A i \in DOMAIN back : i \in DOMAIN s \/ back[i] = item
    BY <1>1, <1>3
  <2>3. Len(s) + 1 \in DOMAIN back /\ back[Len(s) + 1] = item
    BY <1>1, <1>3
  <2>. QED
    BY <2>1, <2>2, <2>3 DEF IdsOf
<1>6. ASSUME Unique(s), item.id \notin IdsOf(s)
      PROVE  Unique(front) /\ Unique(back)
  <2>1. \A i \in DOMAIN s : s[i].id # item.id
    BY <1>6 DEF IdsOf
  <2>2. Unique(front)
    <3>. SUFFICES ASSUME NEW i \in DOMAIN front, NEW j \in DOMAIN front, i < j
                  PROVE  front[i].id # front[j].id
      <4>1. \A i \in DOMAIN front : i \in Int
        BY <1>1, <1>2
      <4>. QED
        BY <4>1 DEF Unique
    <3>1. front[j] = s[j - 1] /\ j - 1 \in DOMAIN s
      BY <1>1, <1>2
    <3>2. CASE i = 1
      BY <1>2, <2>1, <3>1, <3>2
    <3>3. CASE i # 1
      <4>1. front[i] = s[i - 1] /\ i - 1 \in DOMAIN s /\ i - 1 # j - 1
        BY <1>1, <1>2, <3>3
      <4>. QED
        BY <1>6, <3>1, <4>1 DEF Unique
    <3>. QED
      BY <3>2, <3>3
  <2>3. Unique(back)
    BY <1>1, <1>3, <1>6, <2>1 DEF Unique
  <2>. QED
    BY <2>2, <2>3
<1>. QED
  BY <1>4, <1>5, <1>6 DEF front, back

\* An item put back where it was is not there twice.
LEMMA InsertAtPositionIds ==
  ASSUME NEW s \in Seq(WaitingItems), NEW item \in WaitingItems,
         NEW pos \in Positions \cup {None}
  PROVE  /\ IdsOf(InsertAtPosition(s, item, pos)) = IdsOf(s) \cup {item.id}
         /\ Unique(s) => Unique(InsertAtPosition(s, item, pos))
<1> DEFINE rest == Without(s, item.id)
           k == InsertionPoint(rest, pos)
           t == Splice(rest, k, item)
<1>1. rest \in Seq(WaitingItems)
  BY FiltersType
<1>2. /\ IdsOf(rest) = IdsOf(s) \ {item.id}
      /\ Unique(s) => Unique(rest)
  BY WithoutIds
<1>3. k \in 0..Len(rest)
  BY <1>1, InsertionPointInRange
<1>4. Len(rest) \in Nat /\ DOMAIN rest = 1..Len(rest)
  BY <1>1, LenProperties
<1> HIDE DEF rest, k
<1>5. /\ DOMAIN t = 1..Len(rest) + 1
      /\ \A n \in 1..Len(rest) + 1 :
           t[n] = IF n <= k THEN rest[n]
                  ELSE IF n = k + 1 THEN item ELSE rest[n - 1]
  <2>1. /\ t \in Seq(WaitingItems)
        /\ Len(t) = Len(rest) + 1
        /\ \A n \in 1..Len(rest) + 1 :
             t[n] = IF n <= k THEN rest[n]
                    ELSE IF n = k + 1 THEN item ELSE rest[n - 1]
    <3>1. t \in Seq(WaitingItems) /\ Len(t) = Len(rest) + 1
      BY <1>1, <1>3, SpliceProperties
    <3>2. ASSUME NEW n \in 1..Len(rest) + 1
          PROVE  t[n] = IF n <= k THEN rest[n]
                        ELSE IF n = k + 1 THEN item ELSE rest[n - 1]
      BY <1>1, <1>3, SpliceProperties, SMTT(30)
    <3>. QED
      BY <3>1, <3>2
  <2> HIDE DEF t
  <2>2. DOMAIN t = 1..Len(t)
    BY <2>1, LenProperties
  <2>. QED
    BY <2>1, <2>2
<1>6. InsertAtPosition(s, item, pos) = t
  BY DEF InsertAtPosition, rest, k
<1> HIDE DEF t
<1>7. IdsOf(t) = IdsOf(rest) \cup {item.id}
  <2>1. ASSUME NEW n \in DOMAIN t
        PROVE  t[n] = item \/ \E i \in DOMAIN rest : t[n] = rest[i]
    <3>1. \/ t[n] = item
          \/ n \in DOMAIN rest /\ t[n] = rest[n]
          \/ n - 1 \in DOMAIN rest /\ t[n] = rest[n - 1]
      BY <1>3, <1>4, <1>5
    <3>. QED
      BY <3>1
  <2>2. k + 1 \in DOMAIN t /\ t[k + 1] = item
    BY <1>3, <1>4, <1>5
  <2>3. ASSUME NEW i \in DOMAIN rest
        PROVE  \E n \in DOMAIN t : t[n] = rest[i]
    <3>1. CASE i <= k
      BY <1>3, <1>4, <1>5, <3>1
    <3>2. CASE ~(i <= k)
      <4>1. i + 1 \in DOMAIN t /\ t[i + 1] = rest[i]
        BY <1>3, <1>4, <1>5, <3>2
      <4>. QED
        BY <4>1
    <3>. QED
      BY <3>1, <3>2
  <2>. QED
    BY <2>1, <2>2, <2>3 DEF IdsOf
<1>8. ASSUME Unique(rest) PROVE Unique(t)
  <2>1. \A i \in DOMAIN rest : rest[i].id # item.id
    BY <1>2 DEF IdsOf
  <2>2. \A n \in DOMAIN t : n \in Int
    BY <1>4, <1>5
  <2>3. ASSUME NEW m \in DOMAIN t, NEW n \in DOMAIN t, m < n
        PROVE  t[m].id # t[n].id
    <3>1. CASE n <= k
      BY <1>3, <1>4, <1>5, <1>8, <2>3, <3>1 DEF Unique
    <3>2. CASE n = k + 1
      BY <1>3, <1>4, <1>5, <2>1, <2>3, <3>2
    <3>3. CASE n > k + 1
      <4>1. n - 1 \in DOMAIN rest /\ t[n] = rest[n - 1]
        BY <1>3, <1>4, <1>5, <3>3
      <4>2. CASE m <= k
        <5>1. m \in DOMAIN rest /\ t[m] = rest[m] /\ m # n - 1
          BY <1>3, <1>4, <1>5, <3>3, <4>2
        <5>. QED
          BY <1>8, <4>1, <5>1 DEF Unique
      <4>3. CASE m = k + 1
        BY <1>3, <1>4, <1>5, <2>1, <4>1, <4>3
      <4>4. CASE m > k + 1
        <5>1. m - 1 \in DOMAIN rest /\ t[m] = rest[m - 1] /\ m - 1 # n - 1
          BY <1>3, <1>4, <1>5, <2>3, <4>4
        <5>. QED
          BY <1>8, <4>1, <5>1 DEF Unique
      <4>. QED
        BY <1>3, <1>4, <1>5, <4>2, <4>3, <4>4
    <3>. QED
      BY <1>3, <1>4, <1>5, <3>1, <3>2, <3>3
  <2>. QED
    BY <2>2, <2>3 DEF Unique
<1>. QED
  BY <1>2, <1>6, <1>7, <1>8

\* Items in the same order under other statuses.
LEMMA MappedIds ==
  ASSUME NEW s, NEW t, DOMAIN t = DOMAIN s, \A i \in DOMAIN s : t[i].id = s[i].id
  PROVE  IdsOf(t) = IdsOf(s)
BY DEF IdsOf

\* The spread of the three places holds an id twice only if two of them do.
LEMMA AllItemsIds ==
  ASSUME NEW q \in Records
  PROVE  /\ IdsOf(AllItems(q)) = Ids(q)
         /\ Neat(q) => Unique(AllItems(q))
<1> DEFINE a == OptSeq(q.active)
           e == OptSeq(q.editing)
           s == q.items
           m == Len(a)
           n == Len(e)
<1>1. /\ a \in Seq(Items) /\ e \in Seq(Items) /\ s \in Seq(Items)
      /\ q.active \in Items \cup {None} /\ q.editing \in Items \cup {None}
  BY ItemTypes, SeqMonotonic DEF OptSeq, Records
<1>2. /\ m \in Nat /\ n \in Nat /\ Len(s) \in Nat
      /\ DOMAIN a = 1..m /\ DOMAIN e = 1..n /\ DOMAIN s = 1..Len(s)
  BY <1>1, LenProperties
<1>3. /\ DOMAIN AllItems(q) = 1..(m + n + Len(s))
      /\ \A i \in 1..m : AllItems(q)[i] = a[i]
      /\ \A i \in 1..n : AllItems(q)[m + i] = e[i]
      /\ \A i \in 1..Len(s) : AllItems(q)[m + n + i] = s[i]
  <2> HIDE DEF a, e, s
  <2> DEFINE b == a \o e
  <2>1. /\ b \in Seq(Items) /\ Len(b) = m + n
        /\ \A i \in 1..m + n : b[i] = IF i <= m THEN a[i] ELSE e[i - m]
    BY <1>1, <1>2, ConcatProperties
  <2> HIDE DEF b
  <2>2. /\ b \o s \in Seq(Items) /\ Len(b \o s) = m + n + Len(s)
        /\ \A i \in 1..(m + n) + Len(s) :
             (b \o s)[i] = IF i <= m + n THEN b[i] ELSE s[i - (m + n)]
    <3>1. /\ b \o s \in Seq(Items) /\ Len(b \o s) = Len(b) + Len(s)
          /\ \A i \in 1..Len(b) + Len(s) :
               (b \o s)[i] = IF i <= Len(b) THEN b[i] ELSE s[i - Len(b)]
      <4>1. b \in Seq(Items) /\ s \in Seq(Items)
        BY <1>1, <2>1
      <4>. QED
        BY <4>1, ConcatProperties
    <3>2. Len(b) = m + n
      BY <2>1
    <3>. QED
      BY <3>1, <3>2, Zenon
  <2>3. AllItems(q) = b \o s
    BY DEF AllItems, a, e, s, b
  <2>4. DOMAIN (b \o s) = 1..(m + n + Len(s))
    BY <2>2, LenProperties
  <2>5. \A i \in 1..m : (b \o s)[i] = a[i]
    BY <1>2, <2>1, <2>2
  <2>6. ASSUME NEW i \in 1..n PROVE (b \o s)[m + i] = e[i]
    <3>1. m + i \in 1..m + n /\ ~(m + i <= m) /\ m + i - m = i
      BY <1>2
    <3>. QED
      BY <1>2, <2>1, <2>2, <3>1
  <2>7. ASSUME NEW i \in 1..Len(s) PROVE (b \o s)[m + n + i] = s[i]
    <3>1. /\ m + n + i \in 1..(m + n) + Len(s)
          /\ ~(m + n + i <= m + n)
          /\ (m + n + i) - (m + n) = i
      BY <1>2
    <3>. QED
      BY <1>2, <2>2, <3>1
  <2>. QED
    BY <2>3, <2>4, <2>5, <2>6, <2>7
<1>4. /\ q.active = None => m = 0 /\ IdOf(q.active) = {}
      /\ q.active # None => m = 1 /\ a[1].id = q.active.id
                                  /\ IdOf(q.active) = {q.active.id}
      /\ q.editing = None => n = 0 /\ IdOf(q.editing) = {}
      /\ q.editing # None => n = 1 /\ e[1].id = q.editing.id
                                   /\ IdOf(q.editing) = {q.editing.id}
  BY DEF OptSeq, IdOf
<1> DEFINE all == AllItems(q)
<1> HIDE DEF a, e, m, n, s, all
<1>5. ASSUME NEW i \in DOMAIN all
      PROVE  \/ i \in 1..m /\ all[i].id \in IdOf(q.active)
             \/ i - m \in 1..n /\ all[i].id \in IdOf(q.editing)
             \/ i - (m + n) \in DOMAIN s /\ all[i] = s[i - (m + n)]
  <2>1. i \in 1..(m + n + Len(s))
    BY <1>3 DEF all
  <2>2. CASE i <= m
    BY <1>2, <1>3, <1>4, <2>1, <2>2 DEF all
  <2>3. CASE i > m /\ i <= m + n
    <3>1. i - m \in 1..n /\ m + (i - m) = i
      BY <1>2, <2>1, <2>3
    <3>2. all[i] = e[i - m]
      BY <1>3, <3>1 DEF all
    <3>3. n = 1 /\ i - m = 1 /\ q.editing # None
      BY <1>2, <1>4, <3>1
    <3>. QED
      BY <1>4, <3>1, <3>2, <3>3
  <2>4. CASE i > m + n
    <3>1. i - (m + n) \in 1..Len(s) /\ m + n + (i - (m + n)) = i
      BY <1>2, <2>1, <2>4
    <3>2. all[i] = s[i - (m + n)]
      BY <1>3, <3>1 DEF all
    <3>. QED
      BY <1>2, <3>1, <3>2
  <2>. QED
    BY <1>2, <2>1, <2>2, <2>3, <2>4
<1>6. IdsOf(all) = Ids(q)
  <2>1. ASSUME NEW p \in IdsOf(all) PROVE p \in Ids(q)
    <3>1. PICK i \in DOMAIN all : p = all[i].id
      BY <2>1 DEF IdsOf
    <3>. QED
      BY <1>5, <3>1 DEF Ids, IdsOf, s
  <2>2. ASSUME NEW p \in IdOf(q.active) PROVE p \in IdsOf(all)
    <3>1. m = 1 /\ p = a[1].id /\ 1 \in DOMAIN all /\ all[1] = a[1]
      BY <1>2, <1>3, <1>4, <2>2 DEF all
    <3>. QED
      BY <3>1 DEF IdsOf
  <2>3. ASSUME NEW p \in IdOf(q.editing) PROVE p \in IdsOf(all)
    <3>1. n = 1 /\ p = e[1].id /\ m + 1 \in DOMAIN all /\ all[m + 1] = e[1]
      BY <1>2, <1>3, <1>4, <2>3 DEF all
    <3>. QED
      BY <3>1 DEF IdsOf
  <2>4. ASSUME NEW p \in IdsOf(s) PROVE p \in IdsOf(all)
    <3>1. PICK i \in DOMAIN s : p = s[i].id
      BY <2>4 DEF IdsOf
    <3>2. m + n + i \in DOMAIN all /\ all[m + n + i] = s[i]
      BY <1>2, <1>3 DEF all
    <3>. QED
      BY <3>1, <3>2 DEF IdsOf
  <2>. QED
    BY <2>1, <2>2, <2>3, <2>4 DEF Ids, s
<1>7. ASSUME Neat(q) PROVE Unique(all)
  <2>. SUFFICES ASSUME NEW i \in DOMAIN all, NEW j \in DOMAIN all, i < j
                PROVE  all[i].id # all[j].id
    <3>1. \A i \in DOMAIN all : i \in Int
      BY <1>2, <1>3 DEF all
    <3>. QED
      BY <3>1 DEF Unique
  <2>1. /\ i \in Int /\ j \in Int /\ m <= 1 /\ n <= 1 /\ i >= 1
    BY <1>2, <1>3, <1>4 DEF all
  <2>2. CASE i \in 1..m
    <3>1. ~(j \in 1..m) /\ all[i].id \in IdOf(q.active)
      BY <1>2, <1>5, <2>1, <2>2
    <3>2. all[j].id \in IdOf(q.editing) \cup IdsOf(s)
      BY <1>5, <3>1 DEF IdsOf
    <3>. QED
      BY <1>7, <3>1, <3>2 DEF Neat, s
  <2>3. CASE i - m \in 1..n
    <3>1. ~(j \in 1..m) /\ ~(j - m \in 1..n) /\ all[i].id \in IdOf(q.editing)
      BY <1>2, <1>5, <2>1, <2>3
    <3>2. all[j].id \in IdsOf(s)
      BY <1>5, <3>1 DEF IdsOf
    <3>. QED
      BY <1>7, <3>1, <3>2 DEF Neat, s
  <2>4. CASE i - (m + n) \in DOMAIN s /\ all[i] = s[i - (m + n)]
    <3>1. /\ ~(j \in 1..m) /\ ~(j - m \in 1..n)
          /\ j - (m + n) # i - (m + n)
      BY <1>2, <2>1, <2>4
    <3>2. j - (m + n) \in DOMAIN s /\ all[j] = s[j - (m + n)]
      BY <1>5, <3>1
    <3>. QED
      BY <1>7, <2>4, <3>1, <3>2 DEF Neat, Unique, s
  <2>. QED
    BY <1>5, <2>2, <2>3, <2>4
<1>. QED
  BY <1>6, <1>7 DEF all

\* What no method changes: the ids held, each at one place.
Same(q, r) == Neat(r) /\ Ids(r) = Ids(q) /\ r.known = q.known

LEMMA SoundTypes ==
  ASSUME NEW q, Sound(q)
  PROVE  /\ q \in Records /\ Fields(q) /\ "known" \in DOMAIN q
         /\ q.items \in Seq(WaitingItems)
         /\ q.pos \in Positions \cup {None}
         /\ q.active \in ActiveItems \cup {None}
         /\ q.editing \in EditingItems \cup {None}
BY DEF Sound, Records, Fields

LEMMA TerminalizedSame ==
  ASSUME NEW q, Sound(q), Neat(q)
  PROVE  Same(q, Terminalized(q))
<1> DEFINE all == AllItems(q)
           closed == [i \in DOMAIN all |-> ClosedItem(all[i])]
           kept == Deduplicated(closed)
<1>1. CASE q.terminal /\ Inert(q)
  BY <1>1 DEF Terminalized, Same
<1>2. CASE ~(q.terminal /\ Inert(q))
  <2>1. all \in Seq(Items) /\ IdsOf(all) = Ids(q)
    BY SoundTypes, AllItemsType, AllItemsIds
  <2>2. /\ closed \in Seq(WaitingItems)
        /\ DOMAIN closed = DOMAIN all
        /\ \A i \in DOMAIN all : closed[i].id = all[i].id
    <3>1. Len(all) \in Nat /\ DOMAIN all = 1..Len(all)
      BY <2>1, LenProperties
    <3>2. \A i \in DOMAIN all : /\ ClosedItem(all[i]) \in WaitingItems
                                /\ ClosedItem(all[i]).id = all[i].id
      BY <2>1, <3>1, ItemTypes, ElementOfSeq
    <3>. QED
      BY <3>1, <3>2
  <2> HIDE DEF closed
  <2>3. IdsOf(kept) = Ids(q) /\ Unique(kept)
    BY <2>1, <2>2, MappedIds, DeduplicatedIds
  <2> HIDE DEF kept
  <2> DEFINE r == [q EXCEPT !.active = None, !.editing = None, !.pos = None,
                            !.items = kept, !.paused = TRUE, !.resume = FALSE,
                            !.terminal = TRUE]
  <2>4. /\ r.active = None /\ r.editing = None /\ r.items = kept
        /\ r.known = q.known
    BY SoundTypes DEF Fields
  <2>5. Terminalized(q) = r
    BY <1>2 DEF Terminalized, kept, closed
  <2> HIDE DEF r
  <2>6. Ids(r) = Ids(q)
    BY <2>3, <2>4 DEF Ids, IdOf
  <2>7. Neat(r)
    BY <2>3, <2>4, <2>6 DEF Neat, IdOf
  <2>. QED
    BY <2>4, <2>5, <2>6, <2>7 DEF Same
<1>. QED
  BY <1>1, <1>2

LEMMA CheckedSame ==
  ASSUME NEW q, Sound(q), Neat(q), NEW l
  PROVE  Same(q, Checked(q, l))
<1>1. Same(q, q)
  BY DEF Same
<1>. QED
  BY <1>1, TerminalizedSame DEF Checked

\* The record a user operation starts from.
LEMMA AskedSame ==
  ASSUME Sound(queue), Neat(queue), NEW l
  PROVE  /\ Neat(Bound(l)) /\ Ids(Bound(l)) = Ids(queue) /\ Bound(l).known
         /\ Neat(Checked(Bound(l), l)) /\ Checked(Bound(l), l).known
         /\ Ids(Checked(Bound(l), l)) = Ids(queue)
<1> DEFINE o == Opened(queue, l)
<1>1. Sound(o) /\ Sound(Bound(l))
  BY OpenedRecord, AskedRecord
<1>2. Neat(o) /\ Ids(o) = Ids(queue) /\ o.known
  <2>1. CASE queue.known
    BY <2>1 DEF Opened
  <2>2. CASE ~queue.known
    <3>1. Ids(queue) = {}
      BY <2>2 DEF Neat
    <3>2. /\ o.known /\ o.active = None /\ o.editing = None /\ o.items = <<>>
      BY <2>2 DEF Opened, Record
    <3> HIDE DEF o
    <3>3. IdsOf(<<>>) = {} /\ Unique(<<>>)
      BY DEF IdsOf, Unique
    <3>. QED
      BY <3>1, <3>2, <3>3 DEF Neat, Ids, IdOf
  <2>. QED
    BY <2>1, <2>2
<1>3. /\ Bound(l).known = o.known /\ Bound(l).active = o.active
      /\ Bound(l).editing = o.editing /\ Bound(l).items = o.items
  <2>1. Fields(o)
    BY <1>1, SoundFields
  <2>. QED
    BY <2>1 DEF Fields, Bound
<1> HIDE DEF o
<1>4. Neat(Bound(l)) /\ Ids(Bound(l)) = Ids(queue) /\ Bound(l).known
  BY <1>2, <1>3 DEF Neat, Ids
<1>5. Same(Bound(l), Checked(Bound(l), l))
  BY <1>1, <1>4, CheckedSame
<1>. QED
  BY <1>4, <1>5 DEF Same

\* The prompt sent leaves the items as it becomes the active one.
LEMMA DrainedSame ==
  ASSUME NEW q, Sound(q), Neat(q), NEW l
  PROVE  Same(q, Drained(q, l))
<1>1. CASE CanDrain(q, l)
  <2> DEFINE sent == SentItem(q)
             rest == Without(q.items, sent.id)
             r == [q EXCEPT !.items = Without(@, SentItem(q).id),
                            !.active = SentItem(q)]
             k == LeastIn(Waiting(q))
  <2>1. /\ q \in Records /\ Waiting(q) # {} /\ q.active = None
        /\ q.items \in Seq(WaitingItems)
    BY <1>1, SoundTypes DEF CanDrain
  <2>2. k \in Waiting(q) /\ sent \in ActiveItems
    BY <2>1, SentItemType
  <2>3. k \in DOMAIN q.items /\ sent # None
    BY <2>2, NoItemAssumption DEF Waiting, ActiveItems
  <2>4. sent.id = q.items[k].id
    <3>1. q.items[k] \in Items
      BY <2>1, <2>3, ElementOfSeq, LenProperties, ItemTypes
    <3>. QED
      BY <3>1 DEF SentItem, Items
  <2>5. IdsOf(rest) = IdsOf(q.items) \ {sent.id} /\ Unique(rest)
    BY <2>1, WithoutIds DEF Neat
  <2>6. sent.id \in IdsOf(q.items)
    BY <2>3, <2>4 DEF IdsOf
  <2>7. Drained(q, l) = r
    BY <1>1 DEF Drained
  <2>8. /\ r.active = sent /\ r.items = rest /\ r.editing = q.editing
        /\ r.known = q.known
    BY SoundTypes DEF Fields
  <2> HIDE DEF sent, rest, r, k
  <2>9. IdOf(r.active) = {sent.id} /\ IdOf(q.active) = {}
    BY <2>1, <2>3, <2>8 DEF IdOf
  <2>10. Ids(r) = Ids(q)
    BY <2>5, <2>6, <2>8, <2>9 DEF Ids
  <2>11. Neat(r)
    BY <2>5, <2>6, <2>8, <2>9, <2>10 DEF Neat
  <2>. QED
    BY <2>7, <2>8, <2>10, <2>11 DEF Same
<1>2. CASE ~CanDrain(q, l)
  <2>1. Same(q, q)
    BY DEF Same
  <2>. QED
    BY <1>2, <2>1, CheckedSame DEF Drained
<1>. QED
  BY <1>1, <1>2

\* The prompt open for editing, put back among the items.
LEMMA EditRestoredIds ==
  ASSUME NEW q, Sound(q), Neat(q)
  PROVE  /\ IdsOf(EditRestored(q)) = IdsOf(q.items) \cup IdOf(q.editing)
         /\ Unique(EditRestored(q))
<1>1. q.items \in Seq(WaitingItems) /\ q.pos \in Positions \cup {None}
  BY SoundTypes
<1>2. CASE q.editing = None
  BY <1>2 DEF EditRestored, IdOf, Neat
<1>3. CASE q.editing # None
  <2>1. /\ Requeued(q.editing) \in WaitingItems
        /\ Requeued(q.editing).id = q.editing.id
    BY <1>3, SoundTypes, ItemTypes
  <2>2. /\ IdsOf(InsertAtPosition(q.items, Requeued(q.editing), q.pos))
             = IdsOf(q.items) \cup {q.editing.id}
        /\ Unique(InsertAtPosition(q.items, Requeued(q.editing), q.pos))
    BY <1>1, <2>1, InsertAtPositionIds DEF Neat
  <2>. QED
    BY <1>3, <2>2 DEF EditRestored, IdOf
<1>. QED
  BY <1>2, <1>3

-----------------------------------------------------------------------------
(* The steps, and the ids that each of them may take from the queue. *)

LEMMA SavedIds == \A q : Ids(Saved(q)) = Ids(q)
BY DEF Ids, Saved

\* However a record is committed, the queue then holds its ids.
LEMMA WholeCommit ==
  ASSUME Whole, NEW q, Sound(q), Neat(q),
         Ids(q) \subseteq used', used \subseteq used',
         NEW l, Touch(q) \/ Commit(q) \/ CommitAndDrain(q, l)
  PROVE  Whole' /\ Ids(queue)' = Ids(q)
<1>1. Same(q, q) /\ Same(q, Drained(q, l))
  BY DrainedSame DEF Same
<1>2. Neat(queue)' /\ Ids(queue)' = Ids(q)
  <2>1. queue' \in {q, Drained(q, l)}
    BY DEF Touch, Commit, CommitAndDrain
  <2>2. Neat(queue') /\ Ids(queue') = Ids(q)
    BY <1>1, <2>1 DEF Same
  <2>. QED
    BY <2>2 DEF Neat, Ids, IdOf, IdsOf, Unique
<1>3. Ids(disk)' \subseteq used'
  <2>1. disk' \in {disk, Saved(q), Saved(Drained(q, l))}
    BY DEF Touch, Commit, CommitAndDrain, NoCommit, Persist
  <2>2. Ids(disk') \subseteq used'
    BY <1>1, <2>1, SavedIds DEF Same, Whole
  <2>. QED
    BY <2>2 DEF Ids, IdOf, IdsOf
<1>. QED
  BY <1>2, <1>3 DEF Whole

LEMMA WholeNothing ==
  ASSUME Whole, NothingQueued, used' = used
  PROVE  Whole' /\ Ids(queue)' = Ids(queue)
<1>1. queue' = queue /\ disk' = disk
  BY DEF NothingQueued, NoCommit
<1>2. Ids(queue)' = Ids(queue) /\ Ids(disk)' = Ids(disk)
  BY <1>1 DEF Ids, IdOf, IdsOf
<1>3. Neat(queue)'
  <2>1. Neat(queue')
    BY <1>1 DEF Whole
  <2>. QED
    BY <2>1 DEF Neat, Ids, IdOf, IdsOf, Unique
<1>. QED
  BY <1>2, <1>3 DEF Whole

\* What a user operation starts from.
LEMMA WholeAsked ==
  ASSUME IInv, Whole
  PROVE  /\ Stored
         /\ Sound(Asked) /\ Neat(Asked) /\ Ids(Asked) = Ids(queue)
         /\ Asked.known
         /\ Sound(Bound(live)) /\ Neat(Bound(live)) /\ Bound(live).known
         /\ Ids(Bound(live)) = Ids(queue)
<1>1. Stored
  BY IInvParts
<1>. QED
  BY <1>1, AskedFacts, AskedSame DEF Stored, Asked, Whole

\* What may take the prompt p out of the queue.
Excused(p) ==
    \/ TurnStatus(p, "settled")
    \/ Remove(p)
    \/ Clear
    \/ queue.terminal /\ \E l \in {"idle", "busy"} : SessionSnapshot(l)
    \/ Delete
    \/ Restart

StaysWhole == Whole' /\ \A p \in Ids(queue) \ Ids(queue)' : Excused(p)

LEMMA WholeTouch ==
  ASSUME Whole, NEW q, Sound(q), Neat(q), Ids(q) = Ids(queue), used' = used,
         NEW l, Touch(q) \/ Commit(q) \/ CommitAndDrain(q, l)
  PROVE  StaysWhole
BY WholeCommit DEF StaysWhole, Whole

LEMMA WholeNothingQueued ==
  ASSUME Whole, NothingQueued, used' = used
  PROVE  StaysWhole
BY WholeNothing DEF StaysWhole

\* The id of a new prompt was never given before, so it is nowhere in the queue.
LEMMA EnqueueWhole ==
  ASSUME IInv, Whole, NEW p \in Prompts, Enqueue(p)
  PROVE  StaysWhole
<1> DEFINE q == Asked
           failed == [q EXCEPT !.items = Append(@, ClosedItem(New(p))),
                               !.paused = TRUE]
           r == IF q.terminal THEN failed ELSE Enqueued(q, p)
<1>1. /\ Stored /\ Sound(q) /\ Neat(q) /\ Ids(q) = Ids(queue) /\ q.known
      /\ HasDispatch(q, flight)
  BY WholeAsked, AskedFacts
<1>2. p \notin Ids(q) /\ used' = used \cup {p}
  BY <1>1 DEF Enqueue, Whole
<1>3. /\ New(p) \in WaitingItems /\ New(p).id = p
      /\ ClosedItem(New(p)) \in WaitingItems /\ ClosedItem(New(p)).id = p
      /\ ClosedItem(New(p)).st = "failed" /\ ClosedItem(New(p)).closed
  BY ItemTypes
<1>4. q.items \in Seq(WaitingItems) /\ Fields(q) /\ "known" \in DOMAIN q
  BY <1>1, SoundTypes
<1>5. p \notin IdsOf(q.items) /\ Unique(q.items)
  BY <1>1, <1>2 DEF Neat, Ids
<1>6. Commit(r) \/ CommitAndDrain(r, live)
  BY DEF Enqueue, EnqueueInto
<1> HIDE DEF q
<1>7. /\ IdsOf(r.items) = IdsOf(q.items) \cup {p} /\ Unique(r.items)
      /\ r.active = q.active /\ r.editing = q.editing /\ r.known = q.known
  <2>1. \A i \in {New(p), ClosedItem(New(p))} :
          /\ IdsOf(<<i>> \o q.items) = IdsOf(q.items) \cup {p}
          /\ IdsOf(Append(q.items, i)) = IdsOf(q.items) \cup {p}
          /\ Unique(<<i>> \o q.items) /\ Unique(Append(q.items, i))
    <3>1. ASSUME NEW i \in WaitingItems, i.id = p
          PROVE  /\ IdsOf(<<i>> \o q.items) = IdsOf(q.items) \cup {p}
                 /\ IdsOf(Append(q.items, i)) = IdsOf(q.items) \cup {p}
                 /\ Unique(<<i>> \o q.items) /\ Unique(Append(q.items, i))
      BY <1>4, <1>5, <3>1, AddedIds
    <3>. QED
      BY <1>3, <3>1
  <2>2. /\ r.items \in {Append(q.items, ClosedItem(New(p))),
                        <<New(p)>> \o q.items, Append(q.items, New(p))}
        /\ r.active = q.active /\ r.editing = q.editing /\ r.known = q.known
    BY <1>4 DEF Enqueued, Fields
  <2> HIDE DEF r
  <2>. QED
    BY <2>1, <2>2
<1>8. Sound(r)
  <2>1. CASE q.terminal
    <3>1. Append(q.items, ClosedItem(New(p))) \in Seq(WaitingItems)
      BY <1>3, <1>4, ItemsOps
    <3>2. \A i \in DOMAIN q.items : /\ q.items[i].st = "failed"
                                    /\ q.items[i].closed
      BY <1>1, <2>1 DEF Sound, Inert, Closed
    <3>3. \A i \in DOMAIN Append(q.items, ClosedItem(New(p))) :
            /\ Append(q.items, ClosedItem(New(p)))[i].st = "failed"
            /\ Append(q.items, ClosedItem(New(p)))[i].closed
      BY <1>3, <1>4, <3>2, ItemsOps
    <3>. QED
      BY <1>1, <2>1, <3>1, <3>3 DEF Sound, Inert, Closed, Records
  <2>2. CASE ~q.terminal
    <3>1. /\ <<New(p)>> \o q.items \in Seq(WaitingItems)
          /\ Append(q.items, New(p)) \in Seq(WaitingItems)
      BY <1>3, <1>4, ItemsOps
    <3>. QED
      BY <1>1, <2>2, <3>1 DEF Enqueued, Sound, Records
  <2>. QED
    BY <2>1, <2>2
<1> HIDE DEF r
<1>9. Ids(r) = Ids(q) \cup {p}
  BY <1>7 DEF Ids
<1>10. Neat(r)
  BY <1>1, <1>2, <1>7 DEF Neat, Ids
<1>11. Whole' /\ Ids(queue)' = Ids(r)
  <2>1. Ids(r) \subseteq used' /\ used \subseteq used'
    BY <1>1, <1>2, <1>9 DEF Whole
  <2>. QED
    BY <1>6, <1>8, <1>10, <2>1, WholeCommit
<1>. QED
  BY <1>1, <1>9, <1>11 DEF StaysWhole

\* The prompt opened for editing leaves the items, after the one open before has
\* gone back to them.
LEMMA BeginEditWhole ==
  ASSUME IInv, Whole, NEW p \in Prompts, BeginEdit(p)
  PROVE  StaysWhole
<1> DEFINE q == Asked
           items == EditRestored(q)
           at == LeastIn(IndicesOf(items, p))
           r == [q EXCEPT !.pos = PositionOf(items, at),
                          !.editing = [items[at] EXCEPT !.st = "editing"],
                          !.items = Without(items, p)]
           ends == \/ q.terminal
                   \/ q.editing # None /\ q.editing.id = p
                   \/ ~Holds(items, p)
<1>1. Sound(q) /\ Neat(q) /\ Ids(q) = Ids(queue) /\ q.known
  BY WholeAsked
<1>2. IF ends THEN Touch(q) ELSE Commit(r)
  BY DEF BeginEdit
<1>3. used' = used
  BY DEF BeginEdit, UserKeeps
<1>4. ASSUME ~ends PROVE Sound(r) /\ Neat(r) /\ Ids(r) = Ids(q)
  <2>1. /\ items \in Seq(WaitingItems)
        /\ IdsOf(items) = IdsOf(q.items) \cup IdOf(q.editing)
        /\ Unique(items)
    BY <1>1, EditRestoredType, EditRestoredIds DEF Sound
  <2>2. at \in DOMAIN items /\ items[at] \in WaitingItems /\ items[at].id = p
    BY <1>4, <2>1, FoundItem DEF ItemAt
  <2>3. /\ [items[at] EXCEPT !.st = "editing"] \in EditingItems
        /\ [items[at] EXCEPT !.st = "editing"].id = p
    BY <2>2 DEF WaitingItems, EditingItems, Items, Statuses
  <2>4. PositionOf(items, at) \in Positions
    BY <2>1, <2>2, PositionOfType
  <2>5. /\ Without(items, p) \in Seq(WaitingItems)
        /\ IdsOf(Without(items, p)) = IdsOf(items) \ {p}
        /\ Unique(Without(items, p))
    BY <2>1, FiltersType, WithoutIds
  <2>6. ~q.terminal
    BY <1>4
  <2>7. p \in IdsOf(items)
    BY <2>2 DEF IdsOf
  <2> HIDE DEF q, items, at
  <2>8. Sound(r)
    BY <1>1, <2>3, <2>4, <2>5, <2>6 DEF Sound, Records
  <2>9. /\ r.active = q.active /\ r.known = q.known
        /\ r.items = Without(items, p)
        /\ r.editing = [items[at] EXCEPT !.st = "editing"]
    BY <1>1, SoundTypes DEF Fields
  <2>10. IdOf(r.editing) = {p}
    BY <2>3, <2>9, NoItemAssumption DEF IdOf, EditingItems
  <2> HIDE DEF r
  <2>11. Ids(r) = Ids(q)
    BY <2>1, <2>5, <2>7, <2>9, <2>10 DEF Ids
  <2>12. Neat(r)
    BY <1>1, <2>1, <2>5, <2>7, <2>9, <2>10 DEF Neat
  <2>. QED
    BY <2>8, <2>11, <2>12
<1> HIDE DEF q, r, ends
<1>. QED
  BY <1>1, <1>2, <1>3, <1>4, WholeTouch

LEMMA CancelEditWhole ==
  ASSUME IInv, Whole, CancelEdit
  PROVE  StaysWhole
<1> DEFINE q == Asked
           r == [q EXCEPT !.items = EditRestored(q),
                          !.editing = None, !.pos = None]
           ends == q.terminal \/ q.editing = None
<1>1. Sound(q) /\ Neat(q) /\ Ids(q) = Ids(queue) /\ q.known
  BY WholeAsked
<1>2. IF ends THEN Touch(q) ELSE CommitAndDrain(r, live)
  BY DEF CancelEdit
<1>3. used' = used
  BY DEF CancelEdit, UserKeeps
<1>4. ASSUME ~ends PROVE Sound(r) /\ Neat(r) /\ Ids(r) = Ids(q)
  <2>1. /\ EditRestored(q) \in Seq(WaitingItems)
        /\ IdsOf(EditRestored(q)) = IdsOf(q.items) \cup IdOf(q.editing)
        /\ Unique(EditRestored(q))
    BY <1>1, EditRestoredType, EditRestoredIds DEF Sound
  <2>2. ~q.terminal
    BY <1>4
  <2> HIDE DEF q
  <2>3. Sound(r)
    BY <1>1, <2>1, <2>2 DEF Sound, Records
  <2>4. /\ r.active = q.active /\ r.known = q.known
        /\ r.items = EditRestored(q) /\ r.editing = None
    BY <1>1, SoundTypes DEF Fields
  <2> HIDE DEF r
  <2>5. Ids(r) = Ids(q)
    BY <2>1, <2>4 DEF Ids, IdOf
  <2>6. IdOf(r.editing) = {}
    BY <2>4 DEF IdOf
  <2>7. Neat(r)
    BY <1>1, <2>1, <2>4, <2>6 DEF Neat
  <2>. QED
    BY <2>3, <2>5, <2>7
<1> HIDE DEF q, r, ends
<1>. QED
  BY <1>1, <1>2, <1>3, <1>4, WholeTouch

\* The edit that a window submits is the one the queue holds open.
LEMMA UpdateWhole ==
  ASSUME ~StaleEdits, IInv, Whole, NEW p \in Prompts, Update(p)
  PROVE  StaysWhole
<1> DEFINE q == Asked
           r == [q EXCEPT !.items = InsertAtPosition(@, New(p), q.pos),
                          !.editing = None, !.pos = None, !.paused = FALSE]
<1>1. Sound(q) /\ Neat(q) /\ Ids(q) = Ids(queue) /\ q.known
  BY WholeAsked
<1>2. /\ q.editing # None /\ q.editing.id = p
      /\ Touch(q) \/ (~q.terminal /\ CommitAndDrain(r, live))
  BY DEF Update
<1>3. used' = used
  BY DEF Update, UserKeeps
<1>4. ASSUME ~q.terminal PROVE Sound(r) /\ Neat(r) /\ Ids(r) = Ids(q)
  <2> DEFINE items == InsertAtPosition(q.items, New(p), q.pos)
  <2>1. /\ items \in Seq(WaitingItems)
        /\ IdsOf(items) = IdsOf(q.items) \cup {p}
        /\ Unique(items)
    <3>1. /\ q.items \in Seq(WaitingItems) /\ q.pos \in Positions \cup {None}
          /\ New(p) \in WaitingItems /\ New(p).id = p /\ Unique(q.items)
      BY <1>1, SoundTypes, ItemTypes DEF Neat
    <3> HIDE DEF q
    <3>. QED
      BY <3>1, InsertAtPositionType, InsertAtPositionIds
  <2> HIDE DEF q, items
  <2>2. IdOf(q.editing) = {p}
    BY <1>2 DEF IdOf
  <2>3. r = [q EXCEPT !.items = items, !.editing = None, !.pos = None,
                      !.paused = FALSE]
    BY DEF items
  <2>4. Sound(r)
    BY <1>1, <1>4, <2>1, <2>3 DEF Sound, Records
  <2>5. /\ r.active = q.active /\ r.known = q.known
        /\ r.items = items /\ r.editing = None
    BY <1>1, <2>3, SoundTypes DEF Fields
  <2> HIDE DEF r
  <2>6. IdOf(r.editing) = {}
    BY <2>5 DEF IdOf
  <2>7. Ids(r) = Ids(q)
    BY <2>1, <2>2, <2>5, <2>6 DEF Ids
  <2>8. Neat(r)
    BY <1>1, <2>1, <2>2, <2>5, <2>6 DEF Neat
  <2>. QED
    BY <2>4, <2>7, <2>8
<1> HIDE DEF q, r
<1>. QED
  BY <1>1, <1>2, <1>3, <1>4, WholeTouch

\* Removing a prompt takes no other.
LEMMA RemoveWhole ==
  ASSUME IInv, Whole, NEW p \in Prompts, Remove(p)
  PROVE  StaysWhole
<1> DEFINE q == Bound(live)
           edits == q.editing # None /\ q.editing.id = p
           r == [q EXCEPT !.items = Without(@, p),
                          !.editing = IF edits THEN None ELSE @,
                          !.pos = IF edits THEN None ELSE @]
<1>1. Sound(q) /\ Neat(q) /\ Ids(q) = Ids(queue) /\ q.known
  BY WholeAsked
<1>2. Touch(q) \/ CommitAndDrain(r, live)
  BY DEF Remove
<1>3. used' = used
  BY DEF Remove, UserKeeps
<1> HIDE DEF q
<1>4. Sound(r)
  <2>1. /\ Without(q.items, p) \in Seq(WaitingItems)
        /\ q.terminal => \A i \in DOMAIN Without(q.items, p) :
                           /\ Without(q.items, p)[i].st = "failed"
                           /\ Without(q.items, p)[i].closed
    BY <1>1, WithoutRecord
  <2>. QED
    BY <1>1, <2>1 DEF Sound, Inert, Closed, Records
<1>5. /\ r.active = q.active /\ r.known = q.known
      /\ r.items = Without(q.items, p)
      /\ r.editing = IF edits THEN None ELSE q.editing
  BY <1>1, SoundTypes DEF Fields
<1>6. /\ IdsOf(r.items) = IdsOf(q.items) \ {p} /\ Unique(r.items)
      /\ IdOf(r.editing) = IdOf(q.editing) \ {p}
  <2>1. IdsOf(Without(q.items, p)) = IdsOf(q.items) \ {p}
        /\ Unique(Without(q.items, p))
    BY <1>1, SoundTypes, WithoutIds DEF Neat
  <2>2. IdOf(r.editing) = IdOf(q.editing) \ {p}
    BY <1>5 DEF IdOf
  <2>. QED
    BY <1>5, <2>1, <2>2
<1> HIDE DEF r, edits
<1>7. Neat(r) /\ Ids(r) \subseteq Ids(q) /\ Ids(q) \ {p} \subseteq Ids(r)
  BY <1>1, <1>5, <1>6 DEF Neat, Ids
<1>8. CASE Touch(q)
  BY <1>1, <1>3, <1>8, WholeTouch
<1>9. CASE CommitAndDrain(r, live)
  <2>1. Whole' /\ Ids(queue)' = Ids(r)
    <3>1. Ids(r) \subseteq used'
      BY <1>1, <1>3, <1>7 DEF Whole
    <3>. QED
      BY <1>3, <1>4, <1>7, <1>9, <3>1, WholeCommit
  <2>2. \A x \in Ids(queue) \ Ids(queue)' : x = p
    BY <1>1, <1>7, <2>1
  <2>. QED
    BY <2>1, <2>2 DEF StaysWhole, Excused
<1>. QED
  BY <1>2, <1>8, <1>9

\* What the constructor makes of a snapshot holds no id that was not in it.
LEMMA RestoredItemsIds ==
  ASSUME NEW d \in Snapshots
  PROVE  /\ Unique(RestoredItems(d))
         /\ IdsOf(RestoredItems(d)) \subseteq Ids(d)
<1> DEFINE active == IF d.active = None THEN <<>>
                     ELSE <<[d.active EXCEPT !.st = "pending_dispatch",
                                             !.closed = FALSE]>>
           editing == IF d.editing = None THEN <<>>
                      ELSE <<[d.editing EXCEPT !.st = "queued",
                                               !.closed = FALSE]>>
           kept == [i \in DOMAIN d.items |->
                      IF d.items[i].st \in {"running", "sending"}
                      THEN [d.items[i] EXCEPT !.st = "pending_dispatch"]
                      ELSE d.items[i]]
           WithIds(S) == {item \in Items : item.id \in S}
<1>1. /\ d.active \in ActiveItems \cup {None}
      /\ d.editing \in EditingItems \cup {None}
      /\ d.items \in Seq(WaitingItems)
  BY DEF Snapshots
<1>2. active \in Seq(WithIds(Ids(d)))
  <2>1. d.active # None =>
          [d.active EXCEPT !.st = "pending_dispatch", !.closed = FALSE]
            \in WithIds(Ids(d))
    BY <1>1 DEF ActiveItems, Items, Statuses, Ids, IdOf
  <2> HIDE DEF WithIds
  <2>. QED
    BY <2>1
<1>3. editing \in Seq(WithIds(Ids(d)))
  <2>1. d.editing # None =>
          [d.editing EXCEPT !.st = "queued", !.closed = FALSE] \in WithIds(Ids(d))
    BY <1>1 DEF EditingItems, Items, Statuses, Ids, IdOf
  <2> HIDE DEF WithIds
  <2>. QED
    BY <2>1
<1>4. kept \in Seq(WithIds(Ids(d)))
  <2>1. Len(d.items) \in Nat /\ DOMAIN d.items = 1..Len(d.items)
    BY <1>1, LenProperties
  <2>2. ASSUME NEW i \in DOMAIN d.items PROVE kept[i] \in WithIds(Ids(d))
    <3>1. d.items[i] \in Items
      BY <1>1, <2>1, ElementOfSeq, ItemTypes
    <3>2. d.items[i].id \in Ids(d)
      BY DEF Ids, IdsOf
    <3>. QED
      BY <3>1, <3>2 DEF Items, Statuses
  <2>3. DOMAIN kept = DOMAIN d.items /\ kept = [i \in DOMAIN kept |-> kept[i]]
    OBVIOUS
  <2> HIDE DEF kept, WithIds
  <2>4. kept \in [1..Len(d.items) -> WithIds(Ids(d))]
    BY <2>1, <2>2, <2>3
  <2>. QED
    BY <2>1, <2>4
<1> HIDE DEF active, editing, kept, WithIds
<1> DEFINE all == active \o editing \o kept
<1>5. all \in Seq(WithIds(Ids(d)))
  BY <1>2, <1>3, <1>4, ConcatProperties
<1>6. RestoredItems(d) = Deduplicated(all)
  BY DEF RestoredItems, active, editing, kept
<1> HIDE DEF all
<1>7. IdsOf(Deduplicated(all)) = IdsOf(all) /\ Unique(Deduplicated(all))
  BY <1>5, DeduplicatedIds
<1>8. \A i \in DOMAIN all : all[i] \in WithIds(Ids(d))
  BY <1>5, LenProperties, ElementOfSeq
<1>9. IdsOf(all) \subseteq Ids(d)
  BY <1>8 DEF IdsOf, WithIds
<1>. QED
  BY <1>6, <1>7, <1>9

LEMMA ClearWhole ==
  ASSUME IInv, Whole, Clear
  PROVE  StaysWhole
<1> DEFINE q == Asked
           r == [q EXCEPT !.items = <<>>, !.editing = None, !.pos = None,
                          !.paused = q.terminal, !.resume = FALSE]
<1>1. Sound(q) /\ Neat(q) /\ Ids(q) = Ids(queue) /\ q.known
  BY WholeAsked
<1>2. Commit(r) /\ used' = used
  BY DEF Clear, UserKeeps
<1> HIDE DEF q
<1>3. /\ r.active = q.active /\ r.known = q.known
      /\ r.items = <<>> /\ r.editing = None /\ r.terminal = q.terminal
  BY <1>1, SoundTypes DEF Fields
<1>4. r \in Records
  <2>1. <<>> \in Seq(WaitingItems)
    OBVIOUS
  <2>2. q \in Records /\ q.terminal \in BOOLEAN
    BY <1>1 DEF Sound, Records
  <2>. QED
    BY <2>1, <2>2 DEF Records
<1> HIDE DEF r
<1>5. IdsOf(<<>>) = {} /\ Unique(<<>>) /\ DOMAIN <<>> = {}
  BY DEF IdsOf, Unique
<1>6. Sound(r)
  BY <1>1, <1>3, <1>4, <1>5 DEF Sound, Inert, Closed
<1>7. Neat(r) /\ Ids(r) \subseteq Ids(q)
  BY <1>1, <1>3, <1>5 DEF Neat, Ids, IdOf
<1>8. Ids(r) \subseteq used'
  BY <1>1, <1>2, <1>7 DEF Whole
<1>9. Whole'
  BY <1>2, <1>6, <1>7, <1>8, WholeCommit
<1>. QED
  BY <1>9 DEF StaysWhole, Excused

\* The prompt to send now moves to the front.
LEMMA SteerWhole ==
  ASSUME IInv, Whole, NEW p \in Prompts, Steer(p)
  PROVE  StaysWhole
<1> DEFINE q == Asked
           first == [ItemAt(q.items, p) EXCEPT !.st = "queued",
                                               !.closed = FALSE]
           r == [q EXCEPT !.items = <<first>> \o Without(@, p)]
           waits == [r EXCEPT !.paused = TRUE, !.resume = TRUE]
           goes == [r EXCEPT !.paused = FALSE]
           ends == q.terminal \/ ~Holds(q.items, p)
<1>1. Sound(q) /\ Neat(q) /\ Ids(q) = Ids(queue) /\ q.known
  BY WholeAsked
<1>2. \/ Touch(q)
      \/ ~ends /\ (Commit(waits) \/ CommitAndDrain(goes, live))
  BY DEF Steer
<1>3. used' = used
  BY DEF Steer
<1>4. ASSUME ~ends
      PROVE  /\ Sound(waits) /\ Neat(waits) /\ Ids(waits) = Ids(q)
             /\ Sound(goes) /\ Neat(goes) /\ Ids(goes) = Ids(q)
  <2> DEFINE items == <<first>> \o Without(q.items, p)
  <2>1. q.items \in Seq(WaitingItems) /\ ~q.terminal /\ Unique(q.items)
    BY <1>1, <1>4, SoundTypes DEF Neat
  <2>2. ItemAt(q.items, p) \in WaitingItems /\ ItemAt(q.items, p).id = p
    BY <1>4, <2>1, FoundItem
  <2>3. first \in WaitingItems /\ first.id = p
    BY <2>2 DEF WaitingItems, Items, Statuses
  <2>4. p \in IdsOf(q.items)
    BY <1>4 DEF Holds, IndicesOf, IdsOf
  <2> HIDE DEF first
  <2>5. /\ Without(q.items, p) \in Seq(WaitingItems)
        /\ IdsOf(Without(q.items, p)) = IdsOf(q.items) \ {p}
        /\ Unique(Without(q.items, p))
    BY <2>1, FiltersType, WithoutIds
  <2>6. items \in Seq(WaitingItems)
    BY <2>3, <2>5, ItemsOps
  <2>7. IdsOf(items) = IdsOf(q.items) /\ Unique(items)
    <3>1. /\ IdsOf(items) = IdsOf(Without(q.items, p)) \cup {first.id}
          /\ Unique(items)
      BY <2>3, <2>5, AddedIds
    <3>. QED
      BY <2>3, <2>4, <2>5, <3>1
  <2>8. r = [q EXCEPT !.items = items]
    OBVIOUS
  <2> HIDE DEF q, items, r
  <2>9. Sound(waits) /\ Sound(goes)
    BY <1>1, <2>1, <2>6, <2>8 DEF Sound, Records
  <2>10. ASSUME NEW x \in {waits, goes}
         PROVE  Neat(x) /\ Ids(x) = Ids(q)
    <3>1. /\ x.active = q.active /\ x.known = q.known
          /\ x.items = items /\ x.editing = q.editing
      BY <1>1, <2>8, <2>10, SoundTypes DEF Fields
    <3>. QED
      BY <1>1, <2>7, <3>1 DEF Neat, Ids
  <2>. QED
    BY <2>9, <2>10
<1> HIDE DEF q, waits, goes, ends
<1>. QED
  BY <1>1, <1>2, <1>3, <1>4, WholeTouch

\* Records that differ in neither the items nor the places that hold them.
LEMMA Alike ==
  ASSUME NEW q, Neat(q), NEW r, r.items = q.items, r.active = q.active,
         r.editing = q.editing, r.known = q.known
  PROVE  Same(q, r)
BY DEF Same, Neat, Ids

\* The other operations of the user change no items.
LEMMA OthersWhole ==
  ASSUME IInv, Whole,
         GetSnapshot \/ Stop \/ \E ok \in BOOLEAN : SteerSettles(ok)
  PROVE  StaysWhole
<1>1. Stored
  BY IInvParts
<1>2. CASE GetSnapshot
  <2>1. Touch(Asked) /\ used' = used
    BY <1>2 DEF GetSnapshot, UserKeeps
  <2>. QED
    BY <2>1, WholeAsked, WholeTouch
<1>3. CASE Stop
  <2> DEFINE q == Opened(queue, live)
  <2>1. Touch(q) \/ Commit(Paused(q))
    BY <1>3 DEF Stop
  <2>2. used' = used
    BY <1>3 DEF Stop, UserKeeps
  <2>3. Sound(q) /\ Neat(q) /\ Ids(q) = Ids(queue)
    <3>1. CASE queue.known
      BY <1>1, <3>1 DEF Opened, Stored, Whole
    <3>2. CASE ~queue.known
      <4>1. Ids(queue) = {}
        BY <3>2 DEF Whole, Neat
      <4>2. q.known /\ q.active = None /\ q.editing = None /\ q.items = <<>>
        BY <3>2 DEF Opened, Record
      <4>3. Sound(q)
        BY <1>1, OpenedRecord DEF Stored
      <4> HIDE DEF q
      <4>4. IdsOf(<<>>) = {} /\ Unique(<<>>)
        BY DEF IdsOf, Unique
      <4>. QED
        BY <4>1, <4>2, <4>3, <4>4 DEF Neat, Ids, IdOf
    <3>. QED
      BY <3>1, <3>2
  <2> HIDE DEF q
  <2>4. Sound(Paused(q))
    BY <2>3 DEF Paused, Sound, Inert, Closed, Records
  <2>5. /\ Paused(q).items = q.items /\ Paused(q).active = q.active
        /\ Paused(q).editing = q.editing /\ Paused(q).known = q.known
    BY <2>3, SoundTypes DEF Paused, Fields
  <2>6. Same(q, Paused(q))
    BY <2>3, <2>5, Alike
  <2>. QED
    BY <2>1, <2>2, <2>3, <2>4, <2>6, WholeTouch DEF Same
<1>4. ASSUME NEW ok \in BOOLEAN, SteerSettles(ok) PROVE StaysWhole
  <2> DEFINE r == [queue EXCEPT !.resume = FALSE]
  <2>1. NothingQueued \/ Commit(r)
    BY <1>4 DEF SteerSettles
  <2>2. used' = used
    BY <1>4 DEF SteerSettles
  <2>3. Sound(r)
    BY <1>1 DEF Stored, Sound, Inert, Closed, Records
  <2>4. /\ r.items = queue.items /\ r.active = queue.active
        /\ r.editing = queue.editing /\ r.known = queue.known
    BY <1>1, SoundTypes DEF Stored, Fields
  <2> HIDE DEF r
  <2>5. Same(queue, r)
    BY <2>4, Alike DEF Whole
  <2>. QED
    BY <2>1, <2>2, <2>3, <2>5, WholeTouch, WholeNothingQueued DEF Same
<1>. QED
  BY <1>2, <1>3, <1>4

LEMMA NoIds ==
  /\ Ids(Absent) = {} /\ Neat(Absent)
  /\ Ids(NothingSaved) = {}
BY DEF Absent, Record, NothingSaved, Ids, IdOf, IdsOf, Neat, Unique

LEMMA DeleteWhole ==
  ASSUME Whole, Delete
  PROVE  StaysWhole
<1>1. queue' = Absent /\ disk' \in {disk, NothingSaved} /\ used' = used
  BY DEF Delete
<1>2. Ids(queue') = {} /\ Neat(queue') /\ Ids(disk') \subseteq used'
  BY <1>1, NoIds DEF Whole
<1>3. Ids(queue)' = {} /\ Neat(queue)' /\ Ids(disk)' \subseteq used'
  BY <1>2 DEF Ids, IdOf, IdsOf, Neat, Unique
<1>. QED
  BY <1>3 DEF StaysWhole, Whole, Excused

LEMMA ResumeWhole ==
  ASSUME IInv, Whole, used' = used, NEW l, ResumeAfterActiveSettles(l)
  PROVE  StaysWhole
<1> DEFINE q == Checked(queue, l)
<1>1. Sound(queue)
  BY IInvParts DEF Stored
<1>2. Sound(q) /\ Same(queue, q)
  BY <1>1, CheckedRecord, CheckedSame DEF Whole
<1>3. Touch(q) \/ (~q.terminal /\ CommitAndDrain(Resumed(q), l))
  BY DEF ResumeAfterActiveSettles
<1> HIDE DEF q
<1>4. ~q.terminal => Sound(Resumed(q))
  BY <1>2 DEF Resumed, Sound, Records
<1>5. Same(q, Resumed(q))
  <2>1. /\ Resumed(q).items = q.items /\ Resumed(q).active = q.active
        /\ Resumed(q).editing = q.editing /\ Resumed(q).known = q.known
    BY <1>2, SoundTypes DEF Resumed, Fields
  <2>. QED
    BY <1>2, <2>1, Alike DEF Same
<1>. QED
  BY <1>2, <1>3, <1>4, <1>5, WholeTouch DEF Same

\* A session prepared again drops the prompts that its closing failed.
LEMMA SnapshotWhole ==
  ASSUME IInv, Whole, NEW l \in {"idle", "busy", "closed"}, SessionSnapshot(l)
  PROVE  StaysWhole
<1> DEFINE closed == Terminalized(queue)
           left == Select(queue.items,
                          {i \in DOMAIN queue.items : ~queue.items[i].closed})
           reopened == [queue EXCEPT
                          !.active = None, !.editing = None, !.pos = None,
                          !.items = left,
                          !.paused = FALSE, !.resume = FALSE,
                          !.terminal = FALSE]
           open == IF ~queue.terminal THEN queue ELSE reopened
<1>1. Sound(queue) /\ used' = used /\ queue.items \in Seq(WaitingItems)
  BY IInvParts, SoundTypes DEF Stored, SessionSnapshot, RuntimeKeeps
<1>2. Sound(closed) /\ Same(queue, closed)
  BY <1>1, TerminalizedRecord, TerminalizedSame DEF Whole
<1>3. /\ left \in Seq(WaitingItems) /\ Unique(left)
      /\ IdsOf(left) \subseteq IdsOf(queue.items)
  <2> DEFINE K == {i \in DOMAIN queue.items : ~queue.items[i].closed}
  <2>1. K \in SUBSET (DOMAIN queue.items)
    OBVIOUS
  <2>2. left = Select(queue.items, K)
    OBVIOUS
  <2>3. {queue.items[i].id : i \in K} \subseteq IdsOf(queue.items)
    BY DEF IdsOf
  <2> HIDE DEF K, left
  <2>. QED
    BY <1>1, <2>1, <2>2, <2>3, SelectProperties, SelectIds DEF Whole, Neat
<1>4. /\ Sound(open) /\ Neat(open) /\ Ids(open) \subseteq Ids(queue)
      /\ ~queue.terminal => open = queue
      /\ ~open.terminal
  <2> HIDE DEF left
  <2>1. CASE queue.terminal
    <3>1. Sound(reopened)
      BY <1>1, <1>3 DEF Sound, Records
    <3>2. /\ reopened.active = None /\ reopened.editing = None
          /\ reopened.items = left /\ reopened.known = queue.known
          /\ ~reopened.terminal
      BY <1>1, SoundTypes DEF Fields
    <3>3. queue.known \/ Ids(queue) = {}
      BY DEF Whole, Neat
    <3> HIDE DEF reopened
    <3>4. Ids(reopened) \subseteq Ids(queue) /\ Neat(reopened)
      BY <1>3, <3>2, <3>3 DEF Ids, IdOf, Neat
    <3>. QED
      BY <2>1, <3>1, <3>2, <3>4
  <2>2. CASE ~queue.terminal
    BY <1>1, <2>2 DEF Whole
  <2>. QED
    BY <2>1, <2>2
<1>5. \/ NothingQueued
      \/ Touch(closed)
      \/ /\ l \in {"idle", "busy"}
         /\ \/ Touch(open)
            \/ CommitAndDrain(Resumed(open), l)
            \/ CommitAndDrain(open, l)
  BY DEF SessionSnapshot
<1> HIDE DEF closed, open
<1>6. Sound(Resumed(open)) /\ Same(open, Resumed(open))
  <2>1. Sound(Resumed(open))
    BY <1>4 DEF Resumed, Sound, Records
  <2>2. /\ Resumed(open).items = open.items /\ Resumed(open).active = open.active
        /\ Resumed(open).editing = open.editing /\ Resumed(open).known = open.known
    BY <1>4, SoundTypes DEF Resumed, Fields
  <2>. QED
    BY <1>4, <2>1, <2>2, Alike
<1>7. CASE NothingQueued
  BY <1>1, <1>7, WholeNothingQueued
<1>8. CASE Touch(closed)
  BY <1>1, <1>2, <1>8, WholeTouch DEF Same
<1>9. ASSUME NEW q \in {open, Resumed(open)}, l \in {"idle", "busy"},
             Touch(q) \/ CommitAndDrain(q, l)
      PROVE  StaysWhole
  <2>1. Sound(q) /\ Neat(q) /\ Ids(q) = Ids(open)
    BY <1>4, <1>6, <1>9 DEF Same
  <2>2. Ids(q) \subseteq used'
    BY <1>1, <1>4, <2>1 DEF Whole
  <2>3. Whole' /\ Ids(queue)' = Ids(open)
    BY <1>1, <1>9, <2>1, <2>2, WholeCommit
  <2>4. ~queue.terminal => Ids(queue)' = Ids(queue)
    BY <1>4, <2>3
  <2>. QED
    BY <1>9, <2>3, <2>4 DEF StaysWhole, Excused
<1>. QED
  BY <1>5, <1>7, <1>8, <1>9

LEMMA StatusWhole ==
  ASSUME IInv, Whole, NEW status, StatusEvent(status)
  PROVE  StaysWhole
<1>1. NothingQueued \/ ResumeAfterActiveSettles(live')
  BY DEF StatusEvent
<1>2. used' = used
  BY DEF StatusEvent, RuntimeKeeps
<1>. QED
  BY <1>1, <1>2, WholeNothingQueued, ResumeWhole

\* A turn that ends well takes its prompt with it; one that fails puts it back.
LEMMA TurnStatusWhole ==
  ASSUME IInv, Whole, NEW t, NEW result \in {"settled", "failed"},
         TurnStatus(t, result)
  PROVE  StaysWhole
<1> DEFINE r == Settled(queue, result)
<1>1. Sound(queue) /\ used' = used
  BY IInvParts DEF Stored, TurnStatus, RuntimeKeeps
<1>2. \/ NothingQueued
      \/ ResumeAfterActiveSettles(live)
      \/ /\ queue.active # None /\ queue.active.id = t
         /\ Commit(r) \/ CommitAndDrain(r, live)
  BY DEF TurnStatus
<1>3. ASSUME queue.active # None, queue.active.id = t
      PROVE  /\ Sound(r) /\ Neat(r)
             /\ Ids(r) \subseteq Ids(queue)
             /\ result = "failed" => Ids(r) = Ids(queue)
             /\ Ids(queue) \ {t} \subseteq Ids(r)
  <2> DEFINE back == Failed(queue.active)
  <2>1. /\ queue \in Records /\ ~queue.terminal
        /\ queue.active \in Items
        /\ queue.items \in Seq(WaitingItems)
    BY <1>1, <1>3, ItemTypes DEF Sound, Inert, Records
  <2>2. back \in WaitingItems /\ back.id = t
    BY <1>3, <2>1, ItemTypes
  <2> HIDE DEF back
  <2>3. IdOf(queue.active) = {t}
    BY <1>3 DEF IdOf
  <2>4. Unique(queue.items) /\ t \notin IdsOf(queue.items)
    BY <2>3 DEF Whole, Neat
  <2>5. /\ <<back>> \o queue.items \in Seq(WaitingItems)
        /\ IdsOf(<<back>> \o queue.items) = IdsOf(queue.items) \cup {t}
        /\ Unique(<<back>> \o queue.items)
    BY <2>1, <2>2, <2>4, ItemsOps, AddedIds
  <2>6. Sound(r)
    BY <2>1, <2>5 DEF Settled, Sound, Records, back
  <2>7. /\ r.active = None /\ r.editing = queue.editing
        /\ r.known = queue.known
        /\ r.items = IF result = "failed" THEN <<back>> \o queue.items
                     ELSE queue.items
    BY <1>1, SoundTypes DEF Settled, Fields, back
  <2> HIDE DEF r
  <2>8. IdOf(r.active) = {}
    BY <2>7 DEF IdOf
  <2>9. Neat(queue)
    BY DEF Whole
  <2>10. CASE result = "failed"
    <3>1. Ids(r) = Ids(queue)
      BY <2>3, <2>5, <2>7, <2>8, <2>10 DEF Ids
    <3>2. Neat(r)
      BY <2>3, <2>5, <2>7, <2>8, <2>9, <2>10, <3>1 DEF Neat
    <3>. QED
      BY <2>6, <3>1, <3>2
  <2>11. CASE result # "failed"
    BY <2>3, <2>6, <2>7, <2>8, <2>9, <2>11 DEF Neat, Ids
  <2>. QED
    BY <2>10, <2>11
<1> HIDE DEF r
<1>4. CASE NothingQueued
  BY <1>1, <1>4, WholeNothingQueued
<1>5. CASE ResumeAfterActiveSettles(live)
  BY <1>1, <1>5, ResumeWhole
<1>6. CASE /\ queue.active # None /\ queue.active.id = t
           /\ Commit(r) \/ CommitAndDrain(r, live)
  <2>1. Ids(r) \subseteq used'
    BY <1>1, <1>3, <1>6 DEF Whole
  <2>2. Whole' /\ Ids(queue)' = Ids(r)
    BY <1>1, <1>3, <1>6, <2>1, WholeCommit
  <2>3. \A x \in Ids(queue) \ Ids(queue)' : x = t /\ result = "settled"
    BY <1>3, <1>6, <2>2
  <2>. QED
    BY <2>2, <2>3 DEF StaysWhole, Excused
<1>. QED
  BY <1>2, <1>4, <1>5, <1>6

LEMMA UserMessageWhole ==
  ASSUME IInv, Whole, NEW p, UserMessage(p)
  PROVE  StaysWhole
<1> DEFINE runs == [queue.active EXCEPT !.st = "running"]
           r == [queue EXCEPT !.active.st = "running"]
<1>1. Sound(queue) /\ used' = used
  BY IInvParts DEF Stored, UserMessage, RuntimeKeeps
<1>2. Commit(r) /\ queue.active # None
  BY DEF UserMessage
<1>3. runs \in ActiveItems /\ runs.id = queue.active.id /\ runs.st = "running"
  BY <1>1, <1>2, SoundTypes DEF ActiveItems, Items, Statuses
<1>4. queue \in Records /\ ~queue.terminal
  BY <1>1, <1>2 DEF Sound, Inert
<1>5. r = [queue EXCEPT !.active = runs]
  OBVIOUS
<1> HIDE DEF runs
<1>6. Sound(r)
  <2>1. ~r.terminal /\ r \in Records
    BY <1>3, <1>4, <1>5 DEF Records
  <2>. QED
    BY <2>1 DEF Sound
<1>7. /\ r.active = runs /\ r.items = queue.items
      /\ r.editing = queue.editing /\ r.known = queue.known
  BY <1>1, <1>5, SoundTypes DEF Fields
<1> HIDE DEF r
<1>8. IdOf(r.active) = IdOf(queue.active)
  BY <1>2, <1>3, <1>7, NoItemAssumption DEF IdOf, ActiveItems
<1>9. Neat(r) /\ Ids(r) = Ids(queue)
  BY <1>7, <1>8 DEF Whole, Neat, Ids
<1>. QED
  BY <1>1, <1>2, <1>6, <1>9, WholeTouch

\* An answer puts back the prompt it answers, and no other.
LEMMA AnswerWhole ==
  ASSUME IInv, Whole, NEW p \in Prompts,
         NEW outcome \in {"accepted", "failed", "busy"},
         DispatchSettles(p, outcome)
  PROVE  StaysWhole
<1> DEFINE r == Answered(queue, p, outcome)
           status == IF outcome = "busy" THEN "pending_dispatch" ELSE "failed"
           back == [New(p) EXCEPT !.st = status]
           runs == [queue.active EXCEPT !.st = "running"]
<1>1. Sound(queue) /\ used' = used
  BY IInvParts DEF Stored, DispatchSettles, RuntimeKeeps
<1>2. Neat(r) /\ Ids(r) = Ids(queue)
  <2>1. CASE queue.active = None \/ queue.active.id # p
    BY <2>1 DEF Answered, Whole
  <2>2. CASE ~(queue.active = None \/ queue.active.id # p) /\ outcome = "accepted"
    <3>1. /\ r.active = runs /\ r.items = queue.items
          /\ r.editing = queue.editing /\ r.known = queue.known
      BY <1>1, <2>2, SoundTypes DEF Answered, Fields
    <3>2. runs \in ActiveItems /\ runs.id = p
      BY <1>1, <2>2, SoundTypes DEF ActiveItems, Items, Statuses
    <3> HIDE DEF r, runs
    <3>3. IdOf(r.active) = {p} /\ IdOf(queue.active) = {p}
      BY <2>2, <3>1, <3>2, NoItemAssumption DEF IdOf, ActiveItems
    <3>. QED
      BY <3>1, <3>3 DEF Whole, Neat, Ids
  <2>3. CASE ~(queue.active = None \/ queue.active.id # p) /\ outcome # "accepted"
    <3>1. back \in WaitingItems /\ back.id = p
      BY DEF New, WaitingItems, Items, Statuses
    <3>2. r = [queue EXCEPT !.active = None, !.items = <<back>> \o @]
      BY <2>3 DEF Answered, PutBack
    <3> HIDE DEF back
    <3>3. /\ r.active = None /\ r.items = <<back>> \o queue.items
          /\ r.editing = queue.editing /\ r.known = queue.known
      BY <1>1, <3>2, SoundTypes DEF Fields
    <3> HIDE DEF r
    <3>4. IdOf(queue.active) = {p} /\ IdOf(r.active) = {}
      BY <2>3, <3>3 DEF IdOf
    <3>5. Unique(queue.items) /\ p \notin IdsOf(queue.items)
      BY <3>4 DEF Whole, Neat
    <3>6. IdsOf(r.items) = IdsOf(queue.items) \cup {p} /\ Unique(r.items)
      BY <1>1, <3>1, <3>3, <3>5, SoundTypes, AddedIds
    <3>7. Ids(r) = Ids(queue)
      BY <3>3, <3>4, <3>6 DEF Ids
    <3>. QED
      BY <3>3, <3>4, <3>6, <3>7 DEF Whole, Neat
  <2>. QED
    BY <2>1, <2>2, <2>3
<1>3. queue' = r /\ disk' \in {disk, Saved(r)}
  BY DEF DispatchSettles, NoCommit, Persist
<1> HIDE DEF r
<1>4. Neat(queue') /\ Ids(queue') = Ids(queue) /\ Ids(disk') \subseteq used'
  BY <1>1, <1>2, <1>3, SavedIds DEF Whole
<1>5. Neat(queue)' /\ Ids(queue)' = Ids(queue) /\ Ids(disk)' \subseteq used'
  BY <1>4 DEF Neat, Ids, IdOf, IdsOf, Unique
<1>. QED
  BY <1>1, <1>5 DEF StaysWhole, Whole

LEMMA RuntimeWhole ==
  ASSUME IInv, Whole, NEW l,
         SessionClosed \/ AdoptSnapshot(l) \/ ForgetLive
  PROVE  StaysWhole
<1>1. Sound(queue) /\ used' = used
  BY IInvParts DEF Stored, SessionClosed, AdoptSnapshot, ForgetLive, RuntimeKeeps
<1>2. Touch(Terminalized(queue)) \/ NothingQueued
  BY DEF SessionClosed, AdoptSnapshot, ForgetLive
<1>3. Sound(Terminalized(queue)) /\ Same(queue, Terminalized(queue))
  BY <1>1, TerminalizedRecord, TerminalizedSame DEF Whole
<1>. QED
  BY <1>1, <1>2, <1>3, WholeTouch, WholeNothingQueued DEF Same

\* A snapshot may hold an id in two places; what is restored from it does not.
LEMMA RestartWhole ==
  ASSUME IInv, Whole, Restart
  PROVE  StaysWhole
<1>1. disk \in Snapshots /\ Ids(disk) \subseteq used
  BY IInvParts DEF Stored, Whole
<1> DEFINE r == Restored(disk)
<1>2. Neat(r) /\ Ids(r) \subseteq Ids(disk)
  <2>1. CASE disk = NothingSaved
    BY <2>1, NoIds DEF Restored
  <2>2. CASE disk # NothingSaved
    <3>1. /\ r.known /\ r.active = None /\ r.editing = None
          /\ r.items = RestoredItems(disk)
      BY <2>2 DEF Restored, Record
    <3>2. Unique(RestoredItems(disk)) /\ IdsOf(RestoredItems(disk)) \subseteq Ids(disk)
      BY <1>1, RestoredItemsIds
    <3> HIDE DEF r
    <3>. QED
      BY <3>1, <3>2 DEF Neat, Ids, IdOf
  <2>. QED
    BY <2>1, <2>2
<1>3. queue' = r /\ disk' = disk /\ used' = used
  BY DEF Restart
<1> HIDE DEF r
<1>4. Neat(queue') /\ Ids(queue') \subseteq used' /\ Ids(disk') \subseteq used'
  BY <1>1, <1>2, <1>3
<1>5. Neat(queue)' /\ Ids(queue)' \subseteq used' /\ Ids(disk)' \subseteq used'
  BY <1>4 DEF Neat, Ids, IdOf, IdsOf, Unique
<1>. QED
  BY <1>5 DEF StaysWhole, Whole, Excused

LEMMA WholeStep ==
  ASSUME ~StaleEdits, IInv, Whole, [Next]_vars
  PROVE  StaysWhole
<1>1. CASE UserStep
  BY <1>1, EnqueueWhole, BeginEditWhole, CancelEditWhole, UpdateWhole,
     RemoveWhole, ClearWhole, SteerWhole, OthersWhole, DeleteWhole DEF UserStep
<1>2. CASE RuntimeStep
  BY <1>2, OthersWhole, SnapshotWhole, StatusWhole, TurnStatusWhole,
     UserMessageWhole, AnswerWhole, RuntimeWhole DEF RuntimeStep
<1>3. CASE Restart
  BY <1>3, RestartWhole
<1>4. CASE UNCHANGED vars
  <2>1. NothingQueued /\ used' = used
    BY <1>4 DEF vars, NothingQueued, NoCommit
  <2>. QED
    BY <2>1, WholeNothingQueued
<1>. QED
  BY <1>1, <1>2, <1>3, <1>4 DEF Next

LEMMA InitWhole == Init => Whole
BY NoIds DEF Init, Whole

\* In every state the ids of the queue, and of the snapshot a restart would
\* read, were given by enqueue, and the queue holds each at one place.
THEOREM QueueStaysWhole == ASSUME ~StaleEdits PROVE Spec => []Whole
<1>1. IInv /\ Whole /\ [Next]_vars => Whole'
  BY WholeStep DEF StaysWhole
<1>. QED
  BY <1>1, InitWhole, Invariant, PTL DEF Spec

\* No prompt is in two places of the queue, so none can be sent twice, in every
\* order of edits, answers, closings, restarts and retries.  The windows submit
\* the edit that the queue holds open: a stale one can break this.
THEOREM QueuedOnce == ASSUME ~StaleEdits PROVE Spec => []NoPromptTwice
<1>1. IInv /\ Whole => NoPromptTwice
  BY AllItemsIds DEF IInv, TypeOK, Whole, Unique, NoPromptTwice
<1>. QED
  BY <1>1, Invariant, QueueStaysWhole, PTL

LEMMA QueuedIdsAre ==
  ASSUME IInv
  PROVE  QueuedIds = Ids(queue)
BY AllItemsIds DEF IInv, TypeOK, QueuedIds, IdsOf

\* Only the end of its turn, the user, a new preparation of the session that
\* failed it, the session's deletion or a restart takes a prompt out of the
\* queue: nothing that the runtime answers or reports loses one.
THEOREM QueuedPromptsStay == ASSUME ~StaleEdits PROVE Spec => PromptsAreKept
<1>1. ASSUME IInv, IInv', Whole, [Next]_vars
      PROVE  [\A p \in QueuedIds \ QueuedIds' : Excused(p)]_vars
  <2>1. QueuedIds = Ids(queue)
    BY <1>1, QueuedIdsAre
  <2>2. QueuedIds' = Ids(queue)'
    <3>1. queue' \in Records
      BY <1>1 DEF IInv, TypeOK
    <3>2. IdsOf(AllItems(queue')) = Ids(queue')
      BY <3>1, AllItemsIds
    <3>. QED
      BY <3>2 DEF QueuedIds, IdsOf, Ids, IdOf, AllItems, OptSeq
  <2>3. \A p \in Ids(queue) \ Ids(queue)' : Excused(p)
    BY <1>1, WholeStep DEF StaysWhole
  <2>. QED
    BY <2>1, <2>2, <2>3
<1>2. IInv /\ IInv' /\ Whole /\ [Next]_vars =>
        [\A p \in QueuedIds \ QueuedIds' :
            \/ TurnStatus(p, "settled")
            \/ Remove(p)
            \/ Clear
            \/ queue.terminal /\ \E l \in {"idle", "busy"} : SessionSnapshot(l)
            \/ Delete
            \/ Restart]_vars
  BY <1>1 DEF Excused
<1>. QED
  BY <1>2, Invariant, QueueStaysWhole, PTL DEF Spec, PromptsAreKept
=============================================================================
