------------------------ MODULE TranscriptTailProofs ------------------------
(***************************************************************************)
(* Theorems about TranscriptTail, for any number of turns, versions,       *)
(* revisions, faults and crashes.                                          *)
(*                                                                         *)
(* TypeCorrect needs no premise: the state has its shape, whatever fails.  *)
(* DropsNothing and SealsInTurn have the premise that no recovery runs     *)
(* while the pump waits for an answer (RecoversAlone).  The code does not  *)
(* ensure it once a recovery could not read the tail, and without it TLC   *)
(* finds a dropped version with two such failures.                         *)
(*                                                                         *)
(* The lemmas come in this order: what the operators make of a tail, a     *)
(* record and a store; the types, action by action; the invariant (IInv)   *)
(* and, part by part, why a tail that changes keeps it; the events, the    *)
(* requests, recovery, crashes.  The invariant compares versions: what is  *)
(* stored is never newer than what waits or is live, what waits is in the  *)
(* order of the turns (Lined), the request under way is between them       *)
(* (Waits), and a tail that was loaded is still as it is on disk until it  *)
(* is sealed (LoadedFirst).  It compares tails, too: none on disk or in    *)
(* memory holds a status without its text (OnDisk, Whole), and a tail that *)
(* is sent and has the name of the one on disk brings its texts (Sent), so *)
(* that a seal leaves nothing of it open.  A second invariant (OpenInv)    *)
(* says where the text of the turn that runs may be, and which seals may   *)
(* be wanted meanwhile; it is proved from the first, step by step, in the  *)
(* last part.                                                              *)
(***************************************************************************)
EXTENDS TranscriptTail, FiniteSetTheorems, SequenceTheorems, TLAPS

-----------------------------------------------------------------------------
(* Shapes. *)

\* What TypeOK says of the live tail, of any value of it.
Shaped(m) ==
  /\ m \in LiveTails
  /\ m.pending \subseteq Held(m) /\ m.removed \intersect Held(m) = {}
  /\ m.started => m.id # None

\* The coordinator's record and the request it waits for.
Pumps == [q : Queues, flight : Requests \union {Spin, None}]

\* The entries are finitely many, as the turns are.
LEMMA EntriesAreFinite == IsFiniteSet(Entries)
<1>1. IsFiniteSet(Turns)
  BY FS_Interval, TranscriptBounds DEF Turns
<1>2. IsFiniteSet({"status", "text"})
  <2>1. IsFiniteSet({} \union {"status"}) /\ IsFiniteSet(({} \union {"status"}) \union {"text"})
    BY FS_EmptySet, FS_AddElement
  <2>. QED
    BY <2>1
<1>. QED
  BY <1>1, <1>2, FS_Product DEF Entries

\* The number of the entries in a set of them is a natural number, and 0
\* only if there are none.
LEMMA Counted ==
  ASSUME NEW S \in SUBSET Entries
  PROVE  Cardinality(S) \in Nat /\ (Cardinality(S) = 0 <=> S = {})
<1>1. IsFiniteSet(S)
  BY EntriesAreFinite, FS_Subset
<1>. QED
  BY <1>1, FS_CardinalityType, FS_EmptySet

\* Both entries of a turn are entries, and a turn has its names.
LEMMA EntryTypes ==
  ASSUME NEW k \in Turns
  PROVE  /\ <<k, "status">> \in Entries /\ <<k, "text">> \in Entries
         /\ StartOf(k) \in Names /\ MessageOf(k) \in Names
         /\ \A v \in 0 .. MaxVersion : LateIn(k, v) \in Names
BY TranscriptBounds DEF Entries, Names, StartOf, MessageOf, LateIn

\* No name is None, nor is a tail, a request or a recovery.
LEMMA Apart ==
  /\ None \notin Names /\ None \notin Tails /\ None \notin StoredTails
  /\ None \notin Requests /\ None \notin Recoveries
BY NoneIsApart

\* A snapshot of a live tail that has a name is a tail.
LEMMA SnapshotType ==
  ASSUME NEW m, Shaped(m), m.id # None
  PROVE  Snapshot(m) \in Tails
BY DEF Shaped, LiveTails, Snapshot, Tails

\* Each field of a live tail may be given another value of its kind.
LEMMA SetLive ==
  ASSUME NEW m \in LiveTails
  PROVE  /\ \A x \in Names \union {None} : [m EXCEPT !.id = x] \in LiveTails
         /\ \A x \in BOOLEAN : [m EXCEPT !.started = x] \in LiveTails
         /\ \A x \in BOOLEAN : [m EXCEPT !.ended = x] \in LiveTails
         /\ \A x \in Nat : [m EXCEPT !.revision = x] \in LiveTails
         /\ \A x \in Versions : [m EXCEPT !.version = x] \in LiveTails
         /\ \A x \in SUBSET Entries : [m EXCEPT !.pending = x] \in LiveTails
         /\ \A x \in SUBSET Entries : [m EXCEPT !.removed = x] \in LiveTails
         /\ \A x \in Seq(Tails) : [m EXCEPT !.closed = x] \in LiveTails
BY DEF LiveTails

\* The versions before anything is written.
LEMMA NothingYet ==
  /\ NoVersions \in Versions
  /\ Present(NoVersions) = {}
  /\ \A e \in Entries : NoVersions[e] = 0
BY TranscriptBounds DEF NoVersions, Versions, Present

\* The name of a turn that begins.
Renamed(m, id) ==
  [m EXCEPT !.id = id, !.started = TRUE, !.ended = FALSE, !.revision = @ + 1]

\* Giving the live tail another name changes its revision and nothing it holds.
LEMMA RenamedFields ==
  ASSUME NEW m \in LiveTails, NEW id \in Names
  PROVE  LET n == Renamed(m, id)
         IN  /\ n \in LiveTails
             /\ n.id = id /\ n.started /\ ~n.ended /\ n.revision = m.revision + 1
             /\ n.version = m.version /\ n.pending = m.pending
             /\ n.removed = m.removed /\ n.closed = m.closed
<1> DEFINE a == [m EXCEPT !.id = id]
           b == [a EXCEPT !.started = TRUE]
           c == [b EXCEPT !.ended = FALSE]
           d == [c EXCEPT !.revision = m.revision + 1]
<1>1. d = Renamed(m, id)
  BY DEF LiveTails, Renamed
<1>2. a \in LiveTails
  BY SetLive
<1>3. b \in LiveTails
  BY <1>2, SetLive
<1>4. c \in LiveTails
  BY <1>3, SetLive
<1>5. m.revision + 1 \in Nat
  BY DEF LiveTails
<1>6. d \in LiveTails
  BY <1>4, <1>5, SetLive
<1>7. /\ d.id = id /\ d.started /\ ~d.ended /\ d.revision = m.revision + 1
      /\ d.version = m.version /\ d.pending = m.pending
      /\ d.removed = m.removed /\ d.closed = m.closed
  BY DEF LiveTails
<1>. QED
  BY <1>1, <1>6, <1>7

\* A live tail that gave its entries away.
LEMMA EmptiedFields ==
  ASSUME NEW m \in LiveTails
  PROVE  LET n == Emptied(m)
         IN  /\ n \in LiveTails
             /\ n.id = m.id /\ n.started = m.started /\ n.ended = m.ended
             /\ n.revision = m.revision /\ n.closed = m.closed
             /\ n.version = NoVersions /\ n.pending = {} /\ n.removed = {}
<1> DEFINE a == [m EXCEPT !.version = NoVersions]
           b == [a EXCEPT !.pending = {}]
           c == [b EXCEPT !.removed = {}]
<1>1. c = Emptied(m)
  BY DEF LiveTails, Emptied
<1>2. a \in LiveTails
  BY SetLive, NothingYet
<1>3. b \in LiveTails
  BY <1>2, SetLive
<1>4. c \in LiveTails
  BY <1>3, SetLive
<1>5. /\ c.id = m.id /\ c.started = m.started /\ c.ended = m.ended
      /\ c.revision = m.revision /\ c.closed = m.closed
      /\ c.version = NoVersions /\ c.pending = {} /\ c.removed = {}
  BY DEF LiveTails
<1>. QED
  BY <1>1, <1>4, <1>5

\* A turn that begins leaves the tail as it was, or renames it, or puts an
\* ended turn behind those that wait to be sealed.
LEMMA BegunFields ==
  ASSUME NEW m, Shaped(m), NEW id \in Names
  PROVE  /\ Shaped(Begun(m, id))
         /\ \/ Begun(m, id) = m
            \/ Begun(m, id) = Renamed(m, id)
            \/ LET n == Begun(m, id)
               IN  /\ m.id # None /\ m.ended /\ Held(m) # {}
                   /\ n.id = id /\ n.started /\ ~n.ended /\ n.revision = m.revision + 1
                   /\ n.version = NoVersions /\ n.pending = {} /\ n.removed = {}
                   /\ n.closed = Append(m.closed, Snapshot(m))
         /\ m.id # id /\ ~m.ended => Begun(m, id) \in {m, Renamed(m, id)}
<1> DEFINE holds == m.started /\ Held(m) # {}
           room == [Emptied(m) EXCEPT !.closed = Append(@, Snapshot(m))]
<1>1. m \in LiveTails /\ (m.started => m.id # None)
  BY DEF Shaped
<1>2. Begun(m, id) = IF m.id = id \/ (holds /\ ~m.ended) THEN m
                     ELSE Renamed(IF holds THEN room ELSE m, id)
  BY DEF Begun, Renamed
<1>3. Renamed(m, id) \in LiveTails /\ Shaped(Renamed(m, id))
  BY <1>1, RenamedFields, Apart DEF Shaped, Held
<1>4. ASSUME holds
      PROVE  LET n == Renamed(room, id)
             IN  /\ Shaped(n)
                 /\ n.id = id /\ n.started /\ ~n.ended /\ n.revision = m.revision + 1
                 /\ n.version = NoVersions /\ n.pending = {} /\ n.removed = {}
                 /\ n.closed = Append(m.closed, Snapshot(m))
  <2>1. Snapshot(m) \in Tails
    BY <1>1, <1>4, SnapshotType DEF Shaped
  <2> DEFINE x == Append(m.closed, Snapshot(m))
  <2>2. x \in Seq(Tails)
    BY <1>1, <2>1 DEF LiveTails
  <2>3. /\ Emptied(m) \in LiveTails /\ Emptied(m).closed = m.closed
        /\ Emptied(m).version = NoVersions /\ Emptied(m).pending = {}
        /\ Emptied(m).removed = {} /\ Emptied(m).revision = m.revision
    BY <1>1, EmptiedFields
  <2>4. room = [Emptied(m) EXCEPT !.closed = x]
    BY <2>3 DEF LiveTails
  <2> HIDE DEF x
  <2>5. room \in LiveTails
    BY <2>2, <2>3, <2>4, SetLive
  <2>6. /\ room.closed = x /\ room.version = NoVersions /\ room.pending = {}
        /\ room.removed = {} /\ room.revision = m.revision
    BY <2>3, <2>4 DEF LiveTails
  <2> HIDE DEF room
  <2>7. LET n == Renamed(room, id)
        IN  /\ n \in LiveTails
            /\ n.id = id /\ n.started /\ ~n.ended /\ n.revision = m.revision + 1
            /\ n.version = NoVersions /\ n.pending = {} /\ n.removed = {}
            /\ n.closed = x
    BY <2>5, <2>6, RenamedFields
  <2>8. Shaped(Renamed(room, id))
    BY <2>7, NothingYet, Apart DEF Shaped, Held
  <2>. QED
    BY <2>7, <2>8 DEF x
<1>5. CASE m.id = id \/ (holds /\ ~m.ended)
  BY <1>2, <1>5
<1>6. CASE ~(m.id = id \/ (holds /\ ~m.ended)) /\ ~holds
  BY <1>2, <1>3, <1>6
<1>7. CASE ~(m.id = id \/ (holds /\ ~m.ended)) /\ holds
  <2>1. m.ended /\ m.id # None
    BY <1>1, <1>7 DEF LiveTails
  <2>2. Begun(m, id) = Renamed(room, id)
    BY <1>2, <1>7
  <2>. QED
    BY <1>4, <1>7, <2>1, <2>2
<1>. QED
  BY <1>5, <1>6, <1>7

\* An entry that comes when no turn is open opens one.
LEMMA ProvisionalFields ==
  ASSUME NEW m, Shaped(m), NEW id \in Names
  PROVE  /\ Shaped(Provisional(m, id))
         /\ Provisional(m, id) \in {m, Renamed(m, id)}
<1>1. Shaped(Renamed(m, id))
  BY RenamedFields, Apart DEF Shaped, Held
<1>2. Provisional(m, id) = IF m.started THEN m ELSE Renamed(m, id)
  BY DEF Provisional, Renamed
<1>. QED
  BY <1>1, <1>2

\* What is upserted stays to be written, and the revision tells.
LEMMA UpsertedFields ==
  ASSUME NEW m, Shaped(m), NEW e \in Entries, NEW v \in 1 .. MaxVersion
  PROVE  LET n == Upserted(m, e, v)
         IN  /\ Shaped(n)
             /\ n.id = m.id /\ n.started = m.started /\ n.ended = m.ended
             /\ n.closed = m.closed
             /\ n.version = [m.version EXCEPT ![e] = Larger(@, v)]
             /\ n.pending \subseteq m.pending \union {e}
             /\ m.pending \subseteq n.pending
             /\ n.version[e] = m.version[e] \/ e \in n.pending
             /\ n.removed = m.removed \ {e}
             /\ n.revision >= m.revision
             /\ n.revision = m.revision => n.version = m.version
<1> DEFINE w == [m.version EXCEPT ![e] = v]
           r == m.removed \ {e}
           p == m.pending \union {e}
<1>1. /\ m \in LiveTails /\ m.version \in Versions /\ m.revision \in Nat
      /\ m.pending \in SUBSET Entries /\ m.removed \in SUBSET Entries
      /\ m.pending \subseteq Held(m) /\ m.removed \intersect Held(m) = {}
      /\ (m.started => m.id # None)
  BY DEF Shaped, LiveTails
<1>2. w \in Versions /\ r \in SUBSET Entries /\ p \in SUBSET Entries
  BY <1>1, TranscriptBounds DEF Versions
<1>3. CASE m.version[e] >= v
  <2> DEFINE n == [m EXCEPT !.removed = r]
  <2>1. Upserted(m, e, v) = n
    BY <1>1, <1>3 DEF Upserted, LiveTails
  <2>2. n \in LiveTails
    BY <1>1, <1>2, SetLive
  <2>3. /\ n.id = m.id /\ n.started = m.started /\ n.ended = m.ended
        /\ n.closed = m.closed /\ n.version = m.version /\ n.pending = m.pending
        /\ n.removed = r /\ n.revision = m.revision
    BY <1>1 DEF LiveTails
  <2>4. m.version = [m.version EXCEPT ![e] = Larger(@, v)]
    BY <1>1, <1>3 DEF Larger, Versions
  <2> HIDE DEF n
  <2>5. Shaped(n)
    BY <1>1, <2>2, <2>3 DEF Shaped, Held
  <2>. QED
    BY <1>1, <2>1, <2>3, <2>4, <2>5
<1>4. CASE ~(m.version[e] >= v)
  <2> DEFINE a == [m EXCEPT !.version = w]
             b == [a EXCEPT !.pending = p]
             c == [b EXCEPT !.removed = r]
             n == [c EXCEPT !.revision = m.revision + 1]
  <2>1. Upserted(m, e, v) = n
    BY <1>1, <1>4 DEF Upserted, LiveTails
  <2>2. n \in LiveTails
    <3>1. a \in LiveTails
      BY <1>1, <1>2, SetLive
    <3>2. b \in LiveTails
      BY <1>2, <3>1, SetLive
    <3>3. c \in LiveTails
      BY <1>2, <3>2, SetLive
    <3>4. m.revision + 1 \in Nat
      BY <1>1
    <3>. QED
      BY <3>3, <3>4, SetLive
  <2>3. /\ n.id = m.id /\ n.started = m.started /\ n.ended = m.ended
        /\ n.closed = m.closed /\ n.version = w /\ n.pending = p
        /\ n.removed = r /\ n.revision = m.revision + 1
    BY <1>1 DEF LiveTails
  <2>4. w = [m.version EXCEPT ![e] = Larger(@, v)]
    BY <1>1, <1>4 DEF Larger, Versions
  <2> HIDE DEF n
  <2>5. Present(w) = Held(m) \union {e}
    BY <1>1, <1>4 DEF Present, Held, Versions
  <2>6. Shaped(n)
    BY <1>1, <2>2, <2>3, <2>5 DEF Shaped, Held
  <2>. QED
    BY <1>1, <2>1, <2>3, <2>4, <2>6
<1>. QED
  BY <1>3, <1>4

\* What is removed is in the tail no more.
LEMMA RemovedFields ==
  ASSUME NEW m, Shaped(m), NEW S
  PROVE  LET n == Removed(m, S)
         IN  /\ Shaped(n)
             /\ n.id = m.id /\ n.started = m.started /\ n.ended = m.ended
             /\ n.closed = m.closed
             /\ n.version = [e \in Entries |-> IF e \in S THEN 0 ELSE m.version[e]]
             /\ n.pending = m.pending \ S
             /\ n.removed = m.removed \union (S \intersect Held(m))
             /\ n.revision >= m.revision
             /\ n.revision = m.revision => S \intersect Held(m) = {}
<1> DEFINE gone == S \intersect Held(m)
           w == [e \in Entries |-> IF e \in gone THEN 0 ELSE m.version[e]]
           p == m.pending \ gone
           r == m.removed \union gone
           k == m.revision + Cardinality(gone)
<1>1. /\ m \in LiveTails /\ m.version \in Versions /\ m.revision \in Nat
      /\ m.pending \in SUBSET Entries /\ m.removed \in SUBSET Entries
      /\ m.pending \subseteq Held(m) /\ m.removed \intersect Held(m) = {}
      /\ (m.started => m.id # None)
  BY DEF Shaped, LiveTails
<1>2. gone \in SUBSET Entries
  BY DEF Held, Present
<1>3. Cardinality(gone) \in Nat /\ (Cardinality(gone) = 0 <=> gone = {})
  BY <1>2, Counted
<1>4. w \in Versions /\ p \in SUBSET Entries /\ r \in SUBSET Entries /\ k \in Nat
  <2>1. w \in Versions
    BY <1>1, TranscriptBounds DEF Versions
  <2>2. k \in Nat
    BY <1>1, <1>3
  <2>. QED
    BY <1>1, <1>2, <2>1, <2>2
<1> DEFINE a == [m EXCEPT !.version = w]
           b == [a EXCEPT !.pending = p]
           c == [b EXCEPT !.removed = r]
           n == [c EXCEPT !.revision = k]
<1>5. Removed(m, S) = n
  BY <1>1 DEF Removed, LiveTails
<1>6. n \in LiveTails
  <2> HIDE DEF gone, w, p, r, k
  <2>1. a \in LiveTails
    BY <1>1, <1>4, SetLive
  <2>2. b \in LiveTails
    BY <1>4, <2>1, SetLive
  <2>3. c \in LiveTails
    BY <1>4, <2>2, SetLive
  <2>. QED
    BY <1>4, <2>3, SetLive
<1>7. /\ n.id = m.id /\ n.started = m.started /\ n.ended = m.ended
      /\ n.closed = m.closed /\ n.version = w /\ n.pending = p
      /\ n.removed = r /\ n.revision = k
  <2> HIDE DEF gone, w, p, r, k
  <2>. QED
    BY <1>1 DEF LiveTails
<1> HIDE DEF n
<1>8. w = [e \in Entries |-> IF e \in S THEN 0 ELSE m.version[e]]
  BY <1>1 DEF Held, Present, Versions
<1>9. p = m.pending \ S
  BY <1>1
<1>10. Present(w) = Held(m) \ gone
  BY <1>1 DEF Present, Held, Versions
<1>11. Shaped(n)
  BY <1>1, <1>6, <1>7, <1>10 DEF Shaped, Held
<1>12. k >= m.revision /\ (k = m.revision => gone = {})
  BY <1>1, <1>3
<1>. QED
  BY <1>5, <1>7, <1>8, <1>9, <1>11, <1>12

\* The end of a turn names the tail anew.
LEMMA EndedFields ==
  ASSUME NEW m, Shaped(m), NEW id \in Names
  PROVE  LET n == Ended(m, id)
         IN  /\ Shaped(n)
             /\ n.id = id /\ n.ended /\ n.started = m.started
             /\ n.version = m.version /\ n.pending = m.pending
             /\ n.removed = m.removed /\ n.closed = m.closed
<1> DEFINE k == IF m.ended THEN m.revision ELSE m.revision + 1
           a == [m EXCEPT !.id = id]
           b == [a EXCEPT !.ended = TRUE]
           n == [b EXCEPT !.revision = k]
<1>1. m \in LiveTails /\ k \in Nat
  BY DEF Shaped, LiveTails
<1>2. Ended(m, id) = n
  BY <1>1 DEF Ended, LiveTails
<1>3. a \in LiveTails
  BY <1>1, SetLive
<1>4. b \in LiveTails
  BY <1>3, SetLive
<1>5. n \in LiveTails
  BY <1>1, <1>4, SetLive
<1>6. /\ n.id = id /\ n.ended /\ n.started = m.started
      /\ n.version = m.version /\ n.pending = m.pending
      /\ n.removed = m.removed /\ n.closed = m.closed
  BY <1>1 DEF LiveTails
<1> HIDE DEF n
<1>7. Shaped(n)
  BY <1>5, <1>6, Apart DEF Shaped, Held
<1>. QED
  BY <1>2, <1>6, <1>7

\* The answer to a checkpoint: what was written in the version the tail holds
\* waits no more.
LEMMA AcknowledgedFields ==
  ASSUME NEW m, Shaped(m), NEW w, NEW P, NEW R
  PROVE  LET n == Acknowledged(m, w, P, R)
         IN  /\ Shaped(n)
             /\ n.id = m.id /\ n.started = m.started /\ n.ended = m.ended
             /\ n.revision = m.revision /\ n.version = m.version
             /\ n.closed = m.closed
             /\ n.pending = m.pending \ {e \in P : m.version[e] = w[e]}
             /\ n.removed \subseteq m.removed
<1> DEFINE p == m.pending \ {e \in P : m.version[e] = w[e]}
           r == m.removed \ (R \ Held(m))
           a == [m EXCEPT !.pending = p]
           n == [a EXCEPT !.removed = r]
<1>1. /\ m \in LiveTails /\ m.pending \in SUBSET Entries /\ m.removed \in SUBSET Entries
      /\ m.pending \subseteq Held(m) /\ m.removed \intersect Held(m) = {}
      /\ (m.started => m.id # None)
  BY DEF Shaped, LiveTails
<1>2. p \in SUBSET Entries /\ r \in SUBSET Entries /\ p \subseteq m.pending /\ r \subseteq m.removed
  BY <1>1
<1>3. Acknowledged(m, w, P, R) = n
  BY <1>1 DEF Acknowledged, LiveTails
<1> HIDE DEF p, r
<1>4. a \in LiveTails
  BY <1>1, <1>2, SetLive
<1>5. n \in LiveTails
  BY <1>2, <1>4, SetLive
<1>6. /\ n.id = m.id /\ n.started = m.started /\ n.ended = m.ended
      /\ n.revision = m.revision /\ n.version = m.version
      /\ n.closed = m.closed /\ n.pending = p /\ n.removed = r
  BY <1>1 DEF LiveTails
<1> HIDE DEF n
<1>7. Shaped(n)
  BY <1>1, <1>2, <1>5, <1>6 DEF Shaped, Held
<1>. QED
  BY <1>2, <1>3, <1>6, <1>7 DEF p

\* A tail that was sealed is empty and has no name.
LEMMA ClearedFields ==
  ASSUME NEW m, Shaped(m)
  PROVE  LET n == Cleared(m)
         IN  /\ Shaped(n)
             /\ n.id = None /\ ~n.started /\ ~n.ended /\ n.closed = m.closed
             /\ n.version = NoVersions /\ n.pending = {} /\ n.removed = {}
<1> DEFINE a == [Emptied(m) EXCEPT !.id = None]
           b == [a EXCEPT !.started = FALSE]
           c == [b EXCEPT !.ended = FALSE]
           n == [c EXCEPT !.revision = m.revision + 1]
<1>1. m \in LiveTails /\ m.revision + 1 \in Nat
  BY DEF Shaped, LiveTails
<1>2. /\ Emptied(m) \in LiveTails
      /\ Emptied(m).revision = m.revision /\ Emptied(m).closed = m.closed
      /\ Emptied(m).version = NoVersions /\ Emptied(m).pending = {}
      /\ Emptied(m).removed = {}
  BY <1>1, EmptiedFields
<1>3. Cleared(m) = n
  BY <1>2 DEF Cleared, LiveTails
<1>4. a \in LiveTails
  BY <1>2, SetLive
<1>5. b \in LiveTails
  BY <1>4, SetLive
<1>6. c \in LiveTails
  BY <1>5, SetLive
<1>7. n \in LiveTails
  BY <1>1, <1>6, SetLive
<1>8. /\ n.id = None /\ ~n.started /\ ~n.ended /\ n.closed = m.closed
      /\ n.version = NoVersions /\ n.pending = {} /\ n.removed = {}
  BY <1>2 DEF LiveTails
<1> HIDE DEF n
<1>9. Shaped(n)
  BY <1>7, <1>8, NothingYet DEF Shaped, Held
<1>. QED
  BY <1>3, <1>8, <1>9

\* A tail that was read from the disk, with what the live one has newer: the
\* revision is the one on disk only if the versions are.
LEMMA RestoredFields ==
  ASSUME NEW m, Shaped(m), NEW tail \in Tails
  PROVE  LET n == Restored(m, tail)
         IN  /\ Shaped(n)
             /\ n.id = tail.id /\ n.closed = << >>
             /\ n.started = (Present(tail.version) # {})
             /\ n.ended = (m.ended \/ tail.ended)
             /\ n.version = [e \in Entries |->
                  IF e \in m.removed THEN 0 ELSE Larger(m.version[e], tail.version[e])]
             /\ n.pending = Held(n)
             /\ n.removed \subseteq m.removed
             /\ n.revision >= tail.revision
             /\ n.revision = tail.revision => n.version = tail.version
<1> DEFINE newer == {e \in Entries : m.version[e] > tail.version[e]}
           k == Larger(m.revision, tail.revision) + Cardinality(newer)
                  + (IF m.ended /\ ~tail.ended THEN 1 ELSE 0)
           w == [e \in Entries |-> Larger(m.version[e], tail.version[e])]
           p == Present(tail.version) \union Held(m)
           s == Present(tail.version) # {}
           f == m.ended \/ tail.ended
<1>1. /\ m \in LiveTails /\ m.version \in Versions /\ m.revision \in Nat
      /\ m.ended \in BOOLEAN /\ m.removed \in SUBSET Entries
      /\ m.removed \intersect Held(m) = {}
  BY DEF Shaped, LiveTails
<1>2. /\ tail.id \in Names /\ tail.ended \in BOOLEAN /\ tail.revision \in Nat
      /\ tail.version \in Versions
  BY DEF Tails
<1>3. Cardinality(newer) \in Nat /\ (Cardinality(newer) = 0 <=> newer = {})
  BY Counted
<1>4. k \in Nat /\ k >= tail.revision /\ (k = tail.revision => newer = {})
  BY <1>1, <1>2, <1>3 DEF Larger
<1>5. w \in Versions
  BY <1>1, <1>2 DEF Versions, Larger
<1>6. p \in SUBSET Entries /\ s \in BOOLEAN /\ f \in BOOLEAN
  BY <1>1, <1>2 DEF Present, Held
<1>7. Present(w) = p
  BY <1>1, <1>2 DEF Present, Held, Larger, Versions
<1>8. newer = {} => w = tail.version
  BY <1>1, <1>2 DEF Larger, Versions
<1>9. w = [e \in Entries |-> Larger(m.version[e], tail.version[e])]
  OBVIOUS
<1> DEFINE a1 == [m EXCEPT !.id = tail.id]
           a2 == [a1 EXCEPT !.started = s]
           a3 == [a2 EXCEPT !.ended = f]
           a4 == [a3 EXCEPT !.revision = k]
           a5 == [a4 EXCEPT !.version = w]
           a6 == [a5 EXCEPT !.pending = p]
           a7 == [a6 EXCEPT !.removed = {}]
           n == [a7 EXCEPT !.closed = << >>]
<1>10. Restored(m, tail) = Removed(n, m.removed)
  BY <1>1 DEF Restored, LiveTails
<1> HIDE DEF k, w, p, s, f, newer
<1>11. n \in LiveTails
  <2>1. a1 \in LiveTails
    BY <1>1, <1>2, SetLive
  <2>2. a2 \in LiveTails
    BY <1>6, <2>1, SetLive
  <2>3. a3 \in LiveTails
    BY <1>6, <2>2, SetLive
  <2>4. a4 \in LiveTails
    BY <1>4, <2>3, SetLive
  <2>5. a5 \in LiveTails
    BY <1>5, <2>4, SetLive
  <2>6. a6 \in LiveTails
    BY <1>6, <2>5, SetLive
  <2>7. a7 \in LiveTails
    BY <2>6, SetLive
  <2>8. << >> \in Seq(Tails)
    OBVIOUS
  <2>. QED
    BY <2>7, <2>8, SetLive
<1>12. /\ n.id = tail.id /\ n.closed = << >> /\ n.version = w /\ n.pending = p
       /\ n.removed = {} /\ n.revision = k
  BY <1>1 DEF LiveTails
<1>13. n.started = s /\ n.ended = f
  BY <1>1 DEF LiveTails
<1> HIDE DEF n
<1>14. Held(n) = p
  BY <1>7, <1>12 DEF Held
<1>15. Shaped(n)
  BY <1>2, <1>11, <1>12, <1>14, Apart DEF Shaped
<1> DEFINE r == Removed(n, m.removed)
<1>16. /\ Shaped(r)
       /\ r.id = n.id /\ r.started = n.started /\ r.ended = n.ended
       /\ r.closed = n.closed
       /\ r.version = [e \in Entries |-> IF e \in m.removed THEN 0 ELSE n.version[e]]
       /\ r.pending = n.pending \ m.removed
       /\ r.removed = n.removed \union (m.removed \intersect Held(n))
       /\ r.revision >= n.revision
       /\ r.revision = n.revision => m.removed \intersect Held(n) = {}
  BY <1>15, RemovedFields
<1> HIDE DEF r
<1>17. r.version = [e \in Entries |->
          IF e \in m.removed THEN 0 ELSE Larger(m.version[e], tail.version[e])]
  BY <1>9, <1>12, <1>16
<1>18. r.pending = Held(r)
  <2>1. Held(r) = p \ m.removed
    BY <1>7, <1>12, <1>16 DEF Held, Present
  <2>. QED
    BY <1>12, <1>16, <2>1
<1>19. r.revision \in Nat
  BY <1>16 DEF Shaped, LiveTails
<1>20. r.revision >= tail.revision
  BY <1>2, <1>4, <1>12, <1>16, <1>19
<1>21. ASSUME r.revision = tail.revision PROVE r.version = tail.version
  <2>1. k = tail.revision /\ r.revision = n.revision
    BY <1>2, <1>4, <1>12, <1>16, <1>19, <1>21
  <2>2. w = tail.version
    BY <1>4, <1>8, <2>1
  <2>3. m.removed \intersect p = {}
    BY <1>14, <1>16, <2>1
  <2>4. \A e \in m.removed : w[e] = 0
    BY <1>1, <1>5, <1>7, <2>3 DEF Present, Versions
  <2>5. r.version = w
    BY <1>5, <1>12, <1>16, <2>4 DEF Versions
  <2>. QED
    BY <2>2, <2>5
<1>22. r.started = (Present(tail.version) # {}) /\ r.ended = (m.ended \/ tail.ended)
  BY <1>13, <1>16 DEF s, f
<1>23. Restored(m, tail) = r
  BY <1>10 DEF r
<1>24. r.removed \subseteq m.removed /\ r.id = tail.id /\ r.closed = << >>
  BY <1>12, <1>16
<1>. QED
  BY <1>16, <1>17, <1>18, <1>20, <1>21, <1>22, <1>23, <1>24

-----------------------------------------------------------------------------
(* The coordinator: what a pass may wait for, and what it leaves alone. *)

\* Each field of the coordinator's record may be given another value.
LEMMA SetQueue ==
  ASSUME NEW q \in Queues
  PROVE  /\ \A x \in Nat : [q EXCEPT !.saved = x] \in Queues
         /\ \A x \in BOOLEAN : [q EXCEPT !.due = x] \in Queues
         /\ \A x \in BOOLEAN : [q EXCEPT !.timer = x] \in Queues
         /\ \A x \in BOOLEAN : [q EXCEPT !.retry = x] \in Queues
         /\ \A x \in BOOLEAN : [q EXCEPT !.recovering = x] \in Queues
         /\ \A x \in Tails \union {None} : [q EXCEPT !.interrupted = x] \in Queues
         /\ \A x \in Tails \union {None} : [q EXCEPT !.terminal = x] \in Queues
         /\ \A x \in BOOLEAN : [q EXCEPT !.sealing = x] \in Queues
         /\ \A x \in Names \union {None} : [q EXCEPT !.sealId = x] \in Queues
BY DEF Queues

\* What the coordinator does on its own to its record: it keeps the tails
\* that go first, and gives up the seal that is wanted or leaves it.
Eased(q, r) ==
  /\ r \in Queues
  /\ r.recovering = q.recovering
  /\ r.interrupted = q.interrupted
  /\ r.terminal = q.terminal
  /\ r.sealing => q.sealing
  /\ r.sealId = q.sealId \/ (r.sealId = None /\ ~r.sealing)

\* The request by which a pass over the tail m begins: the loaded tails go
\* first, then the turns that ended, then the live tail.
Begins(m, q, g) ==
  \/ g = None
  \/ g = Spin
  \/ /\ g \in Requests
     /\ \/ g.at = "reconcile" /\ q.terminal # None /\ g.tail = q.terminal
        \/ /\ g.at = "displaced" /\ q.interrupted # None /\ q.terminal = None
           /\ g.tail = q.interrupted
        \/ /\ g.at = "closing" /\ q.terminal = None /\ q.interrupted = None
           /\ m.closed # << >> /\ g.tail = Head(m.closed)
           /\ g.pending = Present(g.tail.version) /\ g.removed = {}
        \/ /\ g.at \in {"checkpoint", "seal"} /\ q.terminal = None /\ q.interrupted = None
           /\ m.closed = << >> /\ m.id # None
           /\ g.tail.id = m.id /\ g.tail.revision = m.revision
           /\ g.tail.version = m.version
           /\ g.at = "checkpoint" =>
                /\ Held(m) # {} \/ m.removed # {}
                /\ g.pending = m.pending /\ g.removed = m.removed
                /\ g.tail.ended => m.ended \/ (q.sealing /\ q.sealId = m.id)
           /\ g.at = "seal" =>
                /\ Held(m) # {} /\ g.tail.ended = m.ended
                /\ q.sealing /\ q.sealId = m.id

\* A record that changed only in these ways is eased.
LEMMA Easings ==
  ASSUME NEW q \in Queues
  PROVE  /\ Eased(q, q)
         /\ Eased(q, [q EXCEPT !.sealing = FALSE, !.sealId = None])
         /\ \A x \in Nat : Eased(q, [q EXCEPT !.saved = x, !.sealing = FALSE])
         /\ \A x \in Nat : Eased(q, [q EXCEPT !.saved = x])
         /\ \A x \in BOOLEAN : Eased(q, [q EXCEPT !.sealing = @ /\ x])
         /\ Eased(q, [q EXCEPT !.due = FALSE])
         /\ Eased(q, MadeDue(q))
         /\ \A x \in BOOLEAN : Eased(q, [q EXCEPT !.timer = x])
         /\ Eased(q, [q EXCEPT !.retry = FALSE, !.due = TRUE])
         /\ Eased(q, Failed(q))
         /\ \A id : Eased(q, SealServed(q, id))
<1> USE SetQueue
<1>1. Eased(q, [q EXCEPT !.sealing = FALSE, !.sealId = None])
  <2>1. [q EXCEPT !.sealing = FALSE] \in Queues
    OBVIOUS
  <2>2. [[q EXCEPT !.sealing = FALSE] EXCEPT !.sealId = None] \in Queues
    BY <2>1
  <2>. QED
    BY <2>2 DEF Eased, Queues
<1>2. ASSUME NEW x \in Nat
      PROVE  /\ Eased(q, [q EXCEPT !.saved = x, !.sealing = FALSE])
             /\ Eased(q, [q EXCEPT !.saved = x])
  <2>1. [q EXCEPT !.saved = x] \in Queues
    OBVIOUS
  <2>2. [[q EXCEPT !.saved = x] EXCEPT !.sealing = FALSE] \in Queues
    BY <2>1
  <2>. QED
    BY <2>1, <2>2 DEF Eased, Queues
<1>3. ASSUME NEW x \in BOOLEAN PROVE Eased(q, [q EXCEPT !.sealing = @ /\ x])
  <2>1. q.sealing \in BOOLEAN
    BY DEF Queues
  <2>2. (q.sealing /\ x) \in BOOLEAN
    BY <2>1
  <2>3. [q EXCEPT !.sealing = q.sealing /\ x] \in Queues
    BY <2>2
  <2>. QED
    BY <2>3 DEF Eased, Queues
<1>4. Eased(q, [q EXCEPT !.due = FALSE])
  <2>1. [q EXCEPT !.due = FALSE] \in Queues
    OBVIOUS
  <2>. QED
    BY <2>1 DEF Eased, Queues
<1>5. Eased(q, MadeDue(q))
  <2>1. [q EXCEPT !.due = TRUE] \in Queues
    OBVIOUS
  <2>2. [[q EXCEPT !.due = TRUE] EXCEPT !.timer = FALSE] \in Queues
    BY <2>1
  <2>. QED
    BY <2>2 DEF Eased, Queues, MadeDue
<1>6. ASSUME NEW x \in BOOLEAN PROVE Eased(q, [q EXCEPT !.timer = x])
  <2>1. [q EXCEPT !.timer = x] \in Queues
    OBVIOUS
  <2>. QED
    BY <2>1 DEF Eased, Queues
<1>7. Eased(q, [q EXCEPT !.retry = FALSE, !.due = TRUE])
  <2>1. [q EXCEPT !.retry = FALSE] \in Queues
    OBVIOUS
  <2>2. [[q EXCEPT !.retry = FALSE] EXCEPT !.due = TRUE] \in Queues
    BY <2>1
  <2>. QED
    BY <2>2 DEF Eased, Queues
<1>8. Eased(q, Failed(q))
  <2>1. [q EXCEPT !.due = TRUE] \in Queues
    OBVIOUS
  <2>2. [[q EXCEPT !.due = TRUE] EXCEPT !.retry = TRUE] \in Queues
    BY <2>1
  <2>. QED
    BY <2>2 DEF Eased, Queues, Failed
<1>9. Eased(q, q)
  BY DEF Eased
<1>. QED
  BY <1>1, <1>2, <1>3, <1>4, <1>5, <1>6, <1>7, <1>8, <1>9 DEF SealServed

\* Easing twice is easing, and what begins after it would have begun before.
LEMMA EasedTwice ==
  ASSUME NEW q \in Queues, NEW r, NEW s, Eased(q, r)
  PROVE  /\ Eased(r, s) => Eased(q, s)
         /\ \A m, g : m.id # None /\ Begins(m, r, g) => Begins(m, q, g)
BY DEF Eased, Begins

\* No request is Spin, which waits for nothing.
LEMMA SpinIsApart == Spin \notin Requests
BY DEF Spin, Flight, Requests

\* The requests a pass may begin are requests.
LEMMA BegunRequests ==
  ASSUME NEW m, Shaped(m), NEW q \in Queues
  PROVE  /\ q.terminal # None => Flight("reconcile", q.terminal, {}, {}) \in Requests
         /\ q.interrupted # None => Flight("displaced", q.interrupted, {}, {}) \in Requests
         /\ m.closed # << >> =>
              /\ Head(m.closed) \in Tails
              /\ Flight("closing", Head(m.closed), Present(Head(m.closed).version), {})
                   \in Requests
         /\ m.id # None =>
              /\ CheckpointTail(m, q) \in Tails
              /\ Flight("checkpoint", CheckpointTail(m, q), m.pending, m.removed) \in Requests
              /\ Flight("seal", Snapshot(m), {}, {}) \in Requests
<1>1. q.terminal \in Tails \union {None} /\ q.interrupted \in Tails \union {None}
  BY DEF Queues
<1>2. m.closed \in Seq(Tails) /\ m.pending \in SUBSET Entries /\ m.removed \in SUBSET Entries
  BY DEF Shaped, LiveTails
<1>3. m.closed # << >> => Head(m.closed) \in Tails
  BY <1>2
<1>4. ASSUME m.id # None PROVE CheckpointTail(m, q) \in Tails
  <2>1. Snapshot(m) \in Tails
    BY <1>4, SnapshotType
  <2>2. \A x \in BOOLEAN : [Snapshot(m) EXCEPT !.ended = x] \in Tails
    BY <2>1 DEF Tails
  <2>3. Snapshot(m).ended \in BOOLEAN
    BY <2>1 DEF Tails
  <2> DEFINE x == Snapshot(m).ended \/ (q.sealing /\ q.sealId = m.id)
  <2>4. x \in BOOLEAN
    BY <2>3
  <2>5. CheckpointTail(m, q) = [Snapshot(m) EXCEPT !.ended = x]
    BY DEF CheckpointTail
  <2>. QED
    BY <2>2, <2>4, <2>5
<1>5. \A t \in Tails : Present(t.version) \in SUBSET Entries
  BY DEF Present
<1>6. m.id # None => Snapshot(m) \in Tails
  BY SnapshotType
<1>. QED
  BY <1>1, <1>2, <1>3, <1>4, <1>5, <1>6 DEF Flight, Requests

\* What a pass makes of the live tail.
LEMMA LivePartRel ==
  ASSUME NEW m, Shaped(m), NEW q \in Queues,
         q.terminal = None, q.interrupted = None, m.closed = << >>
  PROVE  LET p == LivePart(m, q)
         IN  p \in Pumps /\ Eased(q, p.q) /\ Begins(m, q, p.flight)
<1>1. CASE m.id = None \/ (Held(m) = {} /\ m.removed = {})
  <2> DEFINE r == [q EXCEPT !.saved = Larger(@, m.revision), !.sealing = FALSE]
  <2>1. Larger(q.saved, m.revision) \in Nat
    BY DEF Shaped, LiveTails, Queues, Larger
  <2>2. Eased(q, r)
    BY <2>1, Easings
  <2> HIDE DEF r
  <2>3. LivePart(m, q) = [q |-> r, flight |-> None]
    BY <1>1 DEF LivePart, r
  <2>. QED
    BY <2>2, <2>3 DEF Pumps, Eased, Begins
<1>2. CASE m.id # None /\ ~(Held(m) = {} /\ m.removed = {}) /\ Dirty(m, q)
  <2> DEFINE r == [q EXCEPT !.due = FALSE]
             g == Flight("checkpoint", CheckpointTail(m, q), m.pending, m.removed)
  <2>1. Eased(q, r)
    BY Easings
  <2>2. g \in Requests /\ CheckpointTail(m, q) \in Tails
    BY <1>2, BegunRequests
  <2>3. /\ g.at = "checkpoint" /\ g.pending = m.pending /\ g.removed = m.removed
        /\ g.tail = CheckpointTail(m, q)
    BY DEF Flight
  <2>4. /\ g.tail.id = m.id /\ g.tail.revision = m.revision /\ g.tail.version = m.version
        /\ g.tail.ended => m.ended \/ (q.sealing /\ q.sealId = m.id)
    <3> DEFINE x == m.ended \/ (q.sealing /\ q.sealId = m.id)
    <3>1. x \in BOOLEAN
      BY DEF Shaped, LiveTails
    <3>2. CheckpointTail(m, q) = [Snapshot(m) EXCEPT !.ended = x]
      BY DEF CheckpointTail, Snapshot
    <3> HIDE DEF x
    <3>3. /\ CheckpointTail(m, q).id = m.id /\ CheckpointTail(m, q).revision = m.revision
          /\ CheckpointTail(m, q).version = m.version /\ CheckpointTail(m, q).ended = x
      BY <3>2 DEF Snapshot
    <3>. QED
      BY <2>3, <3>3 DEF x
  <2> HIDE DEF r, g
  <2>5. LivePart(m, q) = [q |-> r, flight |-> g]
    BY <1>2 DEF LivePart, r, g
  <2>6. Begins(m, q, g)
    BY <1>2, <2>2, <2>3, <2>4 DEF Begins
  <2>. QED
    BY <2>1, <2>2, <2>5, <2>6 DEF Pumps, Eased
<1>3. CASE m.id # None /\ ~(Held(m) = {} /\ m.removed = {}) /\ ~Dirty(m, q)
  <2>1. LivePart(m, q) = SealPart(m, q, m.id)
    BY <1>3 DEF LivePart
  <2>2. CASE ~(q.sealing /\ q.sealId = m.id)
    <3>1. Eased(q, q)
      BY Easings
    <3>2. SealPart(m, q, m.id) = [q |-> q, flight |-> None]
      BY <2>2 DEF SealPart
    <3>. QED
      BY <2>1, <3>1, <3>2 DEF Pumps, Begins
  <2>3. CASE (q.sealing /\ q.sealId = m.id) /\ Held(m) = {}
    <3> DEFINE r == [q EXCEPT !.sealing = FALSE, !.sealId = None]
    <3>1. Eased(q, r)
      BY Easings
    <3> HIDE DEF r
    <3>2. SealPart(m, q, m.id) = [q |-> r, flight |-> None]
      BY <2>3 DEF SealPart, r
    <3>. QED
      BY <2>1, <3>1, <3>2 DEF Pumps, Begins, Eased
  <2>4. CASE (q.sealing /\ q.sealId = m.id) /\ Held(m) # {}
    <3> DEFINE g == Flight("seal", Snapshot(m), {}, {})
    <3>1. g \in Requests
      BY <1>3, BegunRequests
    <3>2. g.at = "seal" /\ g.tail = Snapshot(m)
      BY DEF Flight
    <3> HIDE DEF g
    <3>3. Begins(m, q, g)
      BY <1>3, <2>4, <3>1, <3>2 DEF Begins, Snapshot
    <3>4. SealPart(m, q, m.id) = [q |-> q, flight |-> g]
      BY <1>3, <2>4 DEF SealPart, g
    <3>5. Eased(q, q)
      BY Easings
    <3>. QED
      BY <2>1, <3>1, <3>3, <3>4, <3>5 DEF Pumps
  <2>. QED
    BY <2>2, <2>3, <2>4
<1>. QED
  BY <1>1, <1>2, <1>3

\* What a pass makes of the record, whatever goes first.
LEMMA PassRel ==
  ASSUME NEW m, Shaped(m), NEW q \in Queues
  PROVE  LET p == Pass(m, q)
         IN  p \in Pumps /\ Eased(q, p.q) /\ Begins(m, q, p.flight)
<1>0. Eased(q, q)
  BY Easings
<1>1. CASE q.terminal # None
  <2> DEFINE g == Flight("reconcile", q.terminal, {}, {})
  <2>1. g \in Requests /\ g.at = "reconcile" /\ g.tail = q.terminal
    BY <1>1, BegunRequests DEF Flight
  <2> HIDE DEF g
  <2>2. Pass(m, q) = [q |-> q, flight |-> g]
    BY <1>1 DEF Pass, g
  <2>. QED
    BY <1>0, <1>1, <2>1, <2>2 DEF Pumps, Begins
<1>2. CASE q.terminal = None /\ q.interrupted # None
  <2> DEFINE g == Flight("displaced", q.interrupted, {}, {})
  <2>1. g \in Requests /\ g.at = "displaced" /\ g.tail = q.interrupted
    BY <1>2, BegunRequests DEF Flight
  <2> HIDE DEF g
  <2>2. Pass(m, q) = [q |-> q, flight |-> g]
    BY <1>2 DEF Pass, g
  <2>. QED
    BY <1>0, <1>2, <2>1, <2>2 DEF Pumps, Begins
<1>3. CASE q.terminal = None /\ q.interrupted = None /\ m.closed # << >>
  <2> DEFINE g == Flight("closing", Head(m.closed), Present(Head(m.closed).version), {})
  <2>1. /\ g \in Requests /\ g.at = "closing" /\ g.tail = Head(m.closed)
        /\ g.pending = Present(g.tail.version) /\ g.removed = {}
    BY <1>3, BegunRequests DEF Flight
  <2> HIDE DEF g
  <2>2. Pass(m, q) = [q |-> q, flight |-> g]
    BY <1>3 DEF Pass, g
  <2>. QED
    BY <1>0, <1>3, <2>1, <2>2 DEF Pumps, Begins
<1>4. CASE q.terminal = None /\ q.interrupted = None /\ m.closed = << >>
  BY <1>4, LivePartRel DEF Pass
<1>. QED
  BY <1>1, <1>2, <1>3, <1>4

\* The pump leaves a request under way alone and rests during a recovery;
\* else it begins a pass.
LEMMA PumpedRel ==
  ASSUME NEW m, Shaped(m), NEW q \in Queues, NEW f \in Requests \union {Spin, None}
  PROVE  LET p == Pumped(m, q, f)
         IN  /\ p \in Pumps /\ Eased(q, p.q)
             /\ p.flight = f \/ (f = None /\ ~q.recovering /\ Begins(m, q, p.flight))
<1> DEFINE pass == Pass(m, q)
<1>1. pass \in Pumps /\ Eased(q, pass.q) /\ Begins(m, q, pass.flight)
  BY PassRel
<1>2. CASE f # None \/ q.recovering \/ q.retry
  <2>1. Pumped(m, q, f) = [q |-> q, flight |-> f]
    BY <1>2 DEF Pumped
  <2>2. Eased(q, q)
    BY Easings
  <2>. QED
    BY <2>1, <2>2 DEF Pumps
<1> HIDE DEF pass
<1>3. CASE ~(f # None \/ q.recovering \/ q.retry)
           /\ (pass.flight = None /\ HasWork(m, pass.q))
  <2>1. Pumped(m, q, f) = [pass EXCEPT !.flight = Spin]
    BY <1>3 DEF Pumped, pass
  <2>2. [pass EXCEPT !.flight = Spin] = [q |-> pass.q, flight |-> Spin]
    BY <1>1 DEF Pumps
  <2>3. pass.q \in Queues
    BY <1>1 DEF Pumps
  <2>. QED
    BY <1>1, <1>3, <2>1, <2>2, <2>3 DEF Pumps, Begins
<1>4. CASE ~(f # None \/ q.recovering \/ q.retry)
           /\ ~(pass.flight = None /\ HasWork(m, pass.q))
  <2>1. Pumped(m, q, f) = pass
    BY <1>4 DEF Pumped, pass
  <2>. QED
    BY <1>1, <1>4, <2>1
<1>. QED
  BY <1>2, <1>3, <1>4

\* The same after the end of a pass.
LEMMA ResumedRel ==
  ASSUME NEW m, Shaped(m), NEW q \in Queues
  PROVE  LET p == Resumed(m, q)
         IN  /\ p \in Pumps /\ Eased(q, p.q)
             /\ p.flight = None \/ (~q.recovering /\ Begins(m, q, p.flight))
<1>1. CASE HasWork(m, q)
  BY <1>1, PumpedRel DEF Resumed
<1>2. CASE ~HasWork(m, q)
  BY <1>2, Easings DEF Resumed, Pumps
<1>. QED
  BY <1>1, <1>2

\* The same when a checkpoint is scheduled, at once or for later.
LEMMA ScheduledRel ==
  ASSUME NEW m, Shaped(m), NEW p \in Pumps, NEW reached
  PROVE  LET s == Scheduled(m, p, reached)
         IN  /\ s \in Pumps /\ Eased(p.q, s.q)
             /\ \/ s.flight = p.flight
                \/ p.flight = None /\ ~p.q.recovering /\ Begins(m, p.q, s.flight)
<1>1. p.q \in Queues /\ p.flight \in Requests \union {Spin, None}
  BY DEF Pumps
<1>2. CASE p.q.saved = 0 \/ reached
  <2> DEFINE r == MadeDue(p.q)
  <2>1. Eased(p.q, r) /\ r \in Queues
    BY <1>1, Easings DEF Eased
  <2>2. Scheduled(m, p, reached) = Pumped(m, r, p.flight)
    BY <1>2 DEF Scheduled
  <2>3. /\ r.recovering = p.q.recovering /\ r.interrupted = p.q.interrupted
        /\ r.terminal = p.q.terminal /\ r.sealing = p.q.sealing /\ r.sealId = p.q.sealId
    BY <1>1 DEF MadeDue, Queues
  <2> HIDE DEF r
  <2>4. LET s == Pumped(m, r, p.flight)
        IN  /\ s \in Pumps /\ Eased(r, s.q)
            /\ \/ s.flight = p.flight
               \/ p.flight = None /\ ~r.recovering /\ Begins(m, r, s.flight)
    BY <1>1, <2>1, PumpedRel
  <2>5. Begins(m, r, Scheduled(m, p, reached).flight)
          => Begins(m, p.q, Scheduled(m, p, reached).flight)
    BY <2>3 DEF Begins
  <2>. QED
    BY <1>1, <2>1, <2>2, <2>3, <2>4, <2>5, EasedTwice
<1>3. CASE ~(p.q.saved = 0 \/ reached)
  <2> DEFINE x == p.q.timer \/ ~p.q.due
             r == [p.q EXCEPT !.timer = x]
  <2>1. Scheduled(m, p, reached) = [q |-> r, flight |-> p.flight]
    <3>1. Scheduled(m, p, reached) = [p EXCEPT !.q.timer = p.q.timer \/ ~p.q.due]
      BY <1>3 DEF Scheduled
    <3>2. [p EXCEPT !.q.timer = p.q.timer \/ ~p.q.due]
            = [p EXCEPT !.q = [p.q EXCEPT !.timer = p.q.timer \/ ~p.q.due]]
      BY DEF Pumps
    <3> HIDE DEF x
    <3>3. [p EXCEPT !.q = r] = [q |-> r, flight |-> p.flight]
      BY DEF Pumps
    <3>. QED
      BY <3>1, <3>2, <3>3 DEF x
  <2>2. x \in BOOLEAN
    BY <1>1 DEF Queues
  <2> HIDE DEF x
  <2>3. Eased(p.q, r)
    BY <1>1, <2>2, Easings
  <2> HIDE DEF r
  <2>. QED
    BY <1>1, <2>1, <2>3 DEF Pumps, Eased
<1>. QED
  BY <1>2, <1>3

\* A seal that is asked for is wanted under the name the tail has.
Asking(m, q) == [MadeDue(q) EXCEPT !.sealing = TRUE, !.sealId = m.id]

\* A seal is asked for the live tail, under the name it bears then.
LEMMA AskingFields ==
  ASSUME NEW m, Shaped(m), NEW q \in Queues
  PROVE  LET r == Asking(m, q)
         IN  /\ r \in Queues
             /\ r.recovering = q.recovering /\ r.interrupted = q.interrupted
             /\ r.terminal = q.terminal /\ r.sealing /\ r.sealId = m.id
<1> DEFINE a == [MadeDue(q) EXCEPT !.sealing = TRUE]
           r == [a EXCEPT !.sealId = m.id]
<1>1. MadeDue(q) \in Queues
  BY Easings DEF Eased
<1>2. a \in Queues
  BY <1>1, SetQueue
<1>3. m.id \in Names \union {None}
  BY DEF Shaped, LiveTails
<1>4. r \in Queues
  BY <1>2, <1>3, SetQueue
<1>5. Asking(m, q) = r
  BY <1>1 DEF Asking, Queues
<1>6. /\ MadeDue(q).recovering = q.recovering /\ MadeDue(q).interrupted = q.interrupted
      /\ MadeDue(q).terminal = q.terminal
  BY DEF MadeDue, Queues
<1>7. /\ r.recovering = q.recovering /\ r.interrupted = q.interrupted
      /\ r.terminal = q.terminal /\ r.sealing /\ r.sealId = m.id
  BY <1>1, <1>6 DEF Queues
<1>. QED
  BY <1>4, <1>5, <1>7

\* The pump may begin a request for it at once.
LEMMA SealRequestedRel ==
  ASSUME NEW m, Shaped(m), NEW q \in Queues, NEW f \in Requests \union {Spin, None}
  PROVE  LET p == SealRequested(m, q, f)
         IN  /\ p \in Pumps /\ Eased(Asking(m, q), p.q)
             /\ \/ p.flight = f
                \/ f = None /\ ~q.recovering /\ Begins(m, Asking(m, q), p.flight)
<1>1. SealRequested(m, q, f) = Pumped(m, Asking(m, q), f)
  BY DEF SealRequested, Asking
<1>. QED
  BY <1>1, AskingFields, PumpedRel

-----------------------------------------------------------------------------
(* The store. *)

\* Each field of the store may be given another value.
LEMMA SetStore ==
  ASSUME NEW n \in Stores
  PROVE  /\ \A x \in StoredTails \union {None} : [n EXCEPT !.tail = x] \in Stores
         /\ \A x \in Versions : [n EXCEPT !.stored = x] \in Stores
         /\ \A x \in [Entries -> Names \union {None}] : [n EXCEPT !.sealed = x] \in Stores
BY DEF Stores

\* A checkpoint stores the versions it was given, and the open tail has its
\* name and entries.
LEMMA CheckpointedFields ==
  ASSUME NEW n, NEW t, NEW P, NEW R, n \in Stores, t \in Tails, P \subseteq Entries
  PROVE  LET o == Checkpointed(n, t, P, R)
             had == IF n.tail = None THEN {} ELSE n.tail.entries
         IN  /\ o \in Stores
             /\ \A e \in Entries : o.stored[e] = IF e \in P THEN t.version[e] ELSE n.stored[e]
             /\ o.sealed = n.sealed
             /\ o.tail \in StoredTails /\ o.tail.id = t.id /\ o.tail.ended = t.ended
             /\ o.tail.entries = (had \ R) \union P
<1> DEFINE before == IF n.tail = None THEN [entries |-> {}, revision |-> 0] ELSE n.tail
           had == IF n.tail = None THEN {} ELSE n.tail.entries
           w == [e \in Entries |-> IF e \in P THEN t.version[e] ELSE n.stored[e]]
           x == [id |-> t.id, ended |-> t.ended, entries |-> (before.entries \ R) \union P,
                 revision |-> Smaller(before.revision + 1, MaxRevision)]
           a == [n EXCEPT !.stored = w]
           o == [a EXCEPT !.tail = x]
<1>1. /\ n.tail \in StoredTails \union {None} /\ n.stored \in Versions
      /\ t.version \in Versions /\ t.id \in Names /\ t.ended \in BOOLEAN
  BY DEF Stores, Tails
<1>2. w \in Versions
  BY <1>1 DEF Versions
<1>3. before.entries = had /\ before.revision \in Nat /\ had \in SUBSET Entries
  BY <1>1 DEF StoredTails
<1>4. x \in StoredTails
  <2>1. Smaller(before.revision + 1, MaxRevision) \in Nat
    BY <1>3, TranscriptBounds DEF Smaller
  <2>2. (before.entries \ R) \union P \in SUBSET Entries
    BY <1>3
  <2> HIDE DEF before
  <2>. QED
    BY <1>1, <2>1, <2>2 DEF StoredTails
<1>5. Checkpointed(n, t, P, R) = o
  BY DEF Checkpointed, Stores
<1>6. x.id = t.id /\ x.ended = t.ended /\ x.entries = (had \ R) \union P
  BY <1>3
<1> HIDE DEF w, x, before, had
<1>7. a \in Stores
  BY <1>2, SetStore
<1>8. o \in Stores
  BY <1>4, <1>7, SetStore
<1>9. o.stored = w /\ o.tail = x /\ o.sealed = n.sealed
  BY DEF Stores
<1>. QED
  BY <1>4, <1>5, <1>6, <1>8, <1>9 DEF w, had

\* Closing blocks changes no version, names entries only by the name given,
\* and takes no other tail away.
LEMMA ClosedFields ==
  ASSUME NEW n \in Stores, NEW id \in Names, NEW S
  PROVE  LET o == Closed(n, id, S)
         IN  /\ o \in Stores
             /\ o.stored = n.stored
             /\ o.sealed = [e \in Entries |->
                  IF n.stored[e] > 0 /\ n.sealed[e] = None /\ \E s \in S : n.sealed[s] = None
                    THEN id ELSE n.sealed[e]]
             /\ o.tail = IF n.tail # None /\ n.tail.id = id THEN None ELSE n.tail
<1> DEFINE w == [e \in Entries |->
                  IF n.stored[e] > 0 /\ n.sealed[e] = None /\ \E s \in S : n.sealed[s] = None
                    THEN id ELSE n.sealed[e]]
           x == IF n.tail # None /\ n.tail.id = id THEN None ELSE n.tail
           a == [n EXCEPT !.sealed = w]
           o == [a EXCEPT !.tail = x]
<1>1. n.tail \in StoredTails \union {None} /\ n.sealed \in [Entries -> Names \union {None}]
  BY DEF Stores
<1>2. w \in [Entries -> Names \union {None}]
  BY <1>1
<1>3. x \in StoredTails \union {None}
  BY <1>1
<1>4. Closed(n, id, S) = o
  BY DEF Closed, Stores
<1> HIDE DEF w, x
<1>5. a \in Stores
  BY <1>2, SetStore
<1>6. o \in Stores
  BY <1>3, <1>5, SetStore
<1>7. o.stored = n.stored /\ o.sealed = w /\ o.tail = x
  BY DEF Stores
<1>. QED
  BY <1>4, <1>6, <1>7 DEF w, x

\* A seal stores the versions of its tail, and closes their blocks.
LEMMA SealedFields ==
  ASSUME NEW n \in Stores, NEW t \in Tails
  PROVE  LET o == Sealed(n, t)
             S == Present(t.version)
             w == [e \in Entries |-> IF e \in S THEN t.version[e] ELSE n.stored[e]]
         IN  /\ o \in Stores
             /\ o.stored = w
             /\ o.sealed = [e \in Entries |->
                  IF w[e] > 0 /\ n.sealed[e] = None /\ \E s \in S : n.sealed[s] = None
                    THEN t.id ELSE n.sealed[e]]
             /\ o.tail = IF n.tail # None /\ n.tail.id = t.id THEN None ELSE n.tail
<1> DEFINE S == Present(t.version)
           w == [e \in Entries |-> IF e \in S THEN t.version[e] ELSE n.stored[e]]
           x == [n EXCEPT !.stored = w]
<1>1. n.stored \in Versions /\ t.version \in Versions /\ t.id \in Names
  BY DEF Stores, Tails
<1>2. w \in Versions
  BY <1>1 DEF Versions
<1> HIDE DEF w, S
<1>3. x \in Stores
  BY <1>2, SetStore
<1>4. x.stored = w /\ x.sealed = n.sealed /\ x.tail = n.tail
  BY DEF Stores
<1> HIDE DEF x
<1>5. Sealed(n, t) = Closed(x, t.id, S)
  BY DEF Sealed, x, w, S
<1>6. LET o == Closed(x, t.id, S)
      IN  /\ o \in Stores
          /\ o.stored = x.stored
          /\ o.sealed = [e \in Entries |->
               IF x.stored[e] > 0 /\ x.sealed[e] = None /\ \E s \in S : x.sealed[s] = None
                 THEN t.id ELSE x.sealed[e]]
          /\ o.tail = IF x.tail # None /\ x.tail.id = t.id THEN None ELSE x.tail
  BY <1>1, <1>3, ClosedFields
<1>. QED
  BY <1>4, <1>5, <1>6 DEF w, S

\* A tail that is reconciled is sealed from what is stored.
LEMMA ReconciledFields ==
  ASSUME NEW n \in Stores
  PROVE  LET o == Reconciled(n)
         IN  /\ o \in Stores
             /\ o.stored = n.stored
             /\ o.tail = None
             /\ o.sealed = IF n.tail = None THEN n.sealed ELSE [e \in Entries |->
                  IF n.stored[e] > 0 /\ n.sealed[e] = None
                       /\ \E s \in n.tail.entries : n.sealed[s] = None
                    THEN n.tail.id ELSE n.sealed[e]]
<1>1. CASE n.tail = None
  BY <1>1 DEF Reconciled
<1>2. CASE n.tail # None
  <2>1. n.tail.id \in Names
    BY <1>2 DEF Stores, StoredTails
  <2>2. Reconciled(n) = Closed(n, n.tail.id, n.tail.entries)
    BY <1>2 DEF Reconciled
  <2>. QED
    BY <1>2, <2>1, <2>2, ClosedFields
<1>. QED
  BY <1>1, <1>2

\* What is made of a request, by its kind.
LEMMA MadeIs ==
  ASSUME NEW n, NEW f \in Requests
  PROVE  /\ f.at \in {"checkpoint", "closing"} =>
              /\ Made(n, f) = Checkpointed(n, f.tail, f.pending, f.removed)
              /\ Takes(n, f) = TakesCheckpoint(n, f.tail, f.pending, f.removed)
         /\ f.at \in {"seal", "closed", "displaced"} =>
              Made(n, f) = Sealed(n, f.tail) /\ Takes(n, f) = TakesSeal(n, f.tail)
         /\ f.at = "reconcile" =>
              Made(n, f) = Reconciled(n) /\ Takes(n, f) = TakesReconcile(n, f.tail)
         /\ f.at \in {"checkpoint", "closing", "seal", "closed", "displaced", "reconcile"}
         /\ f.tail \in Tails /\ f.pending \in SUBSET Entries /\ f.removed \in SUBSET Entries
<1>1. /\ f.at \in {"checkpoint", "closing", "seal", "closed", "displaced", "reconcile"}
      /\ f.tail \in Tails /\ f.pending \in SUBSET Entries /\ f.removed \in SUBSET Entries
  BY DEF Requests
<1>2. ASSUME f.at \in {"checkpoint", "closing"}
      PROVE  /\ Made(n, f) = Checkpointed(n, f.tail, f.pending, f.removed)
             /\ Takes(n, f) = TakesCheckpoint(n, f.tail, f.pending, f.removed)
  BY <1>2 DEF Made, Takes
<1>3. ASSUME f.at \in {"seal", "closed", "displaced"}
      PROVE  Made(n, f) = Sealed(n, f.tail) /\ Takes(n, f) = TakesSeal(n, f.tail)
  BY <1>3 DEF Made, Takes
<1>4. ASSUME f.at = "reconcile"
      PROVE  Made(n, f) = Reconciled(n) /\ Takes(n, f) = TakesReconcile(n, f.tail)
  BY <1>4 DEF Made, Takes
<1>. QED
  BY <1>1, <1>2, <1>3, <1>4

\* What the store makes of a request is a store.
LEMMA MadeType ==
  ASSUME NEW n \in Stores, NEW f \in Requests
  PROVE  Made(n, f) \in Stores
<1>1. /\ f.at \in {"checkpoint", "closing", "seal", "closed", "displaced", "reconcile"}
      /\ f.tail \in Tails /\ f.pending \in SUBSET Entries
  BY MadeIs
<1>2. CASE f.at \in {"checkpoint", "closing"}
  <2>1. Made(n, f) = Checkpointed(n, f.tail, f.pending, f.removed)
    BY <1>2, MadeIs
  <2>2. Checkpointed(n, f.tail, f.pending, f.removed) \in Stores
    BY <1>1, CheckpointedFields
  <2>. QED
    BY <2>1, <2>2
<1>3. CASE f.at \in {"seal", "closed", "displaced"}
  <2>1. Made(n, f) = Sealed(n, f.tail)
    BY <1>3, MadeIs
  <2>2. Sealed(n, f.tail) \in Stores
    BY <1>1, SealedFields
  <2>. QED
    BY <2>1, <2>2
<1>4. CASE f.at = "reconcile"
  BY <1>4, MadeIs, ReconciledFields
<1>. QED
  BY <1>1, <1>2, <1>3, <1>4

\* The tail that is loaded has the versions that are stored of its entries.
LEMMA LoadedFields ==
  ASSUME NEW n \in Stores, n.tail # None
  PROVE  /\ Loaded(n) \in Tails
         /\ Loaded(n).id = n.tail.id /\ Loaded(n).ended = n.tail.ended
         /\ Loaded(n).version =
              [e \in Entries |-> IF e \in n.tail.entries THEN n.stored[e] ELSE 0]
<1>1. /\ n.tail.id \in Names /\ n.tail.ended \in BOOLEAN /\ n.tail.revision \in Nat
      /\ n.stored \in Versions
  BY DEF Stores, StoredTails
<1> DEFINE w == [e \in Entries |-> IF e \in n.tail.entries THEN n.stored[e] ELSE 0]
<1>2. w \in Versions
  BY <1>1, TranscriptBounds DEF Versions
<1>3. Loaded(n) = [id |-> n.tail.id, ended |-> n.tail.ended,
                   revision |-> n.tail.revision, version |-> w]
  BY DEF Loaded
<1> HIDE DEF w
<1>4. Loaded(n) \in Tails
  BY <1>1, <1>2, <1>3 DEF Tails
<1>. QED
  BY <1>3, <1>4 DEF w

-----------------------------------------------------------------------------
(* How a pass goes on after its requests. *)

\* The pass goes on from a checkpoint to the seal of the turn it wrote.
SealsOn(m, q, f, g) ==
  /\ g \in Requests /\ g.at = "seal" /\ m.closed = << >>
  /\ q.sealing /\ q.sealId = f.tail.id
  /\ m.id # None /\ Held(m) # {} /\ g.tail = Snapshot(m)

\* After a checkpoint its versions are acknowledged, and the pass goes on with
\* the seal of that tail or ends, and another one may begin.
LEMMA CheckpointDoneRel ==
  ASSUME Shaped(mem), queue \in Queues, NEW f \in Requests
  PROVE  LET d == CheckpointDone(f)
         IN  /\ d.m = Acknowledged(mem, f.tail.version, f.pending, f.removed)
             /\ d.p \in Pumps /\ Eased(queue, d.p.q)
             /\ \/ d.p.flight = None
                \/ ~queue.recovering /\ Begins(d.m, queue, d.p.flight)
                \/ SealsOn(d.m, queue, f, d.p.flight)
<1> DEFINE m == Acknowledged(mem, f.tail.version, f.pending, f.removed)
           q == [queue EXCEPT !.saved = Larger(@, f.tail.revision)]
           rest == SealPart(m, q, f.tail.id)
<1>1. Shaped(m)
  BY AcknowledgedFields
<1>2. Larger(queue.saved, f.tail.revision) \in Nat
  BY DEF Queues, Requests, Tails, Larger
<1>3. Eased(queue, q) /\ q \in Queues
  <2> DEFINE k == Larger(queue.saved, f.tail.revision)
  <2>1. q = [queue EXCEPT !.saved = k]
    OBVIOUS
  <2>2. k \in Nat
    BY <1>2
  <2> HIDE DEF k, q
  <2>3. Eased(queue, [queue EXCEPT !.saved = k])
    BY <2>2, Easings
  <2>. QED
    BY <2>1, <2>3 DEF Eased
<1>4. q.sealing = queue.sealing /\ q.sealId = queue.sealId
  BY DEF Queues
<1>5. CheckpointDone(f) =
        [m |-> m, p |-> IF m.closed = << >> /\ rest.flight # None
                          THEN rest
                          ELSE Resumed(m, IF m.closed = << >> THEN rest.q ELSE q)]
  BY DEF CheckpointDone
<1> HIDE DEF m, q
<1>6. Eased(q, [q EXCEPT !.sealing = FALSE, !.sealId = None]) /\ Eased(q, q)
  BY <1>3, Easings
<1>7. \/ rest \in {[q |-> q, flight |-> None],
                   [q |-> [q EXCEPT !.sealing = FALSE, !.sealId = None], flight |-> None]}
      \/ /\ q.sealing /\ q.sealId = f.tail.id /\ m.id # None /\ Held(m) # {}
         /\ rest = [q |-> q, flight |-> Flight("seal", Snapshot(m), {}, {})]
  BY DEF SealPart
<1>8. Eased(q, rest.q) /\ rest.q \in Queues
  <2>1. rest.q = q \/ rest.q = [q EXCEPT !.sealing = FALSE, !.sealId = None]
    BY <1>7
  <2>2. Eased(q, rest.q)
    BY <1>6, <2>1
  <2>. QED
    BY <2>2 DEF Eased
<1>9. Eased(queue, rest.q)
  BY <1>3, <1>8, EasedTwice
<1>10. CASE m.closed = << >> /\ rest.flight # None
  <2> DEFINE g == Flight("seal", Snapshot(m), {}, {})
  <2>1. rest = [q |-> q, flight |-> g] /\ q.sealing /\ q.sealId = f.tail.id
        /\ m.id # None /\ Held(m) # {}
    BY <1>7, <1>10
  <2>2. g \in Requests
    BY <1>1, <1>3, <2>1, BegunRequests
  <2>3. g.at = "seal" /\ g.tail = Snapshot(m)
    BY DEF Flight
  <2> HIDE DEF g, rest
  <2>4. rest \in Pumps /\ rest.flight = g
    BY <1>3, <2>1, <2>2 DEF Pumps
  <2>5. SealsOn(m, queue, f, g)
    BY <1>4, <1>10, <2>1, <2>2, <2>3 DEF SealsOn
  <2>6. CheckpointDone(f) = [m |-> m, p |-> rest]
    BY <1>5, <1>10 DEF rest
  <2>. QED
    BY <1>9, <2>4, <2>5, <2>6 DEF m
<1>11. CASE ~(m.closed = << >> /\ rest.flight # None)
  <2> DEFINE r == IF m.closed = << >> THEN rest.q ELSE q
  <2>1. Eased(queue, r) /\ r \in Queues
    BY <1>3, <1>8, <1>9
  <2>2. CheckpointDone(f) = [m |-> m, p |-> Resumed(m, r)]
    BY <1>5, <1>11
  <2> HIDE DEF r, rest
  <2>3. LET p == Resumed(m, r)
        IN  /\ p \in Pumps /\ Eased(r, p.q)
            /\ p.flight = None \/ (~r.recovering /\ Begins(m, r, p.flight))
    BY <1>1, <2>1, ResumedRel
  <2>4. Eased(queue, Resumed(m, r).q)
    BY <2>1, <2>3, EasedTwice
  <2>5. r.recovering = queue.recovering
    BY <2>1 DEF Eased
  <2>6. Begins(m, r, Resumed(m, r).flight) => Begins(m, queue, Resumed(m, r).flight)
    BY <2>1 DEF Begins, Eased
  <2>. QED
    BY <2>2, <2>3, <2>4, <2>5, <2>6 DEF m
<1>. QED
  BY <1>10, <1>11

\* The pump goes on with an eased record.
LEMMA ResumedEased ==
  ASSUME NEW m, Shaped(m), NEW q \in Queues, NEW r, Eased(q, r)
  PROVE  LET p == Resumed(m, r)
         IN  /\ p \in Pumps /\ Eased(q, p.q)
             /\ p.flight = None \/ (~q.recovering /\ Begins(m, q, p.flight))
<1>1. r \in Queues /\ r.recovering = q.recovering
  BY DEF Eased
<1>2. LET p == Resumed(m, r)
      IN  /\ p \in Pumps /\ Eased(r, p.q)
          /\ p.flight = None \/ (~r.recovering /\ Begins(m, r, p.flight))
  BY <1>1, ResumedRel
<1>3. Eased(q, Resumed(m, r).q)
  BY <1>2, EasedTwice
<1>4. Begins(m, r, Resumed(m, r).flight) => Begins(m, q, Resumed(m, r).flight)
  BY DEF Begins, Eased
<1>. QED
  BY <1>1, <1>2, <1>3, <1>4

\* After a seal the tail is acknowledged if it is still the one that was read,
LEMMA SealDoneRel ==
  ASSUME Shaped(mem), queue \in Queues, NEW f \in Requests
  PROVE  LET d == SealDone(f)
         IN  /\ d.m = SealAcknowledged(mem, f.tail) /\ Shaped(d.m)
             /\ d.p \in Pumps /\ Eased(queue, d.p.q)
             /\ d.p.flight = None \/ (~queue.recovering /\ Begins(d.m, queue, d.p.flight))
<1> DEFINE m == SealAcknowledged(mem, f.tail)
           x == ~Unchanged(mem, f.tail)
           r == [queue EXCEPT !.sealing = @ /\ x]
<1>1. Shaped(m)
  BY ClearedFields DEF SealAcknowledged
<1>2. x \in BOOLEAN
  BY DEF Unchanged
<1>3. SealDone(f) = [m |-> m, p |-> Resumed(m, r)]
  BY DEF SealDone
<1> HIDE DEF x
<1>4. Eased(queue, r)
  BY <1>2, Easings
<1> HIDE DEF m, r
<1>5. LET p == Resumed(m, r)
      IN  /\ p \in Pumps /\ Eased(queue, p.q)
          /\ p.flight = None \/ (~queue.recovering /\ Begins(m, queue, p.flight))
  BY <1>1, <1>4, ResumedEased
<1>. QED
  BY <1>1, <1>3, <1>5 DEF m

\* The live tail without the turn that was put aside first.
WithoutHead(m) == [m EXCEPT !.closed = Tail(@)]

\* after the seal of a turn that waited,
LEMMA ClosedSealDoneRel ==
  ASSUME Shaped(mem), queue \in Queues, NEW f \in Requests
  PROVE  LET d == ClosedSealDone(f)
         IN  /\ \/ d.m = mem
                \/ /\ mem.closed # << >> /\ Unchanged(Head(mem.closed), f.tail)
                   /\ d.m = WithoutHead(mem)
             /\ mem.closed # << >> /\ Head(mem.closed) = f.tail => d.m = WithoutHead(mem)
             /\ Shaped(d.m)
             /\ d.p \in Pumps /\ Eased(queue, d.p.q)
             /\ d.p.flight = None \/ (~queue.recovering /\ Begins(d.m, queue, d.p.flight))
<1> DEFINE m == WithoutHead(mem)
           r == SealServed(queue, f.tail.id)
<1>1. Eased(queue, r) /\ Eased(queue, queue)
  BY Easings
<1>2. CASE mem.closed # << >> /\ Unchanged(Head(mem.closed), f.tail)
  <2>1. mem \in LiveTails /\ mem.closed \in Seq(Tails)
    BY DEF Shaped, LiveTails
  <2> DEFINE x == Tail(mem.closed)
  <2>2. x \in Seq(Tails)
    BY <1>2, <2>1
  <2>3. m = [mem EXCEPT !.closed = x]
    BY <2>1 DEF LiveTails, WithoutHead
  <2> HIDE DEF x
  <2>4. m \in LiveTails
    BY <2>1, <2>2, <2>3, SetLive
  <2>5. /\ m.id = mem.id /\ m.started = mem.started /\ m.version = mem.version
        /\ m.pending = mem.pending /\ m.removed = mem.removed
    BY <2>1, <2>3 DEF LiveTails
  <2> HIDE DEF m
  <2>6. Shaped(m)
    BY <2>4, <2>5 DEF Shaped, Held
  <2> HIDE DEF r
  <2>7. LET p == Resumed(m, r)
        IN  /\ p \in Pumps /\ Eased(queue, p.q)
            /\ p.flight = None \/ (~queue.recovering /\ Begins(m, queue, p.flight))
    BY <1>1, <2>6, ResumedEased
  <2>8. ClosedSealDone(f) = [m |-> m, p |-> Resumed(m, r)]
    BY <1>2 DEF ClosedSealDone, m, r, WithoutHead
  <2>. QED
    BY <1>2, <2>6, <2>7, <2>8 DEF m
<1>3. CASE ~(mem.closed # << >> /\ Unchanged(Head(mem.closed), f.tail))
  <2>1. LET p == Resumed(mem, queue)
        IN  /\ p \in Pumps /\ Eased(queue, p.q)
            /\ p.flight = None \/ (~queue.recovering /\ Begins(mem, queue, p.flight))
    BY <1>1, ResumedEased
  <2>2. ClosedSealDone(f) = [m |-> mem, p |-> Resumed(mem, queue)]
    BY <1>3 DEF ClosedSealDone
  <2>3. ~(mem.closed # << >> /\ Head(mem.closed) = f.tail)
    BY <1>3 DEF Unchanged
  <2>. QED
    BY <2>1, <2>2, <2>3
<1>. QED
  BY <1>2, <1>3

\* and after the seal of a tail of an earlier process.
LEMMA RecoveredDoneRel ==
  ASSUME Shaped(mem), NEW f \in Requests, NEW q \in Queues
  PROVE  LET d == RecoveredDone(f, q)
         IN  /\ d.m = SealAcknowledged(mem, f.tail) /\ Shaped(d.m)
             /\ d.p \in Pumps /\ Eased(q, d.p.q)
             /\ d.p.flight = None \/ (~q.recovering /\ Begins(d.m, q, d.p.flight))
<1> DEFINE m == SealAcknowledged(mem, f.tail)
           r == SealServed(q, f.tail.id)
<1>1. Shaped(m)
  BY ClearedFields DEF SealAcknowledged
<1>2. Eased(q, r)
  BY Easings
<1>3. RecoveredDone(f, q) = [m |-> m, p |-> Resumed(m, r)]
  BY DEF RecoveredDone
<1> HIDE DEF m, r
<1>4. LET p == Resumed(m, r)
      IN  /\ p \in Pumps /\ Eased(q, p.q)
          /\ p.flight = None \/ (~q.recovering /\ Begins(m, q, p.flight))
  BY <1>1, <1>2, ResumedEased
<1>. QED
  BY <1>1, <1>3, <1>4 DEF m

-----------------------------------------------------------------------------
(* What an event of the session and the end of a recovery do to the         *)
(* coordinator.                                                             *)

\* A pass that begins with an eased record might have begun with the record.
LEMMA BeginsBefore ==
  ASSUME NEW q, NEW r, Eased(q, r), NEW m, NEW g, Begins(m, r, g)
  PROVE  Begins(m, q, g)
BY DEF Begins, Eased

\* The record by which an event is handled, before the pump goes on.
Handling(m, seals) ==
  LET q == IF ~recovered /\ recovery = None
             THEN [queue EXCEPT !.recovering = TRUE] ELSE queue
  IN  IF seals THEN Asking(m, q) ELSE q

\* The record an event leaves to the pump: a recovery starts with the first
\* one, and a seal is wanted if the event asks for it.
LEMMA HandlingFields ==
  ASSUME TypeOK, NEW m, Shaped(m), NEW seals
  PROVE  LET q == Handling(m, seals)
         IN  /\ q \in Queues
             /\ q.interrupted = queue.interrupted /\ q.terminal = queue.terminal
             /\ q.recovering = (queue.recovering \/ (~recovered /\ recovery = None))
             /\ seals => q.sealing /\ q.sealId = m.id
             /\ ~seals => q.sealing = queue.sealing /\ q.sealId = queue.sealId
<1> DEFINE q == IF ~recovered /\ recovery = None
                  THEN [queue EXCEPT !.recovering = TRUE] ELSE queue
<1>1. queue \in Queues /\ queue.recovering \in BOOLEAN
  BY DEF TypeOK, Queues
<1>2. /\ q \in Queues
      /\ q.interrupted = queue.interrupted /\ q.terminal = queue.terminal
      /\ q.recovering = (queue.recovering \/ (~recovered /\ recovery = None))
      /\ q.sealing = queue.sealing /\ q.sealId = queue.sealId
  <2>1. [queue EXCEPT !.recovering = TRUE] \in Queues
    BY <1>1, SetQueue
  <2>2. LET r == [queue EXCEPT !.recovering = TRUE]
        IN  /\ r.interrupted = queue.interrupted /\ r.terminal = queue.terminal
            /\ r.recovering = TRUE
            /\ r.sealing = queue.sealing /\ r.sealId = queue.sealId
    BY <1>1 DEF Queues
  <2>3. CASE ~recovered /\ recovery = None
    BY <1>1, <2>1, <2>2, <2>3
  <2>4. CASE ~(~recovered /\ recovery = None)
    BY <1>1, <2>4
  <2>. QED
    BY <2>3, <2>4
<1>3. Handling(m, seals) = IF seals THEN Asking(m, q) ELSE q
  BY DEF Handling
<1> HIDE DEF q
<1>4. LET r == Asking(m, q)
      IN  /\ r \in Queues
          /\ r.recovering = q.recovering /\ r.interrupted = q.interrupted
          /\ r.terminal = q.terminal /\ r.sealing /\ r.sealId = m.id
  BY <1>2, AskingFields
<1>. QED
  BY <1>2, <1>3, <1>4

\* What an event does to the recovery: it starts one, or waits for the one
\* under way, which goes on as it was.
Joined ==
  \/ recovery' = recovery
  \/ recovery = None /\ recovery' = Recovering(FALSE, TRUE)
  \/ /\ recovery # None
     /\ recovery' = [recovery EXCEPT !.wanted = TRUE]

\* An event gives the tail another value, asks for a seal or not, and the
\* pump goes on if no recovery runs and none starts.
LEMMA HandledRel ==
  ASSUME TypeOK, NEW m, Shaped(m), NEW seals, NEW reached, Handled(m, seals, reached)
  PROVE  /\ mem' = m /\ native' = native /\ recovered' = recovered
         /\ faults' = faults /\ crashes' = crashes /\ live' = TRUE
         /\ Eased(Handling(m, seals), queue')
         /\ flight' \in Requests \union {Spin, None}
         /\ \/ flight' = flight
            \/ flight = None /\ recovery = None /\ recovery' = None
               /\ Begins(m, Handling(m, seals), flight')
         /\ Joined
         /\ queue'.recovering <=> recovery' # None
<1> DEFINE q == IF ~recovered /\ recovery = None
                  THEN [queue EXCEPT !.recovering = TRUE] ELSE queue
           h == Handling(m, seals)
           asked == IF seals THEN SealRequested(m, q, flight) ELSE [q |-> q, flight |-> flight]
           done == IF recovered THEN Scheduled(m, asked, reached) ELSE asked
<1>1. /\ mem' = m /\ native' = native /\ recovered' = recovered
      /\ faults' = faults /\ crashes' = crashes /\ live' = TRUE
      /\ queue' = done.q /\ flight' = done.flight
      /\ recovery' = IF recovered THEN recovery
                     ELSE IF recovery = None THEN Recovering(FALSE, TRUE)
                     ELSE [recovery EXCEPT !.wanted = TRUE]
  BY DEF Handled
<1>2. /\ h \in Queues
      /\ h.recovering = (queue.recovering \/ (~recovered /\ recovery = None))
  BY HandlingFields
<1>3. /\ queue \in Queues /\ flight \in Requests \union {Spin, None}
      /\ queue.recovering <=> recovery # None
  BY DEF TypeOK
<1>4. q \in Queues /\ q.recovering = h.recovering
  <2>1. [queue EXCEPT !.recovering = TRUE] \in Queues
    BY <1>3, SetQueue
  <2>2. queue.recovering \in BOOLEAN
    BY <1>3 DEF Queues
  <2>3. q.recovering = (queue.recovering \/ (~recovered /\ recovery = None))
    BY <1>3, <2>2 DEF Queues
  <2>. QED
    BY <1>2, <1>3, <2>1, <2>3
<1>5. h = IF seals THEN Asking(m, q) ELSE q
  BY DEF Handling
<1> HIDE DEF q, h
<1>6. /\ asked \in Pumps /\ Eased(h, asked.q)
      /\ \/ asked.flight = flight
         \/ flight = None /\ ~h.recovering /\ Begins(m, h, asked.flight)
  <2>1. CASE seals
    <3>1. asked = SealRequested(m, q, flight)
      BY <2>1
    <3>2. LET p == SealRequested(m, q, flight)
          IN  /\ p \in Pumps /\ Eased(Asking(m, q), p.q)
              /\ \/ p.flight = flight
                 \/ flight = None /\ ~q.recovering /\ Begins(m, Asking(m, q), p.flight)
      BY <1>3, <1>4, SealRequestedRel
    <3>. QED
      BY <1>4, <1>5, <2>1, <3>1, <3>2
  <2>2. CASE ~seals
    <3>1. asked = [q |-> q, flight |-> flight] /\ h = q
      BY <1>5, <2>2
    <3>2. Eased(q, q)
      BY <1>4, Easings
    <3> HIDE DEF asked
    <3>. QED
      BY <1>3, <1>4, <3>1, <3>2 DEF Pumps
  <2>. QED
    BY <2>1, <2>2
<1> HIDE DEF asked
<1>7. /\ done \in Pumps /\ Eased(h, done.q)
      /\ \/ done.flight = flight
         \/ flight = None /\ ~h.recovering /\ Begins(m, h, done.flight)
  <2>1. CASE ~recovered
    BY <1>6, <2>1
  <2>2. CASE recovered
    <3>1. LET s == Scheduled(m, asked, reached)
          IN  /\ s \in Pumps /\ Eased(asked.q, s.q)
              /\ \/ s.flight = asked.flight
                 \/ asked.flight = None /\ ~asked.q.recovering /\ Begins(m, asked.q, s.flight)
      BY <1>6, ScheduledRel
    <3>2. done = Scheduled(m, asked, reached)
      BY <2>2
    <3> HIDE DEF done
    <3>3. Eased(h, done.q)
      BY <1>2, <1>6, <3>1, <3>2, EasedTwice
    <3>4. asked.q.recovering = h.recovering
      BY <1>6 DEF Eased
    <3>5. Begins(m, asked.q, done.flight) => Begins(m, h, done.flight)
      BY <1>6, BeginsBefore
    <3>6. CASE asked.flight = flight
      BY <1>6, <3>1, <3>2, <3>3, <3>4, <3>5, <3>6
    <3>7. CASE flight = None /\ ~h.recovering /\ Begins(m, h, asked.flight)
      BY <1>6, <3>1, <3>2, <3>3, <3>4, <3>5, <3>7
    <3>. QED
      BY <1>6, <3>6, <3>7
  <2>. QED
    BY <2>1, <2>2
<1> HIDE DEF done
<1>8. /\ Eased(h, queue') /\ queue' \in Queues /\ queue'.recovering = h.recovering
      /\ flight' \in Requests \union {Spin, None}
  BY <1>1, <1>7 DEF Pumps, Eased
<1>9. Joined /\ (h.recovering <=> recovery' # None)
  <2>1. CASE recovered
    BY <1>1, <1>2, <1>3, <2>1 DEF Joined
  <2>2. CASE ~recovered /\ recovery = None
    <3>1. Recovering(FALSE, TRUE) \in Recoveries
      BY DEF Recovering, Recoveries
    <3>. QED
      BY <1>1, <1>2, <2>2, <3>1, Apart DEF Joined
  <2>3. CASE ~recovered /\ recovery # None
    <3>1. recovery \in Recoveries
      BY <2>3 DEF TypeOK
    <3>2. [recovery EXCEPT !.wanted = TRUE] \in Recoveries
      BY <3>1 DEF Recoveries
    <3>. QED
      BY <1>1, <1>2, <1>3, <2>3, <3>2, Apart DEF Joined
  <2>. QED
    BY <2>1, <2>2, <2>3
<1>10. ~h.recovering => recovery = None /\ recovery' = None
  BY <1>2, <1>3, <1>9
<1>. QED
  BY <1>1, <1>7, <1>8, <1>9, <1>10 DEF h

\* A recovery that goes on, or starts, has its shape.
LEMMA JoinedType ==
  ASSUME TypeOK, Joined
  PROVE  /\ recovery' \in Recoveries \union {None}
         /\ recovery' # None /\ recovery'.at # "load" => recovery'.tail # None
         /\ recovery # None => /\ recovery' # None
                               /\ recovery'.at = recovery.at /\ recovery'.tail = recovery.tail
                               /\ recovery'.seal = recovery.seal
                               /\ recovery'.displaced = recovery.displaced
         /\ recovery = None /\ recovery' # None =>
              recovery'.at = "load" /\ recovery'.tail = None /\ ~recovery'.displaced
<1>1. /\ recovery \in Recoveries \union {None}
      /\ recovery # None /\ recovery.at # "load" => recovery.tail # None
  BY DEF TypeOK
<1>2. CASE recovery' = recovery
  BY <1>1, <1>2
<1>3. CASE recovery = None /\ recovery' = Recovering(FALSE, TRUE)
  BY <1>1, <1>3 DEF Recovering, Recoveries
<1>4. CASE recovery # None /\ recovery' = [recovery EXCEPT !.wanted = TRUE]
  <2>1. /\ recovery' \in Recoveries
        /\ recovery'.at = recovery.at /\ recovery'.tail = recovery.tail
        /\ recovery'.seal = recovery.seal /\ recovery'.displaced = recovery.displaced
    BY <1>1, <1>4 DEF Recoveries
  <2>. QED
    BY <1>1, <1>4, <2>1, Apart
<1>. QED
  BY <1>2, <1>3, <1>4 DEF Joined

\* The end of a recovery lets the pump go on with the record it leaves.
LEMMA RecoveryEndsRel ==
  ASSUME TypeOK, NEW m, Shaped(m), NEW q \in Queues, NEW ok \in BOOLEAN,
         RecoveryEnds(m, q, ok)
  PROVE  LET r == [q EXCEPT !.recovering = FALSE]
         IN  /\ mem' = m /\ recovery' = None /\ recovered' = (recovered \/ ok)
             /\ <<turn, phase, ended, live, crashes, seen>>'
                  = <<turn, phase, ended, live, crashes, seen>>
             /\ Eased(r, queue') /\ ~queue'.recovering
             /\ r.interrupted = q.interrupted /\ r.terminal = q.terminal
             /\ r.sealing = q.sealing /\ r.sealId = q.sealId
             /\ flight' \in Requests \union {Spin, None}
             /\ flight' = flight \/ (flight = None /\ Begins(m, r, flight'))
<1> DEFINE r == [q EXCEPT !.recovering = FALSE]
           p == Pumped(m, r, flight)
           done == IF ok /\ recovery.wanted THEN Scheduled(m, p, FALSE) ELSE p
<1>1. /\ mem' = m /\ recovery' = None /\ recovered' = (recovered \/ ok)
      /\ <<turn, phase, ended, live, crashes, seen>>' = <<turn, phase, ended, live, crashes, seen>>
      /\ queue' = done.q /\ flight' = done.flight
  BY DEF RecoveryEnds, turnVars
<1>2. r \in Queues
  BY SetQueue
<1>3. /\ r.interrupted = q.interrupted /\ r.terminal = q.terminal /\ ~r.recovering
      /\ r.sealing = q.sealing /\ r.sealId = q.sealId
  BY DEF Queues
<1>4. flight \in Requests \union {Spin, None}
  BY DEF TypeOK
<1> HIDE DEF r
<1>5. /\ p \in Pumps /\ Eased(r, p.q)
      /\ p.flight = flight \/ (flight = None /\ Begins(m, r, p.flight))
  BY <1>2, <1>4, PumpedRel
<1> HIDE DEF p
<1>6. LET s == Scheduled(m, p, FALSE)
      IN  /\ s \in Pumps /\ Eased(p.q, s.q)
          /\ \/ s.flight = p.flight
             \/ p.flight = None /\ Begins(m, p.q, s.flight)
  BY <1>5, ScheduledRel
<1>7. /\ done \in Pumps /\ Eased(r, done.q)
      /\ done.flight = flight \/ (flight = None /\ Begins(m, r, done.flight))
  <2>1. CASE ~(ok /\ recovery.wanted)
    BY <1>5, <2>1
  <2>2. CASE ok /\ recovery.wanted
    <3>1. done = Scheduled(m, p, FALSE)
      BY <2>2
    <3> HIDE DEF done
    <3>2. Eased(r, done.q)
      BY <1>2, <1>5, <1>6, <3>1, EasedTwice
    <3>3. Begins(m, p.q, done.flight) => Begins(m, r, done.flight)
      BY <1>5, BeginsBefore
    <3>. QED
      BY <1>5, <1>6, <3>1, <3>2, <3>3
  <2>. QED
    BY <2>1, <2>2
<1> HIDE DEF done
<1>8. Eased(r, queue') /\ ~queue'.recovering /\ flight' \in Requests \union {Spin, None}
  BY <1>1, <1>3, <1>7 DEF Eased, Pumps
<1>. QED
  BY <1>1, <1>3, <1>7, <1>8 DEF r

-----------------------------------------------------------------------------
(* Type correctness. *)

\* A store of the past holds a tail, and what that tail names once.
LEMMA PastTailIsThere ==
  ASSUME NEW over \in BOOLEAN
  PROVE  PastStore(over) \in Stores /\ PastStore(over).tail # None
<1>0. EmptyStore \in Stores
  BY NothingYet DEF EmptyStore, Stores
<1> DEFINE w == [e \in Entries |-> IF e \in PastEntries(over) THEN 1 ELSE 0]
           x == [id |-> StartOf(1), ended |-> over, entries |-> PastEntries(over),
                 revision |-> 1]
           a == [EmptyStore EXCEPT !.stored = w]
<1>1. w \in Versions
  BY TranscriptBounds DEF Versions
<1>2. PastEntries(over) \in SUBSET Entries
  <2>1. 1 \in Turns
    BY TranscriptBounds DEF Turns
  <2>. QED
    BY <2>1, TranscriptBounds DEF PastEntries, Entries
<1>3. StartOf(1) \in Names
  BY TranscriptBounds DEF StartOf, Names, Turns
<1>4. x \in StoredTails
  BY <1>2, <1>3 DEF StoredTails
<1>5. PastStore(over) = [a EXCEPT !.tail = x]
  BY DEF PastStore, EmptyStore
<1> HIDE DEF w, x
<1>6. a \in Stores
  BY <1>0, <1>1, SetStore
<1>7. [a EXCEPT !.tail = x] \in Stores /\ [a EXCEPT !.tail = x].tail = x
  BY <1>4, <1>6, SetStore DEF Stores
<1>. QED
  BY <1>4, <1>5, <1>7, Apart

\* A session of the past was stored in good shape.
LEMMA InitType ==
  ASSUME Init
  PROVE  TypeOK
<1>1. EmptyTail \in LiveTails
  BY NothingYet DEF EmptyTail, LiveTails
<1>2. Held(EmptyTail) = {}
  BY NothingYet DEF EmptyTail, Held
<1>3. Shaped(EmptyTail)
  BY <1>1, <1>2 DEF Shaped, EmptyTail
<1>4. EmptyQueue \in Queues /\ EmptyQueue.recovering = FALSE
  BY DEF EmptyQueue, Queues
<1>5. EmptyStore \in Stores /\ EmptyStore.tail = None
  BY NothingYet DEF EmptyStore, Stores
<1>6. ASSUME NEW over \in BOOLEAN
      PROVE  PastStore(over) \in Stores /\ PastStore(over).tail # None
  BY PastTailIsThere
<1>7. native \in Stores
  BY <1>5, <1>6 DEF Init
<1>8. turn \in 0 .. MaxTurns
  BY TranscriptBounds DEF Init
<1>9. seen \in Versions
  BY <1>7, TranscriptBounds DEF Init, Stores, Versions
<1>10. faults \in 0 .. MaxFaults /\ crashes \in 0 .. MaxCrashes
  BY TranscriptBounds DEF Init
<1>. QED
  BY <1>3, <1>4, <1>7, <1>8, <1>9, <1>10 DEF Init, TypeOK, Shaped

\* A step keeps the shapes if it does so part by part.
LEMMA TypeParts ==
  ASSUME TypeOK,
         turn' \in 0 .. MaxTurns, phase' \in {"idle", "running", "stopped", "settled"},
         phase' # "idle" => turn' # 0, ended' \subseteq Turns, seen' \in Versions,
         Shaped(mem'), queue' \in Queues, queue'.recovering <=> recovery' # None,
         flight' \in Requests \union {Spin, None},
         recovery' \in Recoveries \union {None},
         recovery' # None /\ recovery'.at # "load" => recovery'.tail # None,
         recovered' \in BOOLEAN, live' \in BOOLEAN, native' \in Stores,
         faults' \in 0 .. MaxFaults, crashes' \in 0 .. MaxCrashes
  PROVE  TypeOK'
BY DEF TypeOK, Shaped

\* An event that gives the tail a shaped value keeps the shapes.
LEMMA HandledType ==
  ASSUME TypeOK, NEW m, Shaped(m), NEW seals, NEW reached, Handled(m, seals, reached),
         turn' \in 0 .. MaxTurns, phase' \in {"idle", "running", "stopped", "settled"},
         phase' # "idle" => turn' # 0, ended' \subseteq Turns, seen' \in Versions
  PROVE  TypeOK'
<1>1. /\ mem' = m /\ native' = native /\ recovered' = recovered
      /\ faults' = faults /\ crashes' = crashes /\ live' = TRUE
      /\ Eased(Handling(m, seals), queue')
      /\ flight' \in Requests \union {Spin, None}
      /\ Joined
      /\ queue'.recovering <=> recovery' # None
  BY HandledRel
<1>2. queue' \in Queues
  BY <1>1 DEF Eased
<1>3. /\ recovery' \in Recoveries \union {None}
      /\ recovery' # None /\ recovery'.at # "load" => recovery'.tail # None
  BY <1>1, JoinedType
<1>4. /\ native \in Stores /\ recovered \in BOOLEAN /\ faults \in 0 .. MaxFaults
      /\ crashes \in 0 .. MaxCrashes
  BY DEF TypeOK
<1>. QED
  BY <1>1, <1>2, <1>3, <1>4, TypeParts

\* The live tail of a turn k that begins.
Beginning(k) ==
  Upserted(Upserted(Begun(mem, StartOf(k)), <<k, "status">>, 1), <<k, "text">>, 1)

\* The live tail when the text of a turn k comes to its version v.
Adding(k, v) == Upserted(Provisional(mem, LateIn(k, v)), <<k, "text">>, v)

\* The live tail has its shape.
LEMMA MemShaped ==
  ASSUME TypeOK
  PROVE  /\ Shaped(mem)
         /\ \A k \in Turns : Shaped(Begun(mem, StartOf(k))) /\ Shaped(Beginning(k))
         /\ \A k \in Turns : \A v \in 1 .. MaxVersion : Shaped(Adding(k, v))
<1>1. Shaped(mem)
  BY DEF TypeOK, Shaped
<1>2. ASSUME NEW k \in Turns
      PROVE  Shaped(Begun(mem, StartOf(k))) /\ Shaped(Beginning(k))
  <2>1. StartOf(k) \in Names /\ <<k, "status">> \in Entries /\ <<k, "text">> \in Entries
    BY EntryTypes
  <2>2. Shaped(Begun(mem, StartOf(k)))
    BY <1>1, <2>1, BegunFields
  <2> DEFINE a == Upserted(Begun(mem, StartOf(k)), <<k, "status">>, 1)
  <2>3. 1 \in 1 .. MaxVersion
    BY TranscriptBounds
  <2>4. Shaped(a)
    BY <2>1, <2>2, <2>3, UpsertedFields
  <2> HIDE DEF a
  <2>5. Shaped(Upserted(a, <<k, "text">>, 1))
    BY <2>1, <2>3, <2>4, UpsertedFields
  <2>. QED
    BY <2>2, <2>5 DEF a, Beginning
<1>3. ASSUME NEW k \in Turns, NEW v \in 1 .. MaxVersion
      PROVE  Shaped(Adding(k, v))
  <2>0. v \in 0 .. MaxVersion
    BY TranscriptBounds
  <2>1. LateIn(k, v) \in Names /\ <<k, "text">> \in Entries
    BY <2>0, EntryTypes
  <2>2. Shaped(Provisional(mem, LateIn(k, v)))
    BY <1>1, <2>1, ProvisionalFields
  <2>. QED
    BY <2>1, <2>2, UpsertedFields DEF Adding
<1>. QED
  BY <1>1, <1>2, <1>3

\* The beginning of a turn keeps the shapes,
LEMMA TurnBeginsType ==
  ASSUME TypeOK, TurnBegins
  PROVE  TypeOK'
<1> DEFINE k == turn + 1
<1>1. k \in Turns /\ k \in 0 .. MaxTurns
  BY TranscriptBounds DEF TurnBegins, TypeOK, Turns
<1>2. Shaped(Beginning(k))
  BY <1>1, MemShaped
<1>3. /\ Handled(Beginning(k), FALSE, FALSE)
      /\ turn' = k /\ phase' = "running" /\ ended' = ended
      /\ seen' = [seen EXCEPT ![<<k, "status">>] = 1, ![<<k, "text">>] = 1]
  BY DEF TurnBegins, Beginning
<1> HIDE DEF k
<1>4. seen' \in Versions
  <2>1. seen \in [Entries -> 0 .. MaxVersion] /\ 1 \in 0 .. MaxVersion
    BY TranscriptBounds DEF TypeOK, Versions
  <2>. QED
    BY <1>3, <2>1 DEF Versions
<1>5. ended \subseteq Turns
  BY DEF TypeOK
<1>6. k # 0
  BY <1>1 DEF Turns
<1>. QED
  BY <1>1, <1>2, <1>3, <1>4, <1>5, <1>6, HandledType

\* and so does an addition to the text of any.
LEMMA AddsType ==
  ASSUME TypeOK, NEW k \in Turns, NEW reached, Adds(k, reached),
         UNCHANGED turnVars
  PROVE  TypeOK'
<1> DEFINE e == <<k, "text">>
           v == seen[e] + 1
<1>1. e \in Entries
  BY EntryTypes
<1>2. v \in 1 .. MaxVersion
  BY <1>1 DEF Adds, TypeOK, Versions
<1>3. Shaped(Adding(k, v))
  BY <1>2, MemShaped
<1>4. Handled(Adding(k, v), FALSE, reached) /\ seen' = [seen EXCEPT ![e] = v]
  BY DEF Adds, Adding
<1> HIDE DEF e, v
<1>5. seen' \in Versions
  <2>1. seen \in [Entries -> 0 .. MaxVersion] /\ v \in 0 .. MaxVersion
    BY <1>2 DEF TypeOK, Versions
  <2>. QED
    BY <1>4, <2>1 DEF Versions
<1>6. /\ turn' \in 0 .. MaxTurns /\ phase' \in {"idle", "running", "stopped", "settled"}
      /\ phase' # "idle" => turn' # 0
      /\ ended' \subseteq Turns
  BY DEF TypeOK, turnVars
<1>. QED
  BY <1>3, <1>4, <1>5, <1>6, HandledType

\* What leaves everything but the record and the request as it is.
LEMMA PumpType ==
  ASSUME TypeOK, NEW p \in Pumps, p.q.recovering = queue.recovering,
         queue' = p.q, flight' = p.flight,
         UNCHANGED <<turn, phase, ended, mem, recovery, recovered, live, native, seen>>,
         faults' \in 0 .. MaxFaults, crashes' \in 0 .. MaxCrashes
  PROVE  TypeOK'
BY DEF TypeOK, Pumps

\* A seal asked for, and the timers, only let the pump go on.
LEMMA StopsRel ==
  ASSUME TypeOK, Stops
  PROVE  /\ LET p == SealRequested(mem, queue, flight)
            IN  /\ p \in Pumps /\ queue' = p.q /\ flight' = p.flight
                /\ p.q.recovering = queue.recovering
         /\ Eased(Asking(mem, queue), queue')
         /\ \/ flight' = flight
            \/ flight = None /\ recovery = None /\ Begins(mem, Asking(mem, queue), flight')
         /\ phase = "running" /\ phase' = "stopped"
         /\ UNCHANGED <<turn, ended, mem, recovery, recovered, live, native, faults,
                        crashes, seen>>
<1>1. /\ Shaped(mem) /\ queue \in Queues /\ flight \in Requests \union {Spin, None}
      /\ queue.recovering <=> recovery # None
  BY MemShaped DEF TypeOK
<1>2. LET p == SealRequested(mem, queue, flight)
      IN  /\ p \in Pumps /\ Eased(Asking(mem, queue), p.q)
          /\ \/ p.flight = flight
             \/ flight = None /\ ~queue.recovering /\ Begins(mem, Asking(mem, queue), p.flight)
  BY <1>1, SealRequestedRel
<1>3. Asking(mem, queue).recovering = queue.recovering
  BY <1>1, AskingFields
<1>. QED
  BY <1>1, <1>2, <1>3 DEF Stops, Eased, bounds

\* A timer only runs the pump: all but the record and the request stays.
LEMMA TimersRel ==
  ASSUME TypeOK, CheckpointTimer \/ RetryTimer
  PROVE  /\ queue' \in Queues /\ flight' \in Requests \union {Spin, None}
         /\ Eased(queue, queue')
         /\ \/ flight' = flight
            \/ flight = None /\ recovery = None /\ Begins(mem, queue, flight')
         /\ UNCHANGED <<turn, phase, ended, mem, recovery, recovered, live, native, faults,
                        crashes, seen>>
<1> DEFINE a == MadeDue(queue)
           b == [queue EXCEPT !.retry = FALSE, !.due = TRUE]
<1>1. /\ Shaped(mem) /\ queue \in Queues /\ flight \in Requests \union {Spin, None}
      /\ queue.recovering <=> recovery # None
  BY MemShaped DEF TypeOK
<1>2. Eased(queue, a) /\ Eased(queue, b)
  BY <1>1, Easings
<1>3. PICK r \in {a, b} : LET p == Pumped(mem, r, flight)
                          IN queue' = p.q /\ flight' = p.flight
  BY DEF CheckpointTimer, RetryTimer
<1>4. UNCHANGED <<turn, phase, ended, mem, recovery, recovered, live, native, faults,
                  crashes, seen>>
  BY DEF CheckpointTimer, RetryTimer, Timers, bounds
<1> HIDE DEF a, b
<1>5. Eased(queue, r) /\ r \in Queues /\ r.recovering = queue.recovering
  BY <1>2, <1>3 DEF Eased
<1>6. LET p == Pumped(mem, r, flight)
      IN  /\ p \in Pumps /\ Eased(r, p.q)
          /\ p.flight = flight \/ (flight = None /\ ~r.recovering /\ Begins(mem, r, p.flight))
  BY <1>1, <1>5, PumpedRel
<1>7. Eased(queue, queue')
  BY <1>1, <1>3, <1>5, <1>6, EasedTwice
<1>8. Begins(mem, r, flight') => Begins(mem, queue, flight')
  BY <1>5, BeginsBefore
<1>9. queue' \in Queues /\ flight' \in Requests \union {Spin, None}
  BY <1>3, <1>6 DEF Pumps
<1>. QED
  BY <1>1, <1>3, <1>4, <1>5, <1>6, <1>7, <1>8, <1>9

\* A Stop and the timers keep the shapes.
LEMMA PumpsType ==
  ASSUME TypeOK, Stops \/ CheckpointTimer \/ RetryTimer
  PROVE  TypeOK'
<1>1. CASE Stops
  BY <1>1, StopsRel DEF TypeOK, Pumps
<1>2. CASE CheckpointTimer \/ RetryTimer
  <2>1. /\ queue' \in Queues /\ flight' \in Requests \union {Spin, None}
        /\ queue'.recovering = queue.recovering
        /\ UNCHANGED <<turn, phase, ended, mem, recovery, recovered, live, native, faults,
                       crashes, seen>>
    BY <1>2, TimersRel DEF Eased
  <2>. QED
    BY <2>1 DEF TypeOK
<1>. QED
  BY <1>1, <1>2

\* The status entries go, and then the turn has ended.
LEMMA TurnOverType ==
  ASSUME TypeOK, TurnSettles \/ TurnEnds
  PROVE  TypeOK'
<1>1. Shaped(mem) /\ turn \in 0 .. MaxTurns /\ seen \in Versions /\ ended \subseteq Turns
  BY MemShaped DEF TypeOK
<1>2. CASE TurnSettles
  <2> DEFINE S == {e \in Held(mem) : e[2] = "status"}
  <2>1. Handled(Removed(mem, S), FALSE, FALSE) /\ Shaped(Removed(mem, S))
    BY <1>1, <1>2, RemovedFields DEF TurnSettles
  <2>2. /\ turn' = turn /\ phase' = "settled" /\ ended' = ended
        /\ seen' = [e \in Entries |-> IF e[2] = "status" THEN 0 ELSE seen[e]]
    BY <1>2 DEF TurnSettles
  <2>3. seen' \in Versions
    BY <1>1, <2>2, TranscriptBounds DEF Versions
  <2> HIDE DEF S
  <2>4. turn # 0
    BY <1>2 DEF TurnSettles, TypeOK
  <2>. QED
    BY <1>1, <2>1, <2>2, <2>3, <2>4, HandledType
<1>3. CASE TurnEnds
  <2>0. turn \in Turns
    BY <1>1, <1>3, TranscriptBounds DEF TurnEnds, TypeOK, Turns
  <2>1. MessageOf(turn) \in Names
    BY <2>0, EntryTypes
  <2>2. Handled(Ended(mem, MessageOf(turn)), TRUE, FALSE) /\ Shaped(Ended(mem, MessageOf(turn)))
    BY <1>1, <1>3, <2>1, EndedFields DEF TurnEnds
  <2>3. turn' = turn /\ phase' = "idle" /\ ended' = ended \union {turn} /\ seen' = seen
    BY <1>3 DEF TurnEnds
  <2>4. ended' \subseteq Turns
    BY <1>1, <2>0, <2>3
  <2>. QED
    BY <1>1, <2>2, <2>3, <2>4, HandledType
<1>. QED
  BY <1>2, <1>3

\* The last version of the text a late entry adds to is that of a turn.
LEMMA EventsType ==
  ASSUME TypeOK, Events
  PROVE  TypeOK'
<1>1. CASE TurnBegins
  BY <1>1, TurnBeginsType
<1>2. ASSUME NEW reached \in BOOLEAN, Streams(reached) PROVE TypeOK'
  <2>1. turn \in Turns
    BY <1>2, TranscriptBounds DEF Streams, TypeOK, Turns
  <2>2. Adds(turn, reached) /\ UNCHANGED turnVars
    BY <1>2 DEF Streams, Adds
  <2>. QED
    BY <2>1, <2>2, AddsType
<1>3. ASSUME NEW k \in Turns, LateDelta(k) PROVE TypeOK'
  <2>1. Adds(k, FALSE) /\ UNCHANGED turnVars
    BY <1>3 DEF LateDelta, Adds
  <2>. QED
    BY <2>1, AddsType
<1>4. CASE Stops
  BY <1>4, PumpsType
<1>5. CASE TurnSettles \/ TurnEnds
  BY <1>5, TurnOverType
<1>6. ASSUME NEW seal \in BOOLEAN, OpenHistory(seal) PROVE TypeOK'
  <2>1. /\ recovery' = Recovering(seal, FALSE)
        /\ queue' = [queue EXCEPT !.recovering = TRUE]
        /\ UNCHANGED <<turn, phase, ended, mem, flight, recovered, live, native, faults,
                       crashes, seen>>
    BY <1>6 DEF OpenHistory, turnVars, bounds
  <2>2. Recovering(seal, FALSE) \in Recoveries /\ Recovering(seal, FALSE).at = "load"
    BY DEF Recovering, Recoveries
  <2>3. queue' \in Queues /\ queue'.recovering = TRUE
    <3>1. queue \in Queues
      BY DEF TypeOK
    <3>2. queue' \in Queues
      BY <2>1, <3>1, SetQueue
    <3>. QED
      BY <2>1, <3>1, <3>2 DEF Queues
  <2>. QED
    BY <2>1, <2>2, <2>3, Apart DEF TypeOK
<1>. QED
  BY <1>1, <1>2, <1>3, <1>4, <1>5, <1>6 DEF Events

\* The records with which the pass goes on after a tail of the past.
LEMMA ServedQueues ==
  ASSUME TypeOK
  PROVE  LET a == [queue EXCEPT !.terminal = None]
             b == [queue EXCEPT !.interrupted = None]
         IN  /\ a \in Queues /\ b \in Queues
             /\ a.recovering = queue.recovering /\ b.recovering = queue.recovering
             /\ a.terminal = None /\ a.interrupted = queue.interrupted
             /\ b.interrupted = None /\ b.terminal = queue.terminal
             /\ a.sealing = queue.sealing /\ a.sealId = queue.sealId
             /\ b.sealing = queue.sealing /\ b.sealId = queue.sealId
<1>1. queue \in Queues
  BY DEF TypeOK
<1>2. [queue EXCEPT !.terminal = None] \in Queues /\ [queue EXCEPT !.interrupted = None] \in Queues
  BY <1>1, SetQueue
<1>. QED
  BY <1>1, <1>2 DEF Queues

\* Whatever the request was, the pass goes on with shaped parts.
LEMMA DoneType ==
  ASSUME TypeOK, NEW f \in Requests
  PROVE  LET d == Done(f)
         IN  /\ Shaped(d.m) /\ d.p \in Pumps
             /\ d.p.q.recovering = queue.recovering
<1>1. /\ Shaped(mem) /\ queue \in Queues
  BY MemShaped DEF TypeOK
<1>2. f.at \in {"checkpoint", "closing", "seal", "closed", "displaced", "reconcile"}
  BY DEF Requests
<1>3. CASE f.at = "checkpoint"
  <2>1. Done(f) = CheckpointDone(f)
    BY <1>3 DEF Done
  <2>2. LET d == CheckpointDone(f)
        IN  /\ d.m = Acknowledged(mem, f.tail.version, f.pending, f.removed)
            /\ d.p \in Pumps /\ Eased(queue, d.p.q)
    BY <1>1, CheckpointDoneRel
  <2>. QED
    BY <1>1, <2>1, <2>2, AcknowledgedFields DEF Eased
<1>4. CASE f.at = "closing"
  <2> DEFINE g == [f EXCEPT !.at = "closed"]
  <2>1. g \in Requests
    BY DEF Requests
  <2> HIDE DEF g
  <2>2. Done(f) = [m |-> mem, p |-> [q |-> queue, flight |-> g]]
    BY <1>4 DEF Done, g
  <2>. QED
    BY <1>1, <2>1, <2>2 DEF Pumps
<1>5. CASE f.at = "seal"
  <2>1. Done(f) = SealDone(f)
    BY <1>5 DEF Done
  <2>. QED
    BY <1>1, <2>1, SealDoneRel DEF Eased
<1>6. CASE f.at = "closed"
  <2>1. Done(f) = ClosedSealDone(f)
    BY <1>6 DEF Done
  <2>. QED
    BY <1>1, <2>1, ClosedSealDoneRel DEF Eased
<1>7. CASE f.at \in {"reconcile", "displaced"}
  <2> DEFINE q == IF f.at = "reconcile" THEN [queue EXCEPT !.terminal = None]
                  ELSE [queue EXCEPT !.interrupted = None]
  <2>1. Done(f) = RecoveredDone(f, q)
    BY <1>7 DEF Done
  <2>2. q \in Queues /\ q.recovering = queue.recovering
    BY <1>1, ServedQueues
  <2> HIDE DEF q
  <2>3. LET d == RecoveredDone(f, q)
        IN  Shaped(d.m) /\ d.p \in Pumps /\ Eased(q, d.p.q)
    BY <1>1, <2>2, RecoveredDoneRel
  <2>. QED
    BY <2>1, <2>2, <2>3 DEF Eased
<1>. QED
  BY <1>2, <1>3, <1>4, <1>5, <1>6, <1>7

\* The answer to a request keeps the shapes,
LEMMA AnsweredType ==
  ASSUME TypeOK, Awake, Answered
  PROVE  TypeOK'
<1>1. flight \in Requests
  BY DEF TypeOK, Awake, Answered
<1>2. UNCHANGED <<turn, phase, ended, recovery, recovered, live, faults, crashes, seen>>
  BY DEF Answered, turnVars, bounds
<1>3. native \in Stores /\ queue \in Queues
  BY DEF TypeOK
<1>4. CASE Takes(native, flight)
  <2>1. /\ native' = Made(native, flight)
        /\ mem' = Done(flight).m /\ queue' = Done(flight).p.q
        /\ flight' = Done(flight).p.flight
    BY <1>4 DEF Answered
  <2>2. /\ Shaped(Done(flight).m) /\ Done(flight).p \in Pumps
        /\ Done(flight).p.q.recovering = queue.recovering
    BY <1>1, DoneType
  <2>3. native' \in Stores
    BY <1>1, <1>3, <2>1, MadeType
  <2>4. queue' \in Queues /\ flight' \in Requests \union {Spin, None}
    BY <2>1, <2>2 DEF Pumps
  <2>. QED
    BY <1>2, <2>1, <2>2, <2>3, <2>4 DEF TypeOK, Shaped
<1>5. CASE ~Takes(native, flight)
  <2>1. queue' = Failed(queue) /\ flight' = None /\ UNCHANGED <<mem, native>>
    BY <1>5 DEF Answered
  <2>2. queue' \in Queues /\ queue'.recovering = queue.recovering
    BY <1>3, <2>1, Easings DEF Eased
  <2>. QED
    BY <1>2, <2>1, <2>2 DEF TypeOK
<1>. QED
  BY <1>4, <1>5

\* and so does its failure.
LEMMA RequestFailsType ==
  ASSUME TypeOK, Awake, NEW lost \in BOOLEAN, RequestFails(lost)
  PROVE  TypeOK'
<1>1. flight \in Requests
  BY DEF TypeOK, Awake, RequestFails
<1>2. /\ UNCHANGED <<turn, phase, ended, mem, recovery, recovered, live, crashes, seen>>
      /\ queue' = Failed(queue) /\ flight' = None
      /\ native' = (IF lost THEN Made(native, flight) ELSE native)
      /\ faults' = faults + 1 /\ faults < MaxFaults
  BY DEF RequestFails, turnVars
<1>3. native' \in Stores
  BY <1>1, <1>2, MadeType DEF TypeOK
<1>4. queue' \in Queues /\ queue'.recovering = queue.recovering
  BY <1>2, Easings DEF Eased, TypeOK
<1>5. faults' \in 0 .. MaxFaults
  BY <1>2, TranscriptBounds DEF TypeOK
<1>. QED
  BY <1>2, <1>3, <1>4, <1>5 DEF TypeOK

\* The request of a recovery that has its tail is one.
LEMMA RecoveryFlightType ==
  ASSUME TypeOK, recovery # None, recovery.at # "load"
  PROVE  /\ recovery \in Recoveries /\ recovery.tail \in Tails
         /\ RecoveryFlight \in Requests /\ RecoveryFlight.tail = recovery.tail
         /\ RecoveryFlight.at = IF recovery.at = "seal" THEN "displaced" ELSE "reconcile"
         /\ recovery.at \in {"seal", "reconcile"}
<1>1. recovery \in Recoveries /\ recovery.tail \in Tails /\ recovery.at \in {"seal", "reconcile"}
  BY DEF TypeOK, Recoveries
<1>. QED
  BY <1>1 DEF RecoveryFlight, Flight, Requests

\* The records a recovery leaves.
LEMMA RecoveryQueues ==
  ASSUME TypeOK
  PROVE  /\ \A t \in Tails :
              /\ RestoredQueue(t) \in Queues
              /\ RestoredQueue(t).recovering = queue.recovering
              /\ RestoredQueue(t).interrupted = queue.interrupted
              /\ RestoredQueue(t).terminal = queue.terminal
              /\ RestoredQueue(t).sealing =
                   ((queue.sealing /\ queue.sealId = t.id) \/ t.ended)
              /\ RestoredQueue(t).sealId \in {None, t.id}
         /\ recovery # None /\ recovery.at # "load" =>
              /\ KeptForRetry \in Queues
              /\ KeptForRetry.interrupted =
                   IF recovery.at = "seal" /\ recovery.displaced
                     THEN recovery.tail ELSE queue.interrupted
              /\ KeptForRetry.terminal =
                   IF recovery.at = "reconcile" THEN recovery.tail ELSE queue.terminal
              /\ KeptForRetry.sealing = queue.sealing /\ KeptForRetry.sealId = queue.sealId
<1>1. queue \in Queues
  BY DEF TypeOK
<1>2. ASSUME NEW t \in Tails
      PROVE  /\ RestoredQueue(t) \in Queues
             /\ RestoredQueue(t).recovering = queue.recovering
             /\ RestoredQueue(t).interrupted = queue.interrupted
             /\ RestoredQueue(t).terminal = queue.terminal
             /\ RestoredQueue(t).sealing = ((queue.sealing /\ queue.sealId = t.id) \/ t.ended)
             /\ RestoredQueue(t).sealId \in {None, t.id}
  <2> DEFINE x == (queue.sealing /\ queue.sealId = t.id) \/ t.ended
             y == IF x THEN t.id ELSE None
             a == [queue EXCEPT !.saved = t.revision]
             b == [a EXCEPT !.sealing = x]
             c == [b EXCEPT !.sealId = y]
  <2>1. t.revision \in Nat /\ t.id \in Names /\ t.ended \in BOOLEAN
    BY DEF Tails
  <2>2. x \in BOOLEAN /\ y \in Names \union {None}
    BY <1>1, <2>1 DEF Queues
  <2>3. RestoredQueue(t) = c
    BY <1>1 DEF RestoredQueue, Queues
  <2>4. y \in {None, t.id}
    OBVIOUS
  <2> HIDE DEF x, y
  <2>5. a \in Queues
    BY <1>1, <2>1, SetQueue
  <2>6. b \in Queues
    BY <2>2, <2>5, SetQueue
  <2>7. c \in Queues
    BY <2>2, <2>6, SetQueue
  <2>8. /\ c.recovering = queue.recovering /\ c.interrupted = queue.interrupted
        /\ c.terminal = queue.terminal /\ c.sealing = x /\ c.sealId = y
    BY <1>1 DEF Queues
  <2>. QED
    BY <2>3, <2>4, <2>7, <2>8 DEF x
<1>3. ASSUME recovery # None, recovery.at # "load"
      PROVE  /\ KeptForRetry \in Queues
             /\ KeptForRetry.interrupted =
                   IF recovery.at = "seal" /\ recovery.displaced
                     THEN recovery.tail ELSE queue.interrupted
             /\ KeptForRetry.terminal =
                   IF recovery.at = "reconcile" THEN recovery.tail ELSE queue.terminal
             /\ KeptForRetry.sealing = queue.sealing /\ KeptForRetry.sealId = queue.sealId
  <2>1. recovery.tail \in Tails /\ recovery.at \in {"seal", "reconcile"}
    BY <1>3, RecoveryFlightType
  <2> DEFINE a == [queue EXCEPT !.terminal = recovery.tail]
             b == [queue EXCEPT !.interrupted = recovery.tail]
  <2>2. a \in Queues /\ b \in Queues
    BY <1>1, <2>1, SetQueue
  <2>3. /\ a.terminal = recovery.tail /\ a.interrupted = queue.interrupted
        /\ b.interrupted = recovery.tail /\ b.terminal = queue.terminal
        /\ a.sealing = queue.sealing /\ a.sealId = queue.sealId
        /\ b.sealing = queue.sealing /\ b.sealId = queue.sealId
    BY <1>1 DEF Queues
  <2>4. KeptForRetry = IF recovery.at = "reconcile" THEN a
                       ELSE IF recovery.displaced THEN b ELSE queue
    BY DEF KeptForRetry
  <2> HIDE DEF a, b
  <2>. QED
    BY <1>1, <2>1, <2>2, <2>3, <2>4
<1>. QED
  BY <1>2, <1>3

\* The end of a recovery keeps the shapes.
LEMMA RecoveryEndsType ==
  ASSUME TypeOK, NEW m, Shaped(m), NEW q \in Queues, NEW ok \in BOOLEAN,
         RecoveryEnds(m, q, ok), native' \in Stores, faults' \in 0 .. MaxFaults
  PROVE  TypeOK'
<1> DEFINE r == [q EXCEPT !.recovering = FALSE]
<1>1. /\ mem' = m /\ recovery' = None /\ recovered' = (recovered \/ ok)
      /\ <<turn, phase, ended, live, crashes, seen>>' = <<turn, phase, ended, live, crashes, seen>>
      /\ Eased(r, queue') /\ ~queue'.recovering
      /\ flight' \in Requests \union {Spin, None}
  BY RecoveryEndsRel
<1>2. queue' \in Queues
  BY <1>1 DEF Eased
<1>3. recovered' \in BOOLEAN
  BY <1>1 DEF TypeOK
<1>. QED
  BY <1>1, <1>2, <1>3, TypeParts DEF TypeOK

\* A recovery that has read the tail keeps the shapes,
LEMMA TailLoadedType ==
  ASSUME TypeOK, TailLoaded
  PROVE  TypeOK'
<1> DEFINE tail == Loaded(native)
<1>1. /\ Shaped(mem) /\ queue \in Queues /\ native \in Stores /\ faults \in 0 .. MaxFaults
      /\ UNCHANGED <<native, faults>> /\ recovery \in Recoveries /\ recovery # None
  BY MemShaped DEF TypeOK, TailLoaded
<1>2. CASE native.tail = None
  <2>1. RecoveryEnds(mem, queue, TRUE)
    BY <1>2 DEF TailLoaded
  <2>. QED
    BY <1>1, <2>1, RecoveryEndsType
<1>3. CASE native.tail # None
  <2> DEFINE at == IF tail.ended THEN "reconcile" ELSE "seal"
  <2>1. tail \in Tails
    BY <1>1, <1>3, LoadedFields
  <2>2. Shaped(Restored(mem, tail)) /\ RestoredQueue(tail) \in Queues
        /\ RestoredQueue(tail).recovering = queue.recovering
    BY <1>1, <2>1, RestoredFields, RecoveryQueues
  <2>3. \/ Goes(mem, queue, at, tail, TRUE)
        \/ Goes(Restored(mem, tail), RestoredQueue(tail), at, tail, FALSE)
        \/ RecoveryEnds(Restored(mem, tail), RestoredQueue(tail), TRUE)
    BY <1>3 DEF TailLoaded
  <2>4. ASSUME NEW m, Shaped(m), NEW q \in Queues, q.recovering = queue.recovering,
               NEW d \in BOOLEAN, Goes(m, q, at, tail, d)
        PROVE  TypeOK'
    <3>1. /\ mem' = m /\ queue' = q
          /\ recovery' = [recovery EXCEPT !.at = at, !.tail = tail, !.displaced = d]
          /\ UNCHANGED <<turn, phase, ended, flight, recovered, live, crashes, seen>>
      BY <2>4 DEF Goes, turnVars
    <3>2. at \in {"load", "seal", "reconcile"}
      OBVIOUS
    <3> HIDE DEF at, tail
    <3>3. recovery' \in Recoveries /\ recovery'.tail = tail
      BY <1>1, <2>1, <2>4, <3>1, <3>2 DEF Recoveries
    <3>4. tail # None /\ recovery' # None
      BY <2>1, <3>3, Apart
    <3>. QED
      BY <1>1, <2>4, <3>1, <3>3, <3>4 DEF TypeOK, Shaped
  <2> HIDE DEF at, tail
  <2>. QED
    BY <1>1, <2>2, <2>3, <2>4, RecoveryEndsType
<1>. QED
  BY <1>2, <1>3

\* and so does one that could not.
LEMMA LoadFailsType ==
  ASSUME TypeOK, LoadFails
  PROVE  TypeOK'
<1>1. /\ Shaped(mem) /\ queue \in Queues /\ native' \in Stores
  BY MemShaped DEF TypeOK, LoadFails
<1>2. faults' \in 0 .. MaxFaults
  BY TranscriptBounds DEF TypeOK, LoadFails
<1>3. RecoveryEnds(mem, queue, FALSE)
  BY DEF LoadFails
<1>. QED
  BY <1>1, <1>2, <1>3, RecoveryEndsType

\* What the recovery leaves when its request was answered.
RecoveredQueue ==
  IF recovery.displaced /\ recovery.at = "seal"
    THEN [SealServed(queue, recovery.tail.id) EXCEPT !.interrupted = None]
    ELSE SealServed(queue, recovery.tail.id)

\* What the record is once a recovery has sealed the tail.
LEMMA RecoveredQueueFields ==
  ASSUME TypeOK
  PROVE  /\ RecoveredQueue \in Queues
         /\ RecoveredQueue.terminal = queue.terminal
         /\ RecoveredQueue.interrupted =
              IF recovery.displaced /\ recovery.at = "seal" THEN None ELSE queue.interrupted
         /\ RecoveredQueue.sealing => queue.sealing
         /\ \/ RecoveredQueue.sealId = queue.sealId
            \/ RecoveredQueue.sealId = None /\ ~RecoveredQueue.sealing
<1> DEFINE q == SealServed(queue, recovery.tail.id)
<1>1. queue \in Queues
  BY DEF TypeOK
<1>2. Eased(queue, q)
  BY <1>1, Easings
<1>3. RecoveredQueue = IF recovery.displaced /\ recovery.at = "seal"
                         THEN [q EXCEPT !.interrupted = None] ELSE q
  BY DEF RecoveredQueue
<1> HIDE DEF q
<1>4. q \in Queues
  BY <1>2 DEF Eased
<1>5. LET r == [q EXCEPT !.interrupted = None]
      IN  /\ r \in Queues /\ r.terminal = q.terminal /\ r.interrupted = None
          /\ r.sealing = q.sealing /\ r.sealId = q.sealId
  <2>1. [q EXCEPT !.interrupted = None] \in Queues
    BY <1>4, SetQueue
  <2>. QED
    BY <1>4, <2>1 DEF Queues
<1>. QED
  BY <1>2, <1>3, <1>4, <1>5 DEF Eased

\* A recovery that seals the tail keeps the shapes,
LEMMA RecoversType ==
  ASSUME TypeOK, Recovers
  PROVE  TypeOK'
<1>1. /\ recovery # None /\ recovery.at # "load" /\ Shaped(mem) /\ native \in Stores
      /\ faults' \in 0 .. MaxFaults
  BY MemShaped DEF TypeOK, Recovers
<1>2. CASE Takes(native, RecoveryFlight)
  <2>1. /\ native' = Made(native, RecoveryFlight)
        /\ RecoveryEnds(SealAcknowledged(mem, recovery.tail), RecoveredQueue, TRUE)
    BY <1>2 DEF Recovers, RecoveredQueue
  <2>2. native' \in Stores
    BY <1>1, <2>1, MadeType, RecoveryFlightType
  <2>3. Shaped(SealAcknowledged(mem, recovery.tail))
    BY <1>1, ClearedFields DEF SealAcknowledged
  <2>4. RecoveredQueue \in Queues
    BY RecoveredQueueFields
  <2>. QED
    BY <1>1, <2>1, <2>2, <2>3, <2>4, RecoveryEndsType
<1>3. CASE ~Takes(native, RecoveryFlight)
  <2>1. RecoveryEnds(mem, KeptForRetry, FALSE) /\ native' = native
    BY <1>3 DEF Recovers
  <2>. QED
    BY <1>1, <2>1, RecoveryEndsType, RecoveryQueues
<1>. QED
  BY <1>2, <1>3

\* and so does one that fails to.
LEMMA RecoveryFailsType ==
  ASSUME TypeOK, NEW lost \in BOOLEAN, RecoveryFails(lost)
  PROVE  TypeOK'
<1>1. /\ recovery # None /\ recovery.at # "load" /\ Shaped(mem) /\ native \in Stores
  BY MemShaped DEF TypeOK, RecoveryFails
<1>2. faults' \in 0 .. MaxFaults
  BY TranscriptBounds DEF TypeOK, RecoveryFails
<1>3. RecoveryEnds(mem, KeptForRetry, FALSE)
      /\ native' = IF lost THEN Made(native, RecoveryFlight) ELSE native
  BY DEF RecoveryFails
<1>4. native' \in Stores
  BY <1>1, <1>3, MadeType, RecoveryFlightType
<1>. QED
  BY <1>1, <1>2, <1>3, <1>4, RecoveryEndsType, RecoveryQueues

\* An empty memory and the store as it was left have their shapes.
LEMMA CrashType ==
  ASSUME TypeOK, NEW carried \in BOOLEAN, Crash(carried)
  PROVE  TypeOK'
<1>1. /\ carried => flight # None /\ flight # Spin
      /\ native' = (IF carried THEN Made(native, flight) ELSE native)
      /\ seen' = [e \in Entries |->
           IF e[2] = "text" /\ native'.stored[e] < seen[e] THEN native'.stored[e]
           ELSE IF e[2] = "text" THEN seen[e] ELSE 0]
      /\ phase' = "idle" /\ ended' = {} /\ turn' = turn
      /\ mem' = EmptyTail /\ queue' = EmptyQueue
      /\ flight' = None /\ recovery' = None /\ recovered' = FALSE /\ live' = FALSE
      /\ faults' = faults + 1 /\ faults < MaxFaults
      /\ crashes' = crashes + 1 /\ crashes < MaxCrashes
  BY DEF Crash
<1>2. native' \in Stores
  BY <1>1, MadeType DEF TypeOK
<1>3. seen' \in Versions
  <2>1. native'.stored \in [Entries -> 0 .. MaxVersion] /\ seen \in [Entries -> 0 .. MaxVersion]
        /\ 0 \in 0 .. MaxVersion
    BY <1>2, TranscriptBounds DEF Stores, TypeOK, Versions
  <2>. QED
    BY <1>1, <2>1 DEF Versions
<1>4. EmptyTail \in LiveTails /\ Held(EmptyTail) = {}
  BY NothingYet DEF EmptyTail, LiveTails, Held
<1>5. Shaped(EmptyTail)
  BY <1>4 DEF Shaped, EmptyTail
<1>6. EmptyQueue \in Queues /\ EmptyQueue.recovering = FALSE
  BY DEF EmptyQueue, Queues
<1>7. faults' \in 0 .. MaxFaults /\ crashes' \in 0 .. MaxCrashes
  BY <1>1, TranscriptBounds DEF TypeOK
<1>8. turn' \in 0 .. MaxTurns
  BY <1>1 DEF TypeOK
<1>. QED
  BY <1>1, <1>2, <1>3, <1>5, <1>6, <1>7, <1>8, TypeParts

\* Every step keeps the shapes.
LEMMA NextType ==
  ASSUME TypeOK, [Next]_vars
  PROVE  TypeOK'
<1>1. CASE Awake /\ Events
  BY <1>1, EventsType
<1>2. CASE Awake /\ Faults
  BY <1>2, RequestFailsType, RecoveryFailsType, LoadFailsType DEF Faults
<1>3. CASE Awake /\ Progress
  BY <1>3, PumpsType, AnsweredType, TailLoadedType, RecoversType DEF Progress
<1>4. CASE \E carried \in BOOLEAN : Crash(carried)
  BY <1>4, CrashType
<1>5. CASE UNCHANGED vars
  BY <1>5 DEF vars, TypeOK, Held, Present
<1>. QED
  BY <1>1, <1>2, <1>3, <1>4, <1>5 DEF Next

\* The live tail, the coordinator's record, its requests, the recovery and
\* the store have their shapes at all times: what waits to be written is in
\* the tail, what waits to be taken out is not, and the coordinator rests
\* just while a recovery is under way.
THEOREM TypeCorrect == Spec => []TypeOK
<1>1. Init => TypeOK
  BY InitType
<1>2. TypeOK /\ [Next]_vars => TypeOK'
  BY NextType
<1>. QED
  BY <1>1, <1>2, PTL DEF Spec

-----------------------------------------------------------------------------
(* Nothing is dropped: the inductive invariant.                            *)
(*                                                                         *)
(* Its parts speak of any value of the live tail m, the record q, the      *)
(* recovery r, the request f and the store n, and of how far the session   *)
(* is (w), so that they can be followed from one part of a step to the     *)
(* next.                                                                   *)

\* How far the session is.
Now == [turn |-> turn, phase |-> phase, ended |-> ended, seen |-> seen]

\* The turns this process knows the events of.
Own(w) == w.ended \union (IF w.phase = "idle" THEN {} ELSE {w.turn})

\* A name that a tail may bear by now: a turn is named by its message when it
\* has ended, and by a late entry when that has come.
Spent(w, id) ==
  /\ id[1] <= w.turn
  /\ id[1] \in Own(w) /\ id[2] = "message" => id[1] \in w.ended
  /\ id[1] \in Own(w) /\ id[2] = "late" => id[3] <= w.seen[<<id[1], "text">>]

\* No version is newer than the one shown; a status has one version.
Limit(w, e) == IF e[2] = "text" THEN w.seen[e] ELSE 1
\* No version in v is newer than that.
Within(w, v) == \A e \in Entries : v[e] <= Limit(w, e)

\* What both have, the second has in no older version.
Below(v, u) == \A e \in Entries : v[e] > 0 /\ u[e] > 0 => v[e] <= u[e]

\* The session has come to its turn, and later turns show nothing.
Timely(w) ==
  /\ w.turn \in 0 .. MaxTurns /\ w.seen \in Versions
  /\ w.ended \subseteq 1 .. w.turn
  /\ w.phase # "idle" => w.turn \notin w.ended /\ w.turn # 0
  /\ \A e \in Entries : e[1] > w.turn => w.seen[e] = 0

\* The live tail bears the name of the tail x only as long as nothing waits
\* behind it, and is at the revision of x only with the versions of x.
Matches(m, x) ==
  /\ m.closed = << >>
  /\ m.revision >= x.revision
  /\ m.revision = x.revision => m.version = x.version

\* A tail that was read some time ago and is to be written or sealed.
Known(w, m, x) ==
  /\ Spent(w, x.id) /\ Within(w, x.version)
  /\ x.id = m.id => Matches(m, x)

\* A tail that was loaded is as it is on disk, unless it is sealed there.
Fresh(n, x) ==
  /\ n.tail # None => Loaded(n) = x
  /\ \A e \in Present(x.version) : n.stored[e] = x.version[e]

\* What is being written is older than nothing stored and newer than nothing
\* that comes after it.
Ahead(m, n, x) ==
  /\ Below(n.stored, x.version) /\ Below(x.version, m.version)
  /\ \A i \in DOMAIN m.closed : Below(x.version, m.closed[i].version)

\* The turns that ended wait in the order they came, each under a name of its
\* own, and hold nothing older than the store does.
Lined(w, m, n) ==
  /\ m.id # None => Spent(w, m.id)
  /\ m.closed # << >> => m.id # None
  /\ Within(w, m.version) /\ Below(n.stored, m.version)
  /\ \A e \in m.removed : e[2] = "status" /\ w.seen[e] = 0
  /\ \A i \in DOMAIN m.closed :
       /\ Spent(w, m.closed[i].id) /\ m.closed[i].id # m.id
       /\ Within(w, m.closed[i].version) /\ Below(n.stored, m.closed[i].version)
       /\ Below(m.closed[i].version, m.version)
  /\ \A i, j \in DOMAIN m.closed :
       i < j => Below(m.closed[i].version, m.closed[j].version)

\* The tail on disk bears the name of the live one only when no turn waits
\* that it could hide.
Based(w, m, n) ==
  /\ Within(w, n.stored)
  /\ n.tail # None => Spent(w, n.tail.id) /\ (n.tail.id = m.id => m.closed = << >>)

\* What NothingIsDropped says.
Kept(w, m, n) ==
  /\ \A e \in Entries : w.seen[e] > 0 =>
       \/ m.version[e] >= w.seen[e]
       \/ n.stored[e] >= w.seen[e]
       \/ \E i \in DOMAIN m.closed : m.closed[i].version[e] >= w.seen[e]
  /\ \A e \in Held(m) \ m.pending : n.stored[e] >= m.version[e]

\* The tail a recovery loaded: displaced by another turn or not.
Displaced(m, x) == m.id \notin {None, x.id}

\* The tails of an earlier process that go first are what the store has, and
\* all of them are the same one.
LoadedFirst(w, m, q, r, n) ==
  /\ q.interrupted # None =>
       /\ Known(w, m, q.interrupted) /\ Fresh(n, q.interrupted)
       /\ Displaced(m, q.interrupted)
  /\ q.terminal # None => Known(w, m, q.terminal) /\ Fresh(n, q.terminal)
  /\ q.interrupted # None /\ q.terminal # None => q.interrupted = q.terminal
  /\ r # None /\ r.at # "load" =>
       /\ Known(w, m, r.tail) /\ Fresh(n, r.tail)
       /\ r.displaced => Displaced(m, r.tail)
       /\ q.interrupted # None => q.interrupted = r.tail
       /\ q.terminal # None => q.terminal = r.tail

\* The text of the turn of an entry.
TextOf(e) == <<e[1], "text">>

\* No status is in S without its text.
Paired(S) == \A e \in S : TextOf(e) \in S

\* A status that u has, v does not lack if it has the text.
Follows(v, u) == \A e \in Entries : v[TextOf(e)] > 0 /\ u[e] > 0 => v[e] > 0

\* The texts in S are among the versions v.
Carries(S, v) == \A e \in S : e[2] = "text" => v[e] > 0

\* A tail that bears the name of the one on disk has its texts.
Bears(n, x) == n.tail # None /\ n.tail.id = x.id => Carries(n.tail.entries, x.version)

\* What the tail on disk holds is stored, and so is what is sealed; a status
\* is stored with its text, and so both are sealed or none.
OnDisk(n) ==
  /\ n.tail # None => Paired(n.tail.entries) /\ \A e \in n.tail.entries : n.stored[e] > 0
  /\ \A e \in Entries : n.sealed[e] # None => n.stored[e] > 0
  /\ \A e \in Entries : n.sealed[TextOf(e)] # None /\ n.stored[e] > 0 => n.sealed[e] # None

\* No status is anywhere without its text, and none comes to the disk, or
\* behind a turn that ended, later than its text; tails of one name have the
\* texts of that name.
Whole(m, n) ==
  /\ Paired(Held(m)) /\ Paired(m.pending) /\ \A e \in m.removed : TextOf(e) \in Held(m)
  /\ Follows(n.stored, m.version) /\ Bears(n, m)
  /\ \A i \in DOMAIN m.closed :
       /\ Paired(Present(m.closed[i].version)) /\ Bears(n, m.closed[i])
       /\ Follows(n.stored, m.closed[i].version) /\ Follows(m.closed[i].version, m.version)
  /\ \A i, j \in DOMAIN m.closed : i < j =>
       /\ Follows(m.closed[i].version, m.closed[j].version)
       /\ m.closed[i].id # m.closed[j].id

\* The same of the tail x that is written or sealed by the pump,
Leads(m, n, x) ==
  /\ Paired(Present(x.version)) /\ Bears(n, x)
  /\ Follows(n.stored, x.version) /\ Follows(x.version, m.version)
  /\ x.id = m.id => Carries(Present(x.version), m.version)
  /\ \A i \in DOMAIN m.closed :
       /\ Follows(x.version, m.closed[i].version)
       /\ x.id = m.closed[i].id => Carries(Present(x.version), m.closed[i].version)

\* and of the entries a checkpoint writes: all that are not stored yet.
Writ(m, n, f) ==
  /\ f.at \in {"checkpoint", "closing"} =>
       /\ f.pending \subseteq Present(f.tail.version) /\ Paired(f.pending)
       /\ \A e \in f.removed : e[2] = "status"
       /\ \A e \in Present(f.tail.version) \ f.pending : n.stored[e] > 0
  /\ f.at = "checkpoint" =>
       \A e \in m.pending :
         e[2] = "status" /\ e \in Present(f.tail.version) => e \in f.pending

\* The request of the pump, but for those of a loaded tail.
Sent(m, n, f) ==
  f.at \in {"checkpoint", "closing", "seal", "closed"} => Leads(m, n, f.tail) /\ Writ(m, n, f)

\* The request under way.
Waits(w, m, q, f, n) ==
  f \in Requests =>
    /\ Known(w, m, f.tail) /\ Ahead(m, n, f.tail)
    /\ f.at \in {"checkpoint", "closing"} => f.pending \subseteq Present(f.tail.version)
    /\ f.at = "displaced" => q.interrupted # None /\ f.tail = q.interrupted
    /\ f.at = "reconcile" => q.terminal # None /\ f.tail = q.terminal
    /\ f.at \notin {"displaced", "reconcile"} => q.interrupted = None /\ q.terminal = None
    /\ f.at \in {"closing", "closed"} => m.closed # << >> /\ f.tail = m.closed[1]
    /\ Sent(m, n, f)

\* All of it but the request.
Rests(w, m, q, r, n) ==
  /\ Timely(w) /\ Lined(w, m, n) /\ Based(w, m, n) /\ Kept(w, m, n)
  /\ LoadedFirst(w, m, q, r, n) /\ OnDisk(n) /\ Whole(m, n)

\* No recovery runs while the pump waits for an answer.
RecoversAlone == recovery # None => flight = None

\* The inductive invariant.
IInv ==
  /\ TypeOK
  /\ Rests(Now, mem, queue, recovery, native)
  /\ Waits(Now, mem, queue, flight, native)

-----------------------------------------------------------------------------

\* Only the tails that go first matter of the record.
LEMMA SameLoads ==
  ASSUME NEW w, NEW m, NEW q, NEW p, NEW r, NEW n, NEW f,
         q.interrupted = p.interrupted, q.terminal = p.terminal
  PROVE  /\ Rests(w, m, q, r, n) <=> Rests(w, m, p, r, n)
         /\ Waits(w, m, q, f, n) <=> Waits(w, m, p, f, n)
BY DEF Rests, LoadedFirst, Waits

\* No request waits where none is.
LEMMA WaitsForNothing ==
  ASSUME NEW w, NEW m, NEW q, NEW n
  PROVE  Waits(w, m, q, None, n) /\ Waits(w, m, q, Spin, n)
BY Apart, SpinIsApart DEF Waits

\* The turns that ended are tails.
LEMMA ClosedTypes ==
  ASSUME NEW m, Shaped(m)
  PROVE  /\ m.closed \in Seq(Tails) /\ m.version \in Versions
         /\ DOMAIN m.closed = 1 .. Len(m.closed) /\ Len(m.closed) \in Nat
         /\ \A i \in DOMAIN m.closed : m.closed[i] \in Tails /\ m.closed[i].version \in Versions
         /\ m.closed # << >> => 1 \in DOMAIN m.closed /\ Head(m.closed) = m.closed[1]
         /\ m.closed = << >> => DOMAIN m.closed = {}
<1>1. m.closed \in Seq(Tails) /\ m.version \in Versions
  BY DEF Shaped, LiveTails
<1>2. DOMAIN m.closed = 1 .. Len(m.closed) /\ Len(m.closed) \in Nat
  BY <1>1
<1>3. \A i \in DOMAIN m.closed : m.closed[i] \in Tails
  BY <1>1
<1>4. \A x \in Tails : x.version \in Versions
  BY DEF Tails
<1>5. m.closed # << >> => 1 \in DOMAIN m.closed /\ Head(m.closed) = m.closed[1]
  BY <1>1
<1>6. m.closed = << >> => DOMAIN m.closed = {}
  OBVIOUS
<1>. QED
  BY <1>1, <1>2, <1>3, <1>4, <1>5, <1>6

\* Versions are natural numbers, and so are their limits.
LEMMA VersionNat ==
  /\ \A v \in Versions : \A e \in Entries : v[e] \in Nat
  /\ \A x \in Tails : x.version \in Versions
  /\ \A n \in Stores : n.stored \in Versions
  /\ \A w : Timely(w) => \A e \in Entries : Limit(w, e) \in Nat
BY TranscriptBounds DEF Versions, Tails, Stores, Timely, Limit

\* Every entry has the text of its turn, a text itself.
LEMMA TextIsEntry ==
  ASSUME NEW e \in Entries
  PROVE  /\ TextOf(e) \in Entries /\ TextOf(e)[1] = e[1] /\ TextOf(e)[2] = "text"
         /\ e[1] \in Turns /\ e[2] \in {"status", "text"}
         /\ e[2] = "text" => TextOf(e) = e
BY DEF Entries, TextOf

\* The live tail, when no turn waits before it, leads all that is in memory.
LEMMA LiveLeads ==
  ASSUME NEW m, Shaped(m), m.closed = << >>, NEW n, Whole(m, n),
         NEW x, x.id = m.id, x.version = m.version
  PROVE  Leads(m, n, x)
<1>1. Held(m) = Present(x.version) /\ DOMAIN m.closed = {}
  BY ClosedTypes DEF Held
<1>2. Paired(Present(x.version)) /\ Bears(n, x) /\ Follows(n.stored, x.version)
  BY <1>1 DEF Whole, Bears
<1>3. Follows(x.version, m.version) /\ Carries(Present(x.version), m.version)
  BY DEF Follows, Carries, Present
<1>. QED
  BY <1>1, <1>2, <1>3 DEF Leads

\* So does the first of the turns that wait.
LEMMA HeadLeads ==
  ASSUME NEW w, NEW m, Shaped(m), m.closed # << >>, NEW n, Lined(w, m, n), Whole(m, n)
  PROVE  Leads(m, n, m.closed[1])
<1> DEFINE x == m.closed[1]
<1>1. /\ 1 \in DOMAIN m.closed /\ DOMAIN m.closed = 1 .. Len(m.closed)
      /\ Len(m.closed) \in Nat
  BY ClosedTypes
<1>2. /\ Paired(Present(x.version)) /\ Bears(n, x) /\ Follows(n.stored, x.version)
      /\ Follows(x.version, m.version) /\ x.id # m.id
  BY <1>1 DEF Whole, Lined
<1>3. ASSUME NEW i \in DOMAIN m.closed
      PROVE  /\ Follows(x.version, m.closed[i].version)
             /\ x.id = m.closed[i].id => Carries(Present(x.version), m.closed[i].version)
  <2>1. CASE i = 1
    BY <2>1 DEF Follows, Carries, Present
  <2>2. CASE i # 1
    <3>1. 1 < i
      BY <1>1, <2>2
    <3>. QED
      BY <1>1, <3>1 DEF Whole
  <2>. QED
    BY <2>1, <2>2
<1> HIDE DEF x
<1>. QED
  BY <1>2, <1>3 DEF Leads, x

\* A loaded tail is ahead of all that is in memory, being what is stored.
LEMMA FreshIsAhead ==
  ASSUME NEW w, NEW m, Shaped(m), NEW n \in Stores, Lined(w, m, n),
         NEW x \in Tails, Fresh(n, x)
  PROVE  Ahead(m, n, x)
<1>1. n.stored \in Versions /\ x.version \in Versions
  BY VersionNat
<1>2. \A e \in Entries : x.version[e] > 0 => n.stored[e] = x.version[e]
  BY DEF Fresh, Present
<1>3. Below(n.stored, x.version)
  BY <1>1, <1>2, VersionNat DEF Below
<1>4. \A v : Below(n.stored, v) => Below(x.version, v)
  BY <1>2 DEF Below
<1>. QED
  BY <1>3, <1>4 DEF Lined, Ahead

\* The live tail, when no turn waits before it, is known and behind nothing.
LEMMA LiveIsAhead ==
  ASSUME NEW w, NEW m, Shaped(m), NEW n, Lined(w, m, n), m.id # None, m.closed = << >>,
         NEW x, x.id = m.id, x.revision = m.revision, x.version = m.version
  PROVE  Known(w, m, x) /\ Ahead(m, n, x)
<1>1. m.version \in Versions /\ m.revision \in Nat /\ DOMAIN m.closed = {}
  BY ClosedTypes DEF Shaped, LiveTails
<1>2. Known(w, m, x)
  BY <1>1 DEF Lined, Known, Matches
<1>3. Below(x.version, m.version)
  BY <1>1, VersionNat DEF Below
<1>. QED
  BY <1>1, <1>2, <1>3 DEF Lined, Ahead

\* The request by which a pass begins waits as it should.
LEMMA BeginsWaiting ==
  ASSUME NEW w, NEW m, Shaped(m), NEW q, NEW r, NEW n \in Stores,
         Rests(w, m, q, r, n), NEW h, h.interrupted = q.interrupted, h.terminal = q.terminal,
         NEW g, Begins(m, h, g)
  PROVE  Waits(w, m, q, g, n)
<1> SUFFICES ASSUME g \in Requests PROVE Waits(w, m, q, g, n)
  BY DEF Waits
<1>1. g # None /\ g # Spin /\ g.tail \in Tails
  BY Apart, SpinIsApart DEF Requests
<1>2. Lined(w, m, n) /\ LoadedFirst(w, m, q, r, n)
  BY DEF Rests
<1>2a. Kept(w, m, n) /\ Whole(m, n)
  BY DEF Rests
<1>3. CASE g.at = "reconcile" /\ h.terminal # None /\ g.tail = h.terminal
  <2>1. Known(w, m, g.tail) /\ Fresh(n, g.tail)
    BY <1>2, <1>3 DEF LoadedFirst
  <2>2. Ahead(m, n, g.tail)
    BY <1>1, <1>2, <2>1, FreshIsAhead
  <2>. QED
    BY <1>3, <2>1, <2>2 DEF Waits, Sent
<1>4. CASE /\ g.at = "displaced" /\ h.interrupted # None /\ h.terminal = None
           /\ g.tail = h.interrupted
  <2>1. Known(w, m, g.tail) /\ Fresh(n, g.tail)
    BY <1>2, <1>4 DEF LoadedFirst
  <2>2. Ahead(m, n, g.tail)
    BY <1>1, <1>2, <2>1, FreshIsAhead
  <2>. QED
    BY <1>4, <2>1, <2>2 DEF Waits, Sent
<1>5. CASE /\ g.at = "closing" /\ h.terminal = None /\ h.interrupted = None
           /\ m.closed # << >> /\ g.tail = Head(m.closed)
           /\ g.pending = Present(g.tail.version) /\ g.removed = {}
  <2>1. 1 \in DOMAIN m.closed /\ g.tail = m.closed[1] /\ DOMAIN m.closed = 1 .. Len(m.closed)
        /\ m.closed[1].version \in Versions /\ Len(m.closed) \in Nat
    BY <1>5, ClosedTypes
  <2>2. Known(w, m, g.tail)
    BY <1>2, <2>1 DEF Lined, Known
  <2>3. Below(n.stored, g.tail.version) /\ Below(g.tail.version, m.version)
    BY <1>2, <2>1 DEF Lined
  <2>4. \A i \in DOMAIN m.closed : i = 1 \/ 1 < i
    BY <2>1
  <2>5. Below(g.tail.version, m.closed[1].version)
    BY <2>1 DEF Below, Versions
  <2>6. \A i \in DOMAIN m.closed : Below(g.tail.version, m.closed[i].version)
    BY <1>2, <2>1, <2>4, <2>5 DEF Lined
  <2>7. Leads(m, n, g.tail)
    BY <1>2, <1>2a, <1>5, <2>1, HeadLeads
  <2>8. Writ(m, n, g)
    BY <1>5, <2>7 DEF Leads, Writ
  <2>. QED
    BY <1>5, <2>1, <2>2, <2>3, <2>6, <2>7, <2>8 DEF Waits, Ahead, Sent
<1>6. CASE /\ g.at \in {"checkpoint", "seal"} /\ h.terminal = None /\ h.interrupted = None
           /\ m.closed = << >> /\ m.id # None
           /\ g.tail.id = m.id /\ g.tail.revision = m.revision
           /\ g.tail.version = m.version
           /\ g.at = "checkpoint" => g.pending = m.pending /\ g.removed = m.removed
  <2>1. Known(w, m, g.tail) /\ Ahead(m, n, g.tail)
    BY <1>2, <1>6, LiveIsAhead
  <2>2. g.at = "checkpoint" => g.pending \subseteq Present(g.tail.version)
    BY <1>6 DEF Shaped, Held
  <2>3. Leads(m, n, g.tail)
    BY <1>2a, <1>6, LiveLeads
  <2>4. Writ(m, n, g)
    <3>1. CASE g.at = "checkpoint"
      <4>1. Paired(g.pending) /\ \A e \in g.removed : e[2] = "status"
        BY <1>2, <1>2a, <1>6, <3>1 DEF Whole, Lined
      <4>2. \A e \in Present(g.tail.version) \ g.pending : n.stored[e] > 0
        <5> SUFFICES ASSUME NEW e \in Present(g.tail.version) \ g.pending
                     PROVE  n.stored[e] > 0
          OBVIOUS
        <5>1. e \in Held(m) \ m.pending /\ e \in Entries /\ m.version[e] > 0
          BY <1>6, <3>1 DEF Held, Present
        <5>2. n.stored[e] >= m.version[e] /\ n.stored[e] \in Nat /\ m.version[e] \in Nat
          BY <1>2a, <5>1, ClosedTypes, VersionNat DEF Kept
        <5>. QED
          BY <5>1, <5>2
      <4>. QED
        BY <1>6, <2>2, <3>1, <4>1, <4>2 DEF Writ
    <3>2. CASE g.at = "seal"
      BY <3>2 DEF Writ
    <3>. QED
      BY <1>6, <3>1, <3>2
  <2>. QED
    BY <1>6, <2>1, <2>2, <2>3, <2>4 DEF Waits, Sent
<1>. QED
  BY <1>1, <1>3, <1>4, <1>5, <1>6 DEF Begins

-----------------------------------------------------------------------------
(* What an event does to the live tail. *)

\* What comes to the live tail m comes with its text, a status only with its
\* turn; what goes leaves its text, and a text goes only with the name.
Grows(w, m, o) ==
  /\ Paired(Held(o)) /\ Paired(o.pending) /\ \A e \in o.removed : TextOf(e) \in Held(o)
  /\ \A e \in Held(o) : e[2] = "text" \/ e \in Held(m) \/ e[1] > w.turn
  /\ \A e \in o.pending : e[2] = "text" \/ e \in m.pending \/ e[1] > w.turn
  /\ o.id = m.id => Carries(Held(m), o.version)

\* From m to o, while the session goes from w to u: under the same name with
\* a revision that tells, or under a name that was not spent.
Moves(w, u, m, o) ==
  /\ \A id \in Names : Spent(w, id) => Spent(u, id)
  /\ \A e \in Entries : Limit(w, e) <= Limit(u, e)
  /\ \/ /\ o.id = m.id /\ o.closed = m.closed /\ o.revision >= m.revision
        /\ o.revision = m.revision => o.version = m.version
     \/ /\ o.id \in Names /\ ~Spent(w, o.id) /\ Spent(u, o.id)
        /\ \/ o.closed = m.closed
           \/ m.id # None /\ o.closed = Append(m.closed, Snapshot(m))
  /\ \A e \in Entries : o.version[e] \in {0, m.version[e], Limit(u, e)}
  /\ \A e \in Held(o) \ o.pending : e \in Held(m) \ m.pending /\ o.version[e] = m.version[e]
  /\ \A e \in Entries : u.seen[e] > 0 =>
       \/ o.version[e] >= u.seen[e]
       \/ /\ u.seen[e] = w.seen[e]
          /\ o.version[e] >= m.version[e] \/ o.closed = Append(m.closed, Snapshot(m))
  /\ \A e \in o.removed : e[2] = "status" /\ u.seen[e] = 0
  /\ Grows(w, m, o)

\* What was within the limits still is.
LEMMA WithinMoves ==
  ASSUME NEW w, NEW u, NEW m, NEW o, Moves(w, u, m, o), Timely(w), Timely(u),
         NEW v \in Versions, Within(w, v)
  PROVE  Within(u, v)
<1>1. \A e \in Entries : v[e] <= Limit(w, e) /\ Limit(w, e) <= Limit(u, e)
  BY DEF Within, Moves
<1>2. \A e \in Entries : v[e] \in Nat /\ Limit(w, e) \in Nat /\ Limit(u, e) \in Nat
  BY VersionNat
<1>3. \A e \in Entries : v[e] <= Limit(u, e)
  BY <1>1, <1>2
<1>. QED
  BY <1>3 DEF Within

\* A tail that was read before the event is as well known after it.
LEMMA KnownMoves ==
  ASSUME NEW w, NEW u, NEW m, Shaped(m), NEW o, Shaped(o), Moves(w, u, m, o),
         Timely(w), Timely(u), NEW x \in Tails, Known(w, m, x)
  PROVE  /\ Known(u, o, x)
         /\ Displaced(m, x) => Displaced(o, x)
<1>1. x.id \in Names /\ x.version \in Versions /\ x.revision \in Nat
      /\ m.revision \in Nat /\ o.revision \in Nat
  BY DEF Tails, Shaped, LiveTails
<1>2. Spent(w, x.id) /\ Spent(u, x.id)
  BY <1>1 DEF Known, Moves
<1>3. Within(u, x.version)
  BY <1>1, WithinMoves DEF Known
<1>4. CASE /\ o.id = m.id /\ o.closed = m.closed /\ o.revision >= m.revision
           /\ o.revision = m.revision => o.version = m.version
  <2>1. x.id = o.id => Matches(o, x)
    BY <1>1, <1>4 DEF Known, Matches
  <2>. QED
    BY <1>2, <1>3, <1>4, <2>1 DEF Known, Displaced
<1>5. CASE o.id \in Names /\ ~Spent(w, o.id)
  BY <1>2, <1>3, <1>5, Apart DEF Known, Displaced
<1>. QED
  BY <1>4, <1>5 DEF Moves

\* Versions that were within the limits are below those that come.
LEMMA BelowMoves ==
  ASSUME NEW w, NEW u, NEW m, Shaped(m), NEW o, Moves(w, u, m, o), Timely(w), Timely(u),
         NEW v \in Versions, Within(w, v), Below(v, m.version)
  PROVE  /\ Below(v, o.version)
         /\ \A k \in DOMAIN o.closed :
              (k \in DOMAIN m.closed => Below(v, m.closed[k].version)) => Below(v, o.closed[k].version)
<1>1. Within(u, v) /\ m.version \in Versions
  BY WithinMoves, ClosedTypes
<1>2. Below(v, o.version)
  <2> SUFFICES ASSUME NEW e \in Entries, v[e] > 0, o.version[e] > 0 PROVE v[e] <= o.version[e]
    BY DEF Below
  <2>1. v[e] \in Nat /\ m.version[e] \in Nat
    BY <1>1, VersionNat
  <2>2. CASE o.version[e] = m.version[e]
    BY <2>2 DEF Below
  <2>3. CASE o.version[e] = Limit(u, e)
    BY <1>1, <2>3 DEF Within
  <2>. QED
    BY <2>1, <2>2, <2>3 DEF Moves
<1>3. CASE o.closed = m.closed
  BY <1>2, <1>3
<1>4. CASE o.closed = Append(m.closed, Snapshot(m))
  <2>1. m.closed \in Seq(Tails) /\ DOMAIN m.closed = 1 .. Len(m.closed) /\ Len(m.closed) \in Nat
    BY ClosedTypes
  <2>2. /\ DOMAIN o.closed = DOMAIN m.closed \union {Len(m.closed) + 1}
        /\ \A k \in DOMAIN m.closed : o.closed[k] = m.closed[k]
        /\ o.closed[Len(m.closed) + 1] = Snapshot(m)
    BY <1>4, <2>1
  <2>3. Snapshot(m).version = m.version
    BY DEF Snapshot
  <2>. QED
    BY <1>2, <2>2, <2>3
<1>. QED
  BY <1>2, <1>3, <1>4 DEF Moves

\* The turns that wait after an event: those before, and maybe one more.
LEMMA ClosedMoves ==
  ASSUME NEW w, NEW u, NEW m, Shaped(m), NEW o, Shaped(o), Moves(w, u, m, o)
  PROVE  /\ DOMAIN m.closed \subseteq DOMAIN o.closed
         /\ \A k \in DOMAIN m.closed : o.closed[k] = m.closed[k]
         /\ \A k \in DOMAIN o.closed \ DOMAIN m.closed :
              /\ k = Len(m.closed) + 1 /\ m.id # None /\ ~Spent(w, o.id)
              /\ o.closed[k].id = m.id /\ o.closed[k].version = m.version
<1>1. /\ m.closed \in Seq(Tails) /\ DOMAIN m.closed = 1 .. Len(m.closed)
      /\ Len(m.closed) \in Nat
  BY ClosedTypes
<1>2. ASSUME o.closed = Append(m.closed, Snapshot(m))
      PROVE  /\ DOMAIN o.closed = DOMAIN m.closed \union {Len(m.closed) + 1}
             /\ \A k \in DOMAIN m.closed : o.closed[k] = m.closed[k]
             /\ o.closed[Len(m.closed) + 1] = Snapshot(m)
  BY <1>1, <1>2
<1>3. Snapshot(m).version = m.version /\ Snapshot(m).id = m.id
  BY DEF Snapshot
<1>4. CASE o.closed = Append(m.closed, Snapshot(m)) /\ o.closed # m.closed
  <2>1. m.id # None /\ ~Spent(w, o.id)
    BY <1>4 DEF Moves
  <2>. QED
    BY <1>2, <1>3, <1>4, <2>1
<1>5. CASE o.closed = m.closed
  <2>1. o.closed # Append(m.closed, Snapshot(m))
    <3>1. Len(Append(m.closed, Snapshot(m))) = Len(m.closed) + 1
      BY <1>1
    <3>. QED
      BY <1>1, <1>5, <3>1
  <2>. QED
    BY <1>5, <2>1
<1>. QED
  BY <1>4, <1>5 DEF Moves

\* A turn that is put aside waits with its versions.
LEMMA AsideWaits ==
  ASSUME NEW m, Shaped(m), NEW o, o.closed = Append(m.closed, Snapshot(m))
  PROVE  \E k \in DOMAIN o.closed : o.closed[k].version = m.version
<1>1. m.closed \in Seq(Tails) /\ Len(m.closed) \in Nat
  BY ClosedTypes
<1>2. /\ Len(m.closed) + 1 \in DOMAIN o.closed
      /\ o.closed[Len(m.closed) + 1] = Snapshot(m)
  BY <1>1
<1>3. Snapshot(m).version = m.version
  BY DEF Snapshot
<1>. QED
  BY <1>2, <1>3

\* The live tail and the turns that wait are in line after an event.
LEMMA LinedMoves ==
  ASSUME NEW w, NEW u, NEW m, Shaped(m), NEW o, Shaped(o), Moves(w, u, m, o),
         Timely(w), Timely(u), NEW n \in Stores, Lined(w, m, n), Based(w, m, n)
  PROVE  Lined(u, o, n)
<1>1. m.version \in Versions /\ n.stored \in Versions /\ o.version \in Versions
      /\ \A i \in DOMAIN m.closed : m.closed[i] \in Tails /\ m.closed[i].version \in Versions
  BY VersionNat, ClosedTypes
<1>2. o.id # None => Spent(u, o.id)
  BY DEF Moves, Lined, Shaped, LiveTails
<1>3. o.closed # << >> => o.id # None
  BY Apart DEF Moves, Lined
<1>4. Within(u, m.version) /\ Within(u, n.stored)
  BY <1>1, WithinMoves DEF Lined, Based
<1>5. Within(u, o.version)
  <2> SUFFICES ASSUME NEW e \in Entries PROVE o.version[e] <= Limit(u, e)
    BY DEF Within
  <2>1. Limit(u, e) \in Nat /\ o.version[e] \in {0, m.version[e], Limit(u, e)}
    BY VersionNat DEF Moves
  <2>. QED
    BY <1>4, <2>1 DEF Within
<1>6. /\ Below(n.stored, o.version)
      /\ \A k \in DOMAIN o.closed :
           (k \in DOMAIN m.closed => Below(n.stored, m.closed[k].version))
             => Below(n.stored, o.closed[k].version)
  BY <1>1, BelowMoves DEF Lined, Based
<1>7. \A e \in o.removed : e[2] = "status" /\ u.seen[e] = 0
  BY DEF Moves
<1>8. ASSUME NEW i \in DOMAIN o.closed
      PROVE  /\ Spent(u, o.closed[i].id) /\ o.closed[i].id # o.id
             /\ Within(u, o.closed[i].version) /\ Below(n.stored, o.closed[i].version)
             /\ Below(o.closed[i].version, o.version)
  <2>1. CASE i \in DOMAIN m.closed
    <3>1. o.closed[i] = m.closed[i]
      BY <2>1, ClosedMoves
    <3>2. /\ Spent(w, m.closed[i].id) /\ m.closed[i].id # m.id /\ m.closed[i].id \in Names
          /\ Within(w, m.closed[i].version) /\ Below(m.closed[i].version, m.version)
      BY <1>1, <2>1 DEF Lined, Tails
    <3>3. Spent(u, m.closed[i].id) /\ m.closed[i].id # o.id
      BY <3>2 DEF Moves
    <3>4. Within(u, m.closed[i].version) /\ Below(m.closed[i].version, o.version)
      BY <1>1, <2>1, <3>2, WithinMoves, BelowMoves
    <3>5. Below(n.stored, m.closed[i].version)
      BY <2>1 DEF Lined
    <3>. QED
      BY <3>1, <3>3, <3>4, <3>5
  <2>2. CASE i \notin DOMAIN m.closed
    <3>1. m.id # None /\ ~Spent(w, o.id) /\ o.closed[i].id = m.id
          /\ o.closed[i].version = m.version
      BY <2>2, ClosedMoves
    <3>2. Spent(w, m.id) /\ m.id \in Names /\ Within(w, m.version) /\ Below(m.version, m.version)
          /\ Below(n.stored, m.version)
      BY <1>1, <3>1, VersionNat DEF Lined, Below, Shaped, LiveTails
    <3>3. Spent(u, m.id) /\ m.id # o.id
      BY <3>1, <3>2 DEF Moves
    <3>4. Below(m.version, o.version)
      BY <1>1, <3>2, BelowMoves
    <3>. QED
      BY <1>4, <3>1, <3>2, <3>3, <3>4
  <2>. QED
    BY <2>1, <2>2
<1>9. ASSUME NEW i \in DOMAIN o.closed, NEW j \in DOMAIN o.closed, i < j
      PROVE  Below(o.closed[i].version, o.closed[j].version)
  <2>0. DOMAIN m.closed = 1 .. Len(m.closed) /\ Len(m.closed) \in Nat
        /\ DOMAIN o.closed = 1 .. Len(o.closed) /\ Len(o.closed) \in Nat
    BY ClosedTypes
  <2>1. i \in DOMAIN m.closed
    <3>1. j \in DOMAIN m.closed \/ j = Len(m.closed) + 1
      BY ClosedMoves
    <3>. QED
      BY <1>9, <2>0, <3>1
  <2>2. o.closed[i] = m.closed[i] /\ Below(m.closed[i].version, m.version)
    BY <2>1, ClosedMoves DEF Lined
  <2>3. CASE j \in DOMAIN m.closed
    <3>1. o.closed[j] = m.closed[j]
      BY <2>3, ClosedMoves
    <3>. QED
      BY <1>9, <2>1, <2>2, <2>3, <3>1 DEF Lined
  <2>4. CASE j \notin DOMAIN m.closed
    <3>1. o.closed[j].version = m.version
      BY <2>4, ClosedMoves
    <3>. QED
      BY <2>2, <3>1
  <2>. QED
    BY <2>3, <2>4
<1>. QED
  BY <1>2, <1>3, <1>5, <1>6, <1>7, <1>8, <1>9 DEF Lined

\* No status comes to the live tail that an older one has the text of.
LEMMA FollowsMoves ==
  ASSUME NEW w, NEW u, NEW m, NEW o, Moves(w, u, m, o), Timely(w),
         NEW v \in Versions, Within(w, v), Follows(v, m.version)
  PROVE  Follows(v, o.version)
<1> SUFFICES ASSUME NEW e \in Entries, v[TextOf(e)] > 0, o.version[e] > 0
             PROVE  v[e] > 0
  BY DEF Follows
<1>1. e \in Held(o) /\ Grows(w, m, o)
  BY DEF Held, Present, Moves
<1>2. CASE e[2] = "text"
  BY <1>2, TextIsEntry
<1>3. CASE e \in Held(m)
  BY <1>3 DEF Held, Present, Follows
<1>4. CASE e[1] > w.turn
  <2>1. TextOf(e) \in Entries /\ TextOf(e)[1] > w.turn /\ TextOf(e)[2] = "text"
    BY <1>4, TextIsEntry
  <2>2. v[TextOf(e)] <= 0 /\ v[TextOf(e)] \in Nat
    BY <2>1, VersionNat DEF Within, Limit, Timely
  <2>. QED
    BY <2>2
<1>. QED
  BY <1>1, <1>2, <1>3, <1>4 DEF Grows

\* The live tail keeps the texts of its name.
LEMMA CarriesMoves ==
  ASSUME NEW w, NEW u, NEW m, NEW o, Moves(w, u, m, o), NEW id, Spent(w, id),
         NEW S \in SUBSET Entries, id = m.id => Carries(S, m.version)
  PROVE  id = o.id => Carries(S, o.version)
<1> SUFFICES ASSUME id = o.id PROVE Carries(S, o.version)
  OBVIOUS
<1>1. o.id = m.id /\ Grows(w, m, o)
  BY DEF Moves
<1>2. Carries(Held(m), o.version) /\ Carries(S, m.version)
  BY <1>1 DEF Grows
<1>. QED
  BY <1>2 DEF Carries, Held, Present

\* No status comes before its text by an event, in memory or on disk.
LEMMA WholeMoves ==
  ASSUME NEW w, NEW u, NEW m, Shaped(m), NEW o, Shaped(o), Moves(w, u, m, o),
         Timely(w), Timely(u), NEW n \in Stores, Lined(w, m, n), Based(w, m, n), Whole(m, n)
  PROVE  Whole(o, n)
<1>0. \A k \in DOMAIN o.closed : k \in DOMAIN m.closed \/ k = Len(m.closed) + 1
  <2>1. m.closed \in Seq(Tails) /\ DOMAIN m.closed = 1 .. Len(m.closed) /\ Len(m.closed) \in Nat
    BY ClosedTypes
  <2>2. o.closed = m.closed \/ o.closed = Append(m.closed, Snapshot(m))
    BY DEF Moves
  <2>. QED
    BY <2>1, <2>2
<1>1. m.version \in Versions /\ n.stored \in Versions
      /\ \A i \in DOMAIN m.closed : m.closed[i] \in Tails /\ m.closed[i].version \in Versions
  BY VersionNat, ClosedTypes
<1>2. /\ Paired(Held(o)) /\ Paired(o.pending) /\ \A e \in o.removed : TextOf(e) \in Held(o)
  BY DEF Moves, Grows
<1>3. Follows(n.stored, o.version)
  BY <1>1, FollowsMoves DEF Lined, Based, Whole
<1>4. Bears(n, o)
  <2> SUFFICES ASSUME n.tail # None PROVE n.tail.id = o.id => Carries(n.tail.entries, o.version)
    BY DEF Bears
  <2>1. n.tail.entries \in SUBSET Entries
    BY DEF Stores, StoredTails
  <2>2. Spent(w, n.tail.id) /\ (n.tail.id = m.id => Carries(n.tail.entries, m.version))
    BY DEF Based, Whole, Bears
  <2>. QED
    BY <2>1, <2>2, CarriesMoves
<1>5. ASSUME NEW i \in DOMAIN o.closed
      PROVE  /\ Paired(Present(o.closed[i].version)) /\ Bears(n, o.closed[i])
             /\ Follows(n.stored, o.closed[i].version) /\ Follows(o.closed[i].version, o.version)
  <2>1. CASE i \in DOMAIN m.closed
    <3>1. o.closed[i] = m.closed[i]
      BY <2>1, ClosedMoves
    <3>2. /\ Paired(Present(m.closed[i].version)) /\ Bears(n, m.closed[i])
          /\ Follows(n.stored, m.closed[i].version)
          /\ Follows(m.closed[i].version, m.version) /\ Within(w, m.closed[i].version)
      BY <2>1 DEF Whole, Lined
    <3>3. Follows(m.closed[i].version, o.version)
      BY <1>1, <2>1, <3>2, FollowsMoves
    <3>. QED
      BY <3>1, <3>2, <3>3
  <2>2. CASE i \notin DOMAIN m.closed
    <3>1. o.closed[i].id = m.id /\ o.closed[i].version = m.version
      BY <2>2, ClosedMoves
    <3>2. Paired(Present(m.version)) /\ Bears(n, o.closed[i])
      BY <3>1 DEF Whole, Held, Bears
    <3>3. Follows(m.version, m.version) /\ Within(w, m.version)
      BY DEF Follows, Lined
    <3>4. Follows(m.version, o.version)
      BY <1>1, <3>3, FollowsMoves
    <3>. QED
      BY <3>1, <3>2, <3>4 DEF Whole
  <2>. QED
    BY <2>1, <2>2
<1>6. ASSUME NEW i \in DOMAIN o.closed, NEW j \in DOMAIN o.closed, i < j
      PROVE  /\ Follows(o.closed[i].version, o.closed[j].version)
             /\ o.closed[i].id # o.closed[j].id
  <2>0. DOMAIN m.closed = 1 .. Len(m.closed) /\ Len(m.closed) \in Nat
        /\ DOMAIN o.closed = 1 .. Len(o.closed) /\ Len(o.closed) \in Nat
    BY ClosedTypes
  <2>1. i \in DOMAIN m.closed
    <3>1. j \in DOMAIN m.closed \/ j = Len(m.closed) + 1
      BY <1>0
    <3>. QED
      BY <1>6, <2>0, <3>1
  <2>2. /\ o.closed[i] = m.closed[i] /\ Follows(m.closed[i].version, m.version)
        /\ m.closed[i].id # m.id
    BY <2>1, ClosedMoves DEF Whole, Lined
  <2>3. CASE j \in DOMAIN m.closed
    <3>1. o.closed[j] = m.closed[j]
      BY <2>3, ClosedMoves
    <3>. QED
      BY <1>6, <2>1, <2>2, <2>3, <3>1 DEF Whole
  <2>4. CASE j \notin DOMAIN m.closed
    <3>1. o.closed[j].version = m.version /\ o.closed[j].id = m.id
      BY <2>4, ClosedMoves
    <3>. QED
      BY <2>2, <3>1
  <2>. QED
    BY <2>3, <2>4
<1>. QED
  BY <1>2, <1>3, <1>4, <1>5, <1>6 DEF Whole

\* The pump's request leads what is in memory after an event, too.
LEMMA SentMoves ==
  ASSUME NEW w, NEW u, NEW m, Shaped(m), NEW o, Shaped(o), Moves(w, u, m, o),
         Timely(w), NEW n, NEW f \in Requests, Known(w, m, f.tail), Sent(m, n, f)
  PROVE  Sent(o, n, f)
<1> DEFINE x == f.tail
<1> SUFFICES ASSUME f.at \in {"checkpoint", "closing", "seal", "closed"}
             PROVE  Leads(o, n, x) /\ Writ(o, n, f)
  BY DEF Sent
<1>1. /\ x.version \in Versions /\ Present(x.version) \in SUBSET Entries
      /\ Spent(w, x.id) /\ Within(w, x.version)
  BY DEF Requests, Tails, Known, Present
<1>2. Leads(m, n, x) /\ Writ(m, n, f)
  BY DEF Sent
<1> HIDE DEF x
<1>3. Follows(x.version, o.version)
  BY <1>1, <1>2, FollowsMoves DEF Leads
<1>4. x.id = o.id => Carries(Present(x.version), o.version)
  BY <1>1, <1>2, CarriesMoves DEF Leads
<1>5. ASSUME NEW i \in DOMAIN o.closed
      PROVE  /\ Follows(x.version, o.closed[i].version)
             /\ x.id = o.closed[i].id => Carries(Present(x.version), o.closed[i].version)
  <2>1. CASE i \in DOMAIN m.closed
    <3>1. o.closed[i] = m.closed[i]
      BY <2>1, ClosedMoves
    <3>. QED
      BY <1>2, <2>1, <3>1 DEF Leads
  <2>2. CASE i \notin DOMAIN m.closed
    <3>1. o.closed[i].id = m.id /\ o.closed[i].version = m.version
      BY <2>2, ClosedMoves
    <3>. QED
      BY <1>2, <3>1 DEF Leads
  <2>. QED
    BY <2>1, <2>2
<1>6. Leads(o, n, x)
  BY <1>2, <1>3, <1>4, <1>5 DEF Leads
<1>7. ASSUME f.at = "checkpoint", NEW e \in o.pending, e[2] = "status", e \in Present(x.version)
      PROVE  e \in f.pending
  <2>1. CASE e \in m.pending
    BY <1>2, <1>7, <2>1 DEF Writ, x
  <2>2. CASE e[1] > w.turn
    <3>1. e \in Entries /\ TextOf(e) \in Present(x.version)
      BY <1>1, <1>2, <1>7 DEF Leads, Paired
    <3>2. TextOf(e) \in Entries /\ TextOf(e)[1] > w.turn /\ TextOf(e)[2] = "text"
      BY <2>2, <3>1, TextIsEntry
    <3>3. x.version[TextOf(e)] <= 0 /\ x.version[TextOf(e)] \in Nat
      BY <1>1, <3>2, VersionNat DEF Within, Limit, Timely
    <3>. QED
      BY <3>1, <3>3 DEF Present
  <2>. QED
    BY <1>7, <2>1, <2>2 DEF Moves, Grows
<1>8. Writ(o, n, f)
  BY <1>2, <1>7 DEF Writ, x
<1>. QED
  BY <1>6, <1>8

\* What an event adds is in the live tail, and what it puts aside still waits.
LEMMA KeptMoves ==
  ASSUME NEW w, NEW u, NEW m, Shaped(m), NEW o, Shaped(o), Moves(w, u, m, o),
         Timely(w), Timely(u), NEW n \in Stores, Kept(w, m, n)
  PROVE  Kept(u, o, n)
<1>1a. DOMAIN m.closed \subseteq DOMAIN o.closed
  BY ClosedMoves
<1>1b. \A k \in DOMAIN m.closed : o.closed[k] = m.closed[k]
  BY ClosedMoves
<1>1c. ASSUME o.closed = Append(m.closed, Snapshot(m))
      PROVE  \E k \in DOMAIN o.closed : o.closed[k].version = m.version
  BY <1>1c, AsideWaits
<1>1. m.version \in Versions /\ n.stored \in Versions /\ o.version \in Versions
      /\ u.seen \in Versions /\ w.seen \in Versions
  BY VersionNat, ClosedTypes DEF Timely
<1>2. ASSUME NEW e \in Entries, u.seen[e] > 0
      PROVE  \/ o.version[e] >= u.seen[e]
             \/ n.stored[e] >= u.seen[e]
             \/ \E i \in DOMAIN o.closed : o.closed[i].version[e] >= u.seen[e]
  <2>0. m.version[e] \in Nat /\ o.version[e] \in Nat /\ u.seen[e] \in Nat
    BY <1>1, VersionNat
  <2>1. CASE o.version[e] >= u.seen[e]
    BY <2>1
  <2>2. CASE u.seen[e] = w.seen[e] /\ n.stored[e] >= w.seen[e]
    BY <2>2
  <2>3. CASE u.seen[e] = w.seen[e] /\ \E i \in DOMAIN m.closed : m.closed[i].version[e] >= w.seen[e]
    BY <1>1a, <1>1b, <2>3
  <2>4. CASE u.seen[e] = w.seen[e] /\ m.version[e] >= w.seen[e]
             /\ o.version[e] >= m.version[e]
    BY <2>0, <2>4
  <2>5. CASE u.seen[e] = w.seen[e] /\ m.version[e] >= w.seen[e]
             /\ o.closed = Append(m.closed, Snapshot(m))
    <3>1. \E k \in DOMAIN o.closed : o.closed[k].version = m.version
      BY <1>1c, <2>5
    <3>. QED
      BY <2>5, <3>1
  <2>. QED
    BY <1>2, <2>1, <2>2, <2>3, <2>4, <2>5 DEF Kept, Moves
<1>3. \A e \in Held(o) \ o.pending : n.stored[e] >= o.version[e]
  BY DEF Kept, Moves
<1>. QED
  BY <1>2, <1>3 DEF Kept

\* All of it after an event, whatever the coordinator made of it on its own.
LEMMA RestsMoves ==
  ASSUME NEW w, NEW u, NEW m, Shaped(m), NEW o, Shaped(o), Moves(w, u, m, o), Timely(u),
         NEW q \in Queues, NEW p, p.interrupted = q.interrupted, p.terminal = q.terminal,
         NEW r \in Recoveries \union {None}, r # None /\ r.at # "load" => r.tail # None,
         NEW s,
         s # None /\ s.at # "load" =>
           /\ r # None /\ r.at = s.at /\ r.tail = s.tail /\ r.displaced = s.displaced,
         NEW n \in Stores, Rests(w, m, q, r, n)
  PROVE  Rests(u, o, p, s, n)
<1>1. Timely(w) /\ Lined(w, m, n) /\ Based(w, m, n) /\ Kept(w, m, n) /\ LoadedFirst(w, m, q, r, n)
      /\ OnDisk(n) /\ Whole(m, n)
  BY DEF Rests
<1>2. Lined(u, o, n) /\ Kept(u, o, n) /\ Whole(o, n)
  BY <1>1, LinedMoves, KeptMoves, WholeMoves
<1>3. Based(u, o, n)
  <2>1. n.stored \in Versions /\ (n.tail # None => n.tail.id \in Names)
    BY DEF Stores, StoredTails
  <2>2. Within(u, n.stored)
    BY <1>1, <2>1, WithinMoves DEF Based
  <2>. QED
    BY <1>1, <2>1, <2>2 DEF Based, Moves
<1>4. LoadedFirst(u, o, p, s, n)
  <2>1. q.interrupted # None => q.interrupted \in Tails
    BY DEF Queues
  <2>2. q.terminal # None => q.terminal \in Tails
    BY DEF Queues
  <2>3. r # None /\ r.at # "load" => r.tail \in Tails
    BY DEF Recoveries
  <2>4. \A x \in Tails : Known(w, m, x) => Known(u, o, x) /\ (Displaced(m, x) => Displaced(o, x))
    BY <1>1, KnownMoves
  <2>. QED
    BY <1>1, <2>1, <2>2, <2>3, <2>4 DEF LoadedFirst
<1>. QED
  BY <1>1, <1>2, <1>3, <1>4 DEF Rests

\* The request under way waits on.
LEMMA WaitsMoves ==
  ASSUME NEW w, NEW u, NEW m, Shaped(m), NEW o, Shaped(o), Moves(w, u, m, o),
         Timely(w), Timely(u), NEW q, NEW p,
         p.interrupted = q.interrupted, p.terminal = q.terminal,
         NEW n, NEW f, Waits(w, m, q, f, n)
  PROVE  Waits(u, o, p, f, n)
<1> SUFFICES ASSUME f \in Requests PROVE Waits(u, o, p, f, n)
  BY DEF Waits
<1>1. f.tail \in Tails /\ f.tail.version \in Versions
  BY DEF Requests, Tails
<1>2. Known(w, m, f.tail) /\ Ahead(m, n, f.tail)
  BY DEF Waits
<1>3. Known(u, o, f.tail)
  BY <1>1, <1>2, KnownMoves
<1>4. Ahead(o, n, f.tail)
  <2>1. /\ Below(f.tail.version, o.version)
        /\ \A k \in DOMAIN o.closed :
             (k \in DOMAIN m.closed => Below(f.tail.version, m.closed[k].version))
               => Below(f.tail.version, o.closed[k].version)
    BY <1>1, <1>2, BelowMoves DEF Known, Ahead
  <2>. QED
    BY <1>2, <2>1 DEF Ahead
<1>5. m.closed # << >> => 1 \in DOMAIN m.closed /\ o.closed[1] = m.closed[1] /\ o.closed # << >>
  <2>1. m.closed # << >> => 1 \in DOMAIN m.closed
    BY ClosedTypes
  <2>2. 1 \in DOMAIN o.closed => o.closed # << >>
    BY ClosedTypes
  <2>3. /\ DOMAIN m.closed \subseteq DOMAIN o.closed
        /\ \A k \in DOMAIN m.closed : o.closed[k] = m.closed[k]
    BY ClosedMoves
  <2>. QED
    BY <2>1, <2>2, <2>3
<1>6. Sent(o, n, f)
  BY <1>2, SentMoves DEF Waits
<1>. QED
  BY <1>3, <1>4, <1>5, <1>6 DEF Waits

-----------------------------------------------------------------------------
(* Events keep the invariant. *)

\* The parts the proofs need of the shapes.
LEMMA Typed ==
  ASSUME TypeOK
  PROVE  /\ Shaped(mem) /\ queue \in Queues /\ native \in Stores /\ seen \in Versions
         /\ flight \in Requests \union {Spin, None}
         /\ recovery \in Recoveries \union {None}
         /\ recovery # None /\ recovery.at # "load" => recovery.tail # None
         /\ turn \in 0 .. MaxTurns /\ ended \subseteq Turns
         /\ phase \in {"idle", "running", "stopped", "settled"}
BY MemShaped DEF TypeOK

\* An event that moves the live tail keeps what waits and what rests.
LEMMA EventKeeps ==
  ASSUME IInv, NEW o, Shaped(o), Moves(Now, Now', mem, o), Timely(Now'),
         NEW seals, NEW reached, Handled(o, seals, reached)
  PROVE  /\ Rests(Now', mem', queue', recovery', native')
         /\ Waits(Now', mem', queue', flight', native')
<1> DEFINE q == Handling(o, seals)
<1>1. /\ TypeOK /\ Rests(Now, mem, queue, recovery, native)
      /\ Waits(Now, mem, queue, flight, native) /\ Timely(Now)
  BY DEF IInv, Rests
<1>2. /\ mem' = o /\ native' = native /\ Eased(q, queue') /\ Joined
      /\ \/ flight' = flight
         \/ Begins(o, q, flight')
  BY <1>1, HandledRel
<1>3. /\ q.interrupted = queue.interrupted /\ q.terminal = queue.terminal
  BY <1>1, HandlingFields
<1> HIDE DEF q
<1>4. queue'.interrupted = queue.interrupted /\ queue'.terminal = queue.terminal
  BY <1>2, <1>3 DEF Eased
<1>5. recovery' # None /\ recovery'.at # "load" =>
        /\ recovery # None /\ recovery.at = recovery'.at
        /\ recovery.tail = recovery'.tail /\ recovery.displaced = recovery'.displaced
  BY <1>1, <1>2, JoinedType
<1>6. Rests(Now', o, queue', recovery', native)
  BY <1>1, <1>4, <1>5, Typed, RestsMoves
<1>7. Waits(Now', o, queue', flight, native)
  BY <1>1, <1>4, Typed, WaitsMoves
<1>8. CASE flight' = flight
  BY <1>2, <1>6, <1>7, <1>8
<1>9. CASE Begins(o, q, flight')
  <2>1. native \in Stores /\ q.interrupted = queue'.interrupted /\ q.terminal = queue'.terminal
    BY <1>1, <1>3, <1>4, Typed
  <2>2. Waits(Now', o, queue', flight', native)
    BY <1>6, <1>9, <2>1, BeginsWaiting
  <2>. QED
    BY <1>2, <1>6, <2>2
<1>. QED
  BY <1>2, <1>8, <1>9

\* The fields of how far the session is.
LEMMA NowFields ==
  /\ Now.turn = turn /\ Now.phase = phase /\ Now.ended = ended /\ Now.seen = seen
  /\ Now'.turn = turn' /\ Now'.phase = phase' /\ Now'.ended = ended' /\ Now'.seen = seen'
BY DEF Now

\* Names are made of a turn, a kind and a version.
LEMMA NameParts ==
  /\ \A id \in Names : id[1] \in Turns /\ id[3] \in 0 .. MaxVersion
  /\ \A k : /\ StartOf(k)[1] = k /\ StartOf(k)[2] = "start"
            /\ MessageOf(k)[1] = k /\ MessageOf(k)[2] = "message"
  /\ \A k, v : LateIn(k, v)[1] = k /\ LateIn(k, v)[2] = "late" /\ LateIn(k, v)[3] = v
BY DEF Names, StartOf, MessageOf, LateIn

\* A turn begins under a name of its own.
LEMMA TurnBeginsMoves ==
  ASSUME IInv, TurnBegins
  PROVE  /\ Shaped(Beginning(turn + 1)) /\ Handled(Beginning(turn + 1), FALSE, FALSE)
         /\ Moves(Now, Now', mem, Beginning(turn + 1)) /\ Timely(Now')
<1> DEFINE k == turn + 1
           a == <<k, "status">>
           b == <<k, "text">>
           n == Begun(mem, StartOf(k))
           p == Upserted(n, a, 1)
           o == Beginning(k)
<1>1. /\ TypeOK /\ Timely(Now) /\ Lined(Now, mem, native) /\ Whole(mem, native)
  BY DEF IInv, Rests
<1>2. /\ turn \in 0 .. MaxTurns /\ k \in Turns /\ phase = "idle"
      /\ turn' = k /\ phase' = "running" /\ ended' = ended
      /\ seen' = [seen EXCEPT ![a] = 1, ![b] = 1]
      /\ Handled(o, FALSE, FALSE)
  <2>1. turn < MaxTurns /\ turn \in 0 .. MaxTurns
    BY <1>1, Typed DEF TurnBegins
  <2>2. k \in Turns
    BY <2>1, TranscriptBounds DEF Turns
  <2>. QED
    BY <2>1, <2>2 DEF TurnBegins, Beginning
<1>3. Shaped(mem) /\ Shaped(n) /\ Shaped(o)
  BY <1>1, <1>2, MemShaped
<1>4. a \in Entries /\ b \in Entries /\ StartOf(k) \in Names /\ 1 \in 1 .. MaxVersion
  BY <1>2, EntryTypes, TranscriptBounds
<1>5. /\ \A e \in Entries : e \notin {a, b} => seen'[e] = seen[e]
      /\ seen'[a] = 1 /\ seen'[b] = 1 /\ a # b /\ seen' \in Versions
      /\ a[2] = "status" /\ b[2] = "text" /\ a[1] = k /\ b[1] = k
  <2>1. seen \in [Entries -> 0 .. MaxVersion] /\ 1 \in 0 .. MaxVersion
    BY <1>1, Typed, TranscriptBounds DEF Versions
  <2>. QED
    BY <1>2, <1>4, <2>1 DEF Versions
<1>6. ended \subseteq 1 .. turn /\ \A e \in Entries : e[1] > turn => seen[e] = 0
  BY <1>1, NowFields DEF Timely
<1>7. Timely(Now')
  <2>1. k \in 0 .. MaxTurns /\ ended \subseteq 1 .. k /\ k \notin ended /\ k # 0
    BY <1>2, <1>6, TranscriptBounds DEF Turns
  <2>2. ASSUME NEW e \in Entries, e[1] > k PROVE seen'[e] = 0
    <3>1. e \notin {a, b} /\ e[1] \in Turns
      BY <1>2, <1>5, <2>2 DEF Entries, Turns
    <3>2. e[1] > turn
      BY <1>2, <2>2, <3>1 DEF Turns
    <3>. QED
      BY <1>5, <1>6, <3>1, <3>2
  <2>3. Now'.turn = k /\ Now'.ended = ended /\ Now'.seen = seen'
    BY <1>2, NowFields
  <2> HIDE DEF k
  <2>. QED
    BY <1>5, <2>1, <2>2, <2>3 DEF Timely
<1>8. /\ Own(Now) = ended /\ Own(Now') = ended \union {k}
  BY <1>2, NowFields DEF Own
<1>9. \A id \in Names : Spent(Now, id) => id[1] # k /\ Spent(Now', id)
  <2> SUFFICES ASSUME NEW id \in Names, Spent(Now, id) PROVE id[1] # k /\ Spent(Now', id)
    OBVIOUS
  <2>1. id[1] <= turn /\ id[1] \in Turns
    BY NowFields, NameParts DEF Spent
  <2>2. id[1] # k /\ id[1] <= k
    BY <1>2, <2>1 DEF Turns
  <2>3. <<id[1], "text">> \in Entries /\ <<id[1], "text">> \notin {a, b}
    BY <2>1, <2>2, EntryTypes
  <2>4. seen'[<<id[1], "text">>] = seen[<<id[1], "text">>]
    BY <1>5, <2>3
  <2>. QED
    BY <1>2, <1>8, <2>2, <2>4, NowFields DEF Spent
<1>10. \A e \in Entries : Limit(Now, e) <= Limit(Now', e)
  <2> SUFFICES ASSUME NEW e \in Entries PROVE Limit(Now, e) <= Limit(Now', e)
    OBVIOUS
  <2>1. seen[e] \in Nat /\ turn < k
    BY <1>1, <1>2, Typed, VersionNat
  <2>2. CASE e \in {a, b}
    <3>1. seen[e] = 0 /\ seen'[e] = 1
      BY <1>5, <1>6, <2>1, <2>2
    <3>. QED
      BY <3>1, NowFields DEF Limit
  <2>3. CASE e \notin {a, b}
    BY <1>5, <2>1, <2>3, NowFields DEF Limit
  <2>. QED
    BY <2>2, <2>3
<1>11. ~Spent(Now, StartOf(k)) /\ Spent(Now', StartOf(k))
  <2>1. ~(k <= turn) /\ k <= k
    BY <1>2 DEF Turns
  <2>. QED
    BY <1>2, <1>4, <1>8, <2>1, NowFields, NameParts DEF Spent
<1>12. mem.id # StartOf(k)
  BY <1>1, <1>4, <1>11, Apart DEF Lined
<1> HIDE DEF n
<1>13. /\ o.id = n.id /\ o.closed = n.closed
       /\ n.pending \subseteq o.pending /\ o.pending \subseteq n.pending \union {a, b}
       /\ \A e \in Entries : e \notin {a, b} => o.version[e] = n.version[e]
       /\ \A e \in {a, b} : o.version[e] = Larger(n.version[e], 1)
                            /\ (o.version[e] = n.version[e] \/ e \in o.pending)
       /\ o.removed \subseteq n.removed \ {a}
       /\ o.revision >= n.revision
       /\ o.revision = n.revision => o.version = n.version
  <2>1. LET x == p
        IN /\ Shaped(x) /\ x.id = n.id /\ x.closed = n.closed
           /\ x.version = [n.version EXCEPT ![a] = Larger(@, 1)]
           /\ n.pending \subseteq x.pending /\ x.pending \subseteq n.pending \union {a}
           /\ x.version[a] = n.version[a] \/ a \in x.pending
           /\ x.removed = n.removed \ {a}
           /\ x.revision >= n.revision
           /\ x.revision = n.revision => x.version = n.version
    BY <1>3, <1>4, UpsertedFields
  <2>2. o = Upserted(p, b, 1)
    BY DEF Beginning, n
  <2> HIDE DEF p, o
  <2>9. Shaped(p)
    BY <2>1
  <2>3. LET x == Upserted(p, b, 1)
        IN /\ x.id = p.id /\ x.closed = p.closed
           /\ x.version = [p.version EXCEPT ![b] = Larger(@, 1)]
           /\ p.pending \subseteq x.pending /\ x.pending \subseteq p.pending \union {b}
           /\ x.version[b] = p.version[b] \/ b \in x.pending
           /\ x.removed = p.removed \ {b}
           /\ x.revision >= p.revision
           /\ x.revision = p.revision => x.version = p.version
    BY <1>4, <2>9, UpsertedFields
  <2>4. n.version \in [Entries -> 0 .. MaxVersion] /\ p.version \in [Entries -> 0 .. MaxVersion]
    BY <1>3, <2>1, ClosedTypes DEF Versions
  <2>5. n.revision \in Nat /\ p.revision \in Nat /\ o.revision \in Nat
    BY <1>3, <2>1 DEF Shaped, LiveTails
  <2>6. /\ \A e \in Entries : e \notin {a, b} => o.version[e] = n.version[e]
        /\ o.version[a] = Larger(n.version[a], 1) /\ o.version[b] = Larger(n.version[b], 1)
        /\ o.version[a] = p.version[a] /\ p.version[b] = n.version[b]
    BY <1>4, <1>5, <2>1, <2>2, <2>3, <2>4
  <2>7. o.revision >= n.revision /\ (o.revision = n.revision => o.version = n.version)
    BY <2>1, <2>2, <2>3, <2>5
  <2>. QED
    BY <2>1, <2>2, <2>3, <2>6, <2>7
<1> HIDE DEF o
<1>14. \/ n = mem
       \/ n = Renamed(mem, StartOf(k))
       \/ /\ mem.id # None /\ n.id = StartOf(k) /\ n.version = NoVersions
          /\ n.pending = {} /\ n.removed = {} /\ n.closed = Append(mem.closed, Snapshot(mem))
  BY <1>3, <1>4, BegunFields DEF n
<1>15. /\ Renamed(mem, StartOf(k)).id = StartOf(k)
       /\ Renamed(mem, StartOf(k)).version = mem.version
       /\ Renamed(mem, StartOf(k)).pending = mem.pending
       /\ Renamed(mem, StartOf(k)).removed = mem.removed
       /\ Renamed(mem, StartOf(k)).closed = mem.closed
  BY <1>3, <1>4, RenamedFields DEF Shaped
<1>16. /\ n.removed \subseteq mem.removed
       /\ \/ n.id = mem.id /\ n.closed = mem.closed /\ n = mem
          \/ n.id = StartOf(k) /\ n.closed = mem.closed
          \/ n.id = StartOf(k) /\ mem.id # None /\ n.closed = Append(mem.closed, Snapshot(mem))
       /\ \/ n.version = mem.version /\ n.pending = mem.pending
          \/ /\ n.version = NoVersions /\ n.pending = {} /\ n.removed = {}
             /\ n.closed = Append(mem.closed, Snapshot(mem))
  BY <1>14, <1>15
<1>17. /\ \/ /\ o.id = mem.id /\ o.closed = mem.closed /\ o.revision >= mem.revision
             /\ o.revision = mem.revision => o.version = mem.version
          \/ /\ o.id \in Names /\ ~Spent(Now, o.id) /\ Spent(Now', o.id)
             /\ \/ o.closed = mem.closed
                \/ mem.id # None /\ o.closed = Append(mem.closed, Snapshot(mem))
  BY <1>4, <1>11, <1>13, <1>16
<1>18. \A e \in Entries : n.version[e] \in {0, mem.version[e]}
  BY <1>16, NothingYet
<1>19. /\ \A e \in Entries : mem.version[e] \in Nat
       /\ Limit(Now', a) = 1 /\ Limit(Now', b) = 1
  BY <1>3, <1>5, ClosedTypes, VersionNat, NowFields DEF Limit
<1>20. \A e \in Entries : o.version[e] \in {0, mem.version[e], Limit(Now', e)}
  <2> SUFFICES ASSUME NEW e \in Entries
               PROVE  o.version[e] \in {0, mem.version[e], Limit(Now', e)}
    OBVIOUS
  <2>1. CASE e \in {a, b}
    <3>1. o.version[e] = n.version[e] \/ o.version[e] = 1
      BY <1>13, <2>1 DEF Larger
    <3>. QED
      BY <1>18, <1>19, <2>1, <3>1
  <2>2. CASE e \notin {a, b}
    BY <1>13, <1>18, <2>2
  <2>. QED
    BY <2>1, <2>2
<1>21. \A e \in Held(o) \ o.pending : e \in Held(mem) \ mem.pending /\ o.version[e] = mem.version[e]
  <2> SUFFICES ASSUME NEW e \in Held(o) \ o.pending
               PROVE  e \in Held(mem) \ mem.pending /\ o.version[e] = mem.version[e]
    OBVIOUS
  <2>1. e \in Entries /\ o.version[e] > 0 /\ o.version[e] = n.version[e] /\ e \notin n.pending
    BY <1>13 DEF Held, Present
  <2>2. n.version # NoVersions
    BY <2>1, NothingYet
  <2>. QED
    BY <1>16, <2>1, <2>2 DEF Held, Present
<1>22. \A e \in Entries : seen'[e] > 0 =>
         \/ o.version[e] >= seen'[e]
         \/ /\ seen'[e] = seen[e]
            /\ o.version[e] >= mem.version[e] \/ o.closed = Append(mem.closed, Snapshot(mem))
  <2> SUFFICES ASSUME NEW e \in Entries
               PROVE  \/ o.version[e] >= seen'[e]
                      \/ /\ seen'[e] = seen[e]
                         /\ \/ o.version[e] >= mem.version[e]
                            \/ o.closed = Append(mem.closed, Snapshot(mem))
    OBVIOUS
  <2>1. n.version[e] \in Nat /\ mem.version[e] \in Nat
    BY <1>3, ClosedTypes, VersionNat
  <2>2. CASE e \in {a, b}
    BY <1>5, <1>13, <2>1, <2>2 DEF Larger
  <2>3. CASE e \notin {a, b}
    BY <1>5, <1>13, <1>16, <2>1, <2>3
  <2>. QED
    BY <2>2, <2>3
<1>23. \A e \in o.removed : e[2] = "status" /\ seen'[e] = 0
  <2> SUFFICES ASSUME NEW e \in o.removed PROVE e[2] = "status" /\ seen'[e] = 0
    OBVIOUS
  <2>1. e \in mem.removed /\ e # a /\ e \in Entries
    BY <1>3, <1>13, <1>16 DEF Shaped, LiveTails
  <2>2. e[2] = "status" /\ seen[e] = 0
    BY <1>1, <2>1, NowFields DEF Lined
  <2>. QED
    BY <1>5, <2>1, <2>2
<1>24. Grows(Now, mem, o)
  <2>1. mem.version[a] = 0 /\ mem.version[b] = 0
    <3>1. mem.version[b] <= Limit(Now, b) /\ mem.version[a] \in Nat /\ mem.version[b] \in Nat
      BY <1>1, <1>4, <1>19 DEF Lined, Within
    <3>2. Limit(Now, b) = 0
      <4>1. turn < k
        BY <1>2 DEF Turns
      <4>. QED
        BY <1>4, <1>5, <1>6, <4>1, NowFields DEF Limit
    <3>3. mem.version[b] = 0
      BY <3>1, <3>2
    <3>4. a \notin Held(mem)
      <4>1. TextOf(a) = b
        BY <1>5 DEF TextOf
      <4>2. b \notin Held(mem)
        BY <3>3 DEF Held, Present
      <4>. QED
        BY <1>1, <4>1, <4>2 DEF Whole, Paired
    <3>. QED
      BY <1>4, <3>1, <3>3, <3>4 DEF Held, Present
  <2>2. \A e \in {a, b} : n.version[e] = 0
    BY <1>4, <1>18, <2>1
  <2>3. \A e \in {a, b} : o.version[e] = 1 /\ e \in o.pending
    BY <1>13, <2>2 DEF Larger
  <2>4. Held(o) = Held(n) \union {a, b}
    BY <1>4, <1>13, <2>3 DEF Held, Present
  <2>5. o.pending = n.pending \union {a, b}
    BY <1>13, <2>3
  <2>6. \/ Held(n) = Held(mem) /\ n.pending = mem.pending
        \/ Held(n) = {} /\ n.pending = {} /\ n.removed = {}
    BY <1>16, NothingYet DEF Held
  <2>7. TextOf(a) = b /\ TextOf(b) = b
    BY <1>5 DEF TextOf
  <2>8. Paired(Held(o)) /\ Paired(o.pending)
    BY <1>1, <2>4, <2>5, <2>6, <2>7 DEF Whole, Paired
  <2>9. \A e \in o.removed : TextOf(e) \in Held(o)
    BY <1>1, <1>13, <1>16, <2>4, <2>6 DEF Whole
  <2>10. /\ \A e \in Held(o) : e[2] = "text" \/ e \in Held(mem) \/ e[1] > Now.turn
         /\ \A e \in o.pending : e[2] = "text" \/ e \in mem.pending \/ e[1] > Now.turn
    <3>1. a[1] > Now.turn /\ b[2] = "text"
      BY <1>2, <1>5, NowFields DEF Turns
    <3>. QED
      BY <2>4, <2>5, <2>6, <3>1
  <2>11. o.id = mem.id => Carries(Held(mem), o.version)
    <3> SUFFICES ASSUME o.id = mem.id PROVE Carries(Held(mem), o.version)
      OBVIOUS
    <3>1. n = mem
      BY <1>12, <1>13, <1>16
    <3>. QED
      BY <2>4, <3>1 DEF Carries, Held, Present
  <2>. QED
    BY <2>8, <2>9, <2>10, <2>11 DEF Grows
<1>25. Moves(Now, Now', mem, o)
  BY <1>9, <1>10, <1>17, <1>20, <1>21, <1>22, <1>23, <1>24, NowFields DEF Moves
<1>. QED
  BY <1>2, <1>3, <1>7, <1>25 DEF o

\* The agent adds under the name of the turn, or under one of the time.
LEMMA AddsMoves ==
  ASSUME IInv, NEW k \in Turns, k \in Own(Now), NEW reached, Adds(k, reached),
         NEW v, v = seen[<<k, "text">>] + 1
  PROVE  /\ Shaped(Adding(k, v)) /\ Handled(Adding(k, v), FALSE, reached)
         /\ Moves(Now, Now', mem, Adding(k, v)) /\ Timely(Now')
<1> DEFINE a == <<k, "text">>
           n == Provisional(mem, LateIn(k, v))
           o == Adding(k, v)
<1>1. /\ TypeOK /\ Timely(Now) /\ Lined(Now, mem, native) /\ Whole(mem, native)
  BY DEF IInv, Rests
<1>2. a \in Entries /\ a[1] = k /\ a[2] = "text" /\ seen \in Versions
  BY <1>1, EntryTypes, Typed
<1>3. v \in 1 .. MaxVersion /\ v = seen[a] + 1 /\ LateIn(k, v) \in Names /\ seen[a] \in Nat
  <2>1. seen[a] \in Nat /\ seen[a] + 1 <= MaxVersion
    BY <1>2, VersionNat DEF Adds
  <2>2. v \in 1 .. MaxVersion
    BY <2>1, TranscriptBounds
  <2>3. v \in 0 .. MaxVersion
    BY <2>2
  <2>. QED
    BY <2>1, <2>2, <2>3, EntryTypes
<1>4. /\ turn' = turn /\ phase' = phase /\ ended' = ended
      /\ seen' = [seen EXCEPT ![a] = v] /\ Handled(o, FALSE, reached)
  BY DEF Adds, turnVars, Adding
<1>5. Shaped(mem) /\ Shaped(n) /\ Shaped(o)
  BY <1>1, <1>3, MemShaped, ProvisionalFields
<1>6. /\ \A e \in Entries : e # a => seen'[e] = seen[e]
      /\ seen'[a] = v /\ seen' \in Versions
  <2>1. seen \in [Entries -> 0 .. MaxVersion] /\ v \in 0 .. MaxVersion
    BY <1>2, <1>3 DEF Versions
  <2>. QED
    BY <1>2, <1>4, <2>1 DEF Versions
<1>7. k <= turn
  <2>1. ended \subseteq 1 .. turn /\ turn \in 0 .. MaxTurns
    BY <1>1, NowFields DEF Timely
  <2>2. k \in ended \/ k = turn
    BY NowFields DEF Own
  <2>3. turn \in Nat
    BY <2>1, TranscriptBounds
  <2>4. k \in ended => k \in 1 .. turn
    BY <2>1
  <2>5. k \in 1 .. turn => k <= turn
    BY <2>3
  <2>6. k = turn => k <= turn
    BY <2>3
  <2>. QED
    BY <2>2, <2>4, <2>5, <2>6
<1>8. Timely(Now')
  <2>1. \A e \in Entries : e[1] > turn => e # a
    BY <1>2, <1>7, <1>1, Typed DEF Turns
  <2>. QED
    BY <1>1, <1>4, <1>6, <2>1, NowFields DEF Timely
<1>9. Own(Now') = Own(Now)
  BY <1>4, NowFields DEF Own
<1>10. \A e \in Entries : seen[e] <= seen'[e]
  <2> SUFFICES ASSUME NEW e \in Entries PROVE seen[e] <= seen'[e]
    OBVIOUS
  <2>1. seen[e] \in Nat
    BY <1>2, VersionNat
  <2>. QED
    BY <1>3, <1>6, <2>1
<1>11. \A id \in Names : Spent(Now, id) => Spent(Now', id)
  <2> SUFFICES ASSUME NEW id \in Names, Spent(Now, id) PROVE Spent(Now', id)
    OBVIOUS
  <2>0. id[1] \in Turns /\ id[3] \in 0 .. MaxVersion
    BY NameParts
  <2>1. <<id[1], "text">> \in Entries
    BY <2>0, EntryTypes
  <2>4. id[3] \in Nat
    BY <2>0, TranscriptBounds
  <2>2. seen[<<id[1], "text">>] \in Nat /\ seen'[<<id[1], "text">>] \in Nat
    BY <1>2, <1>6, <2>1, VersionNat
  <2>3. id[3] <= seen[<<id[1], "text">>] => id[3] <= seen'[<<id[1], "text">>]
    BY <1>10, <2>1, <2>2, <2>4
  <2>. QED
    BY <1>4, <1>9, <2>3, NowFields DEF Spent
<1>12. \A e \in Entries : Limit(Now, e) <= Limit(Now', e)
  BY <1>10, NowFields DEF Limit
<1>13. ~Spent(Now, LateIn(k, v)) /\ Spent(Now', LateIn(k, v))
  <2>1. ~(v <= seen[a]) /\ v <= seen'[a]
    BY <1>3, <1>6
  <2>. QED
    BY <1>4, <1>7, <1>9, <2>1, NowFields, NameParts DEF Spent
<1>14. /\ n.removed = mem.removed /\ n.version = mem.version /\ n.pending = mem.pending
       /\ n.closed = mem.closed
       /\ \/ n.id = mem.id /\ n.revision = mem.revision
          \/ n.id = LateIn(k, v)
  <2>1. n = mem \/ n = Renamed(mem, LateIn(k, v))
    BY <1>3, <1>5, ProvisionalFields
  <2>2. /\ Renamed(mem, LateIn(k, v)).id = LateIn(k, v)
        /\ Renamed(mem, LateIn(k, v)).version = mem.version
        /\ Renamed(mem, LateIn(k, v)).pending = mem.pending
        /\ Renamed(mem, LateIn(k, v)).removed = mem.removed
        /\ Renamed(mem, LateIn(k, v)).closed = mem.closed
    BY <1>3, <1>5, RenamedFields DEF Shaped
  <2> HIDE DEF n
  <2>. QED
    BY <2>1, <2>2
<1> HIDE DEF n
<1>15. /\ o.id = n.id /\ o.closed = n.closed
       /\ n.pending \subseteq o.pending /\ o.pending \subseteq n.pending \union {a}
       /\ o.version = [n.version EXCEPT ![a] = Larger(@, v)]
       /\ o.version[a] = n.version[a] \/ a \in o.pending
       /\ o.removed = n.removed \ {a} /\ o.revision >= n.revision
       /\ o.revision = n.revision => o.version = n.version
  <2>1. LET x == Upserted(n, a, v)
        IN /\ Shaped(x) /\ x.id = n.id /\ x.closed = n.closed
           /\ x.version = [n.version EXCEPT ![a] = Larger(@, v)]
           /\ n.pending \subseteq x.pending /\ x.pending \subseteq n.pending \union {a}
           /\ x.version[a] = n.version[a] \/ a \in x.pending
           /\ x.removed = n.removed \ {a}
           /\ x.revision >= n.revision
           /\ x.revision = n.revision => x.version = n.version
    BY <1>2, <1>3, <1>5, UpsertedFields
  <2>2. o = Upserted(n, a, v)
    BY DEF Adding, n
  <2> HIDE DEF o
  <2>. QED
    BY <2>1, <2>2
<1> HIDE DEF o
<1>16. /\ \A e \in Entries : mem.version[e] \in Nat
       /\ mem.version[a] <= seen[a]
  <2>1. \A e \in Entries : mem.version[e] \in Nat
    BY <1>5, ClosedTypes, VersionNat
  <2>2. mem.version[a] <= Limit(Now, a)
    BY <1>1, <1>2 DEF Lined, Within
  <2>. QED
    BY <1>2, <2>1, <2>2, NowFields DEF Limit
<1>17. /\ \A e \in Entries : e # a => o.version[e] = mem.version[e]
       /\ o.version[a] = v /\ v # mem.version[a]
  <2>1. mem.version \in [Entries -> 0 .. MaxVersion]
    BY <1>5, ClosedTypes DEF Versions
  <2>2. Larger(mem.version[a], v) = v /\ v # mem.version[a]
    BY <1>2, <1>3, <1>16 DEF Larger
  <2>. QED
    BY <1>2, <1>14, <1>15, <2>1, <2>2
<1>18. \A e \in Entries : o.version[e] \in {0, mem.version[e], Limit(Now', e)}
  BY <1>2, <1>6, <1>17, NowFields DEF Limit
<1>19. \A e \in Held(o) \ o.pending : e \in Held(mem) \ mem.pending /\ o.version[e] = mem.version[e]
  BY <1>14, <1>15, <1>17 DEF Held, Present
<1>20. \A e \in Entries : seen'[e] > 0 =>
         \/ o.version[e] >= seen'[e]
         \/ /\ seen'[e] = seen[e]
            /\ o.version[e] >= mem.version[e] \/ o.closed = Append(mem.closed, Snapshot(mem))
  BY <1>3, <1>6, <1>16, <1>17
<1>21. \A e \in o.removed : e[2] = "status" /\ seen'[e] = 0
  <2> SUFFICES ASSUME NEW e \in o.removed PROVE e[2] = "status" /\ seen'[e] = 0
    OBVIOUS
  <2>1. e \in mem.removed /\ e # a /\ e \in Entries
    BY <1>5, <1>14, <1>15 DEF Shaped, LiveTails
  <2>2. e[2] = "status" /\ seen[e] = 0
    BY <1>1, <2>1, NowFields DEF Lined
  <2>. QED
    BY <1>6, <2>1, <2>2
<1>22. /\ \/ /\ o.id = mem.id /\ o.closed = mem.closed /\ o.revision >= mem.revision
             /\ o.revision = mem.revision => o.version = mem.version
          \/ /\ o.id \in Names /\ ~Spent(Now, o.id) /\ Spent(Now', o.id)
             /\ o.closed = mem.closed
  BY <1>3, <1>13, <1>14, <1>15
<1>23. Grows(Now, mem, o)
  <2>1. Held(o) = Held(mem) \union {a}
    BY <1>2, <1>3, <1>17 DEF Held, Present
  <2>2. /\ mem.pending \subseteq o.pending /\ o.pending \subseteq mem.pending \union {a}
        /\ o.removed \subseteq mem.removed
    BY <1>14, <1>15
  <2>3. TextOf(a) = a
    BY <1>2 DEF TextOf
  <2>4. Paired(Held(o)) /\ Paired(o.pending) /\ \A e \in o.removed : TextOf(e) \in Held(o)
    BY <1>1, <2>1, <2>2, <2>3 DEF Whole, Paired
  <2>5. Carries(Held(mem), o.version)
    BY <2>1 DEF Carries, Held, Present
  <2>. QED
    BY <1>2, <2>1, <2>2, <2>4, <2>5 DEF Grows
<1>24. Moves(Now, Now', mem, o)
  BY <1>11, <1>12, <1>18, <1>19, <1>20, <1>21, <1>22, <1>23, NowFields DEF Moves
<1>. QED
  BY <1>4, <1>5, <1>8, <1>24 DEF o

\* The status entries go, and with them what was shown of them.
LEMMA TurnSettlesMoves ==
  ASSUME IInv, TurnSettles, NEW S, S = {e \in Held(mem) : e[2] = "status"}
  PROVE  /\ Shaped(Removed(mem, S)) /\ Handled(Removed(mem, S), FALSE, FALSE)
         /\ Moves(Now, Now', mem, Removed(mem, S)) /\ Timely(Now')
<1> DEFINE o == Removed(mem, S)
<1>1. /\ TypeOK /\ Timely(Now) /\ Lined(Now, mem, native) /\ Whole(mem, native)
  BY DEF IInv, Rests
<1>2. /\ phase \in {"running", "stopped"} /\ phase' = "settled"
      /\ turn' = turn /\ ended' = ended /\ Handled(o, FALSE, FALSE)
      /\ seen' = [e \in Entries |-> IF e[2] = "status" THEN 0 ELSE seen[e]]
  BY DEF TurnSettles
<1>3. Shaped(mem) /\ seen \in Versions /\ mem.version \in Versions
  BY <1>1, Typed, ClosedTypes
<1>4. /\ \A e \in Entries : seen'[e] = IF e[2] = "status" THEN 0 ELSE seen[e]
      /\ seen' \in Versions
  BY <1>2, <1>3, TranscriptBounds DEF Versions
<1>5. Timely(Now')
  BY <1>1, <1>2, <1>4, NowFields DEF Timely
<1>6. Own(Now') = Own(Now)
  BY <1>2, NowFields DEF Own
<1>7. \A id \in Names : Spent(Now, id) => Spent(Now', id)
  <2> SUFFICES ASSUME NEW id \in Names, Spent(Now, id) PROVE Spent(Now', id)
    OBVIOUS
  <2>1. <<id[1], "text">> \in Entries
    BY NameParts, EntryTypes
  <2>2. seen'[<<id[1], "text">>] = seen[<<id[1], "text">>]
    BY <1>4, <2>1
  <2>. QED
    BY <1>2, <1>6, <2>2, NowFields DEF Spent
<1>8. \A e \in Entries : Limit(Now, e) = Limit(Now', e)
  BY <1>4, NowFields DEF Limit
<1>9. LET x == o
      IN /\ Shaped(x) /\ x.id = mem.id /\ x.closed = mem.closed
         /\ x.version = [e \in Entries |-> IF e \in S THEN 0 ELSE mem.version[e]]
         /\ x.pending = mem.pending \ S
         /\ x.removed = mem.removed \union (S \intersect Held(mem))
         /\ x.revision >= mem.revision
         /\ x.revision = mem.revision => S \intersect Held(mem) = {}
  BY <1>3, RemovedFields
<1> HIDE DEF o
<1>10. S \subseteq Held(mem) /\ S \subseteq Entries /\ \A e \in S : e[2] = "status"
  BY DEF Held, Present
<1>11. o.revision = mem.revision => o.version = mem.version
  BY <1>3, <1>9, <1>10 DEF Versions
<1>12. \A e \in Entries : o.version[e] = IF e \in S THEN 0 ELSE mem.version[e]
  BY <1>9
<1>13. \A e \in Entries : o.version[e] \in {0, mem.version[e], Limit(Now', e)}
  BY <1>12
<1>14. \A e \in Held(o) \ o.pending : e \in Held(mem) \ mem.pending /\ o.version[e] = mem.version[e]
  BY <1>9, <1>12 DEF Held, Present
<1>15. \A e \in Entries : seen'[e] > 0 =>
         \/ o.version[e] >= seen'[e]
         \/ /\ seen'[e] = seen[e]
            /\ o.version[e] >= mem.version[e] \/ o.closed = Append(mem.closed, Snapshot(mem))
  <2> SUFFICES ASSUME NEW e \in Entries, seen'[e] > 0
               PROVE  seen'[e] = seen[e] /\ o.version[e] >= mem.version[e]
    OBVIOUS
  <2>1. e[2] # "status" /\ seen'[e] = seen[e]
    BY <1>4
  <2>2. o.version[e] = mem.version[e] /\ mem.version[e] \in Nat
    BY <1>3, <1>10, <1>12, <2>1, VersionNat
  <2>. QED
    BY <2>1, <2>2
<1>16. \A e \in o.removed : e[2] = "status" /\ seen'[e] = 0
  <2> SUFFICES ASSUME NEW e \in o.removed PROVE e[2] = "status" /\ seen'[e] = 0
    OBVIOUS
  <2>1. e \in Entries /\ (e \in mem.removed \/ e \in S)
    BY <1>3, <1>9, <1>10 DEF Shaped, LiveTails
  <2>2. e[2] = "status"
    BY <1>1, <1>10, <2>1 DEF Lined
  <2>. QED
    BY <1>4, <2>1, <2>2
<1>17. \A e \in Entries : Limit(Now, e) <= Limit(Now', e)
  BY <1>1, <1>8, VersionNat
<1>18. Grows(Now, mem, o)
  <2>1. Held(o) = Held(mem) \ S /\ o.pending = mem.pending \ S
        /\ o.removed = mem.removed \union S
    BY <1>9, <1>10, <1>12 DEF Held, Present
  <2>2. \A e \in Entries : TextOf(e) \notin S
    BY <1>10, TextIsEntry
  <2>3. Held(mem) \subseteq Entries /\ mem.pending \subseteq Entries /\ mem.removed \subseteq Entries
    BY <1>3 DEF Held, Present, Shaped, LiveTails
  <2>4. Paired(Held(o)) /\ Paired(o.pending) /\ \A e \in o.removed : TextOf(e) \in Held(o)
    BY <1>1, <1>10, <2>1, <2>2, <2>3 DEF Whole, Paired
  <2>5. Carries(Held(mem), o.version)
    BY <1>10, <1>12 DEF Carries, Held, Present
  <2>. QED
    BY <2>1, <2>4, <2>5 DEF Grows
<1>19. Moves(Now, Now', mem, o)
  BY <1>7, <1>9, <1>11, <1>13, <1>14, <1>15, <1>16, <1>17, <1>18, NowFields DEF Moves
<1>. QED
  BY <1>2, <1>5, <1>9, <1>19 DEF o

\* The turn that ended is named by its message.
LEMMA TurnEndsMoves ==
  ASSUME IInv, TurnEnds
  PROVE  /\ Shaped(Ended(mem, MessageOf(turn)))
         /\ Handled(Ended(mem, MessageOf(turn)), TRUE, FALSE)
         /\ Moves(Now, Now', mem, Ended(mem, MessageOf(turn))) /\ Timely(Now')
<1> DEFINE o == Ended(mem, MessageOf(turn))
<1>1. /\ TypeOK /\ Timely(Now) /\ Lined(Now, mem, native) /\ Whole(mem, native)
  BY DEF IInv, Rests
<1>2. /\ phase = "settled" /\ phase' = "idle" /\ turn' = turn
      /\ ended' = ended \union {turn} /\ seen' = seen /\ Handled(o, TRUE, FALSE)
  BY DEF TurnEnds
<1>3. /\ Shaped(mem) /\ seen \in Versions /\ mem.version \in Versions
      /\ turn \in 1 .. turn /\ turn \in Turns /\ turn \notin ended
      /\ ended \subseteq 1 .. turn
  <2>1. turn \in 0 .. MaxTurns /\ turn # 0 /\ turn \notin ended /\ ended \subseteq 1 .. turn
    BY <1>1, <1>2, NowFields DEF Timely
  <2>2. turn \in 1 .. turn /\ turn \in Turns
    BY <2>1, TranscriptBounds DEF Turns
  <2>. QED
    BY <1>1, <2>1, <2>2, Typed, ClosedTypes
<1>4. MessageOf(turn) \in Names
  BY <1>3, EntryTypes
<1>5. Timely(Now')
  BY <1>1, <1>2, <1>3, NowFields DEF Timely
<1>6. Own(Now') = Own(Now) /\ turn \in Own(Now)
  BY <1>2, NowFields DEF Own
<1>7. \A id \in Names : Spent(Now, id) => Spent(Now', id)
  BY <1>2, <1>6, NowFields DEF Spent
<1>8. \A e \in Entries : Limit(Now, e) <= Limit(Now', e)
  <2>1. \A e \in Entries : Limit(Now, e) = Limit(Now', e)
    BY <1>2, NowFields DEF Limit
  <2>. QED
    BY <1>1, <2>1, VersionNat
<1>9. ~Spent(Now, MessageOf(turn)) /\ Spent(Now', MessageOf(turn))
  <2>1. turn <= turn
    BY <1>3
  <2>. QED
    BY <1>2, <1>3, <1>6, <2>1, NowFields, NameParts DEF Spent
<1>10. LET x == o
       IN /\ Shaped(x) /\ x.id = MessageOf(turn)
          /\ x.version = mem.version /\ x.pending = mem.pending
          /\ x.removed = mem.removed /\ x.closed = mem.closed
  BY <1>3, <1>4, EndedFields
<1> HIDE DEF o
<1>11. \A e \in Entries : o.version[e] >= mem.version[e]
  BY <1>3, <1>10, VersionNat
<1>12. \A e \in o.removed : e[2] = "status" /\ seen'[e] = 0
  BY <1>1, <1>2, <1>10, NowFields DEF Lined
<1>13. \A e \in Held(o) \ o.pending : e \in Held(mem) \ mem.pending /\ o.version[e] = mem.version[e]
  BY <1>10 DEF Held
<1>14. Grows(Now, mem, o)
  <2>1. Held(o) = Held(mem) /\ Carries(Held(mem), o.version)
    BY <1>10 DEF Held, Carries, Present
  <2>. QED
    BY <1>1, <1>10, <2>1 DEF Whole, Grows
<1>15. Moves(Now, Now', mem, o)
  BY <1>2, <1>4, <1>7, <1>8, <1>9, <1>10, <1>11, <1>12, <1>13, <1>14, NowFields DEF Moves
<1>. QED
  BY <1>2, <1>5, <1>10, <1>15 DEF o

\* A tail that stays as it is, moves so.
LEMMA StaysMoves ==
  ASSUME TypeOK, Rests(Now, mem, queue, recovery, native),
         turn' = turn, ended' = ended, seen' = seen, phase # "idle", phase' # "idle"
  PROVE  Moves(Now, Now', mem, mem) /\ Timely(Now')
<1>1. Timely(Now) /\ Lined(Now, mem, native) /\ Shaped(mem) /\ Whole(mem, native)
  BY Typed DEF Rests
<1>2. Own(Now') = Own(Now) /\ Timely(Now')
  BY <1>1, NowFields DEF Own, Timely
<1>3. \A id \in Names : Spent(Now, id) => Spent(Now', id)
  BY <1>2, NowFields DEF Spent
<1>4. \A e \in Entries : Limit(Now, e) <= Limit(Now', e)
  <2>1. \A e \in Entries : Limit(Now, e) = Limit(Now', e)
    BY NowFields DEF Limit
  <2>. QED
    BY <1>1, <2>1, VersionNat
<1>5. mem.revision >= mem.revision /\ \A e \in Entries : mem.version[e] >= mem.version[e]
  BY <1>1, ClosedTypes, VersionNat DEF Shaped, LiveTails
<1>6. \A e \in mem.removed : e[2] = "status" /\ seen'[e] = 0
  BY <1>1, NowFields DEF Lined
<1>7. Grows(Now, mem, mem)
  <2>1. Carries(Held(mem), mem.version)
    BY DEF Held, Carries, Present
  <2>. QED
    BY <1>1, <2>1 DEF Whole, Grows
<1>. QED
  BY <1>2, <1>3, <1>4, <1>5, <1>6, <1>7, NowFields DEF Moves

\* Every event keeps what waits and what rests.
LEMMA EventsKeep ==
  ASSUME IInv, TypeOK', Events
  PROVE  IInv'
<1>1. TypeOK /\ Rests(Now, mem, queue, recovery, native) /\ Waits(Now, mem, queue, flight, native)
  BY DEF IInv
<1>2. CASE TurnBegins
  BY <1>2, TurnBeginsMoves, EventKeeps DEF IInv
<1>3. ASSUME NEW k \in Turns, k \in Own(Now), NEW reached, Adds(k, reached) PROVE IInv'
  <2> DEFINE v == seen[<<k, "text">>] + 1
  <2>1. /\ Shaped(Adding(k, v)) /\ Handled(Adding(k, v), FALSE, reached)
        /\ Moves(Now, Now', mem, Adding(k, v)) /\ Timely(Now')
    BY <1>3, AddsMoves
  <2> HIDE DEF v
  <2>. QED
    BY <2>1, EventKeeps DEF IInv
<1>4. CASE \E reached \in BOOLEAN : Streams(reached)
  <2>1. phase = "running" => turn \in Turns /\ turn \in Own(Now)
    BY <1>1, NowFields, TranscriptBounds DEF TypeOK, Turns, Own
  <2>. QED
    BY <1>3, <1>4, <2>1 DEF Streams
<1>5. CASE \E k \in Turns : LateDelta(k)
  <2>1. \A k \in Turns : LateDelta(k) => k \in Own(Now) /\ Adds(k, FALSE)
    BY NowFields DEF LateDelta, Own
  <2>. QED
    BY <1>3, <1>5, <2>1
<1>6. CASE Stops
  <2> DEFINE q == Asking(mem, queue)
  <2>1. /\ Eased(q, queue') /\ phase = "running" /\ phase' = "stopped"
        /\ \/ flight' = flight
           \/ Begins(mem, q, flight')
        /\ UNCHANGED <<turn, ended, mem, recovery, native, seen>>
    BY <1>1, <1>6, StopsRel
  <2>2. q.interrupted = queue.interrupted /\ q.terminal = queue.terminal
    BY <1>1, Typed, AskingFields
  <2> HIDE DEF q
  <2>3. queue'.interrupted = queue.interrupted /\ queue'.terminal = queue.terminal
    BY <2>1, <2>2 DEF Eased
  <2>4. Moves(Now, Now', mem, mem) /\ Timely(Now')
    BY <1>1, <2>1, StaysMoves
  <2>5. Rests(Now', mem, queue', recovery, native)
    BY <1>1, <2>3, <2>4, Typed, RestsMoves
  <2>6. Waits(Now', mem, queue', flight, native)
    <3>1. Timely(Now)
      BY <1>1 DEF Rests
    <3>. QED
      BY <1>1, <2>3, <2>4, <3>1, Typed, WaitsMoves
  <2>7. Waits(Now', mem, queue', flight', native)
    <3>1. Begins(mem, q, flight') => Waits(Now', mem, queue', flight', native)
      BY <1>1, <2>2, <2>3, <2>5, Typed, BeginsWaiting
    <3>. QED
      BY <2>1, <2>6, <3>1
  <2>. QED
    BY <2>1, <2>5, <2>7 DEF IInv
<1>7. CASE TurnSettles
  BY <1>7, TurnSettlesMoves, EventKeeps DEF IInv
<1>8. CASE TurnEnds
  BY <1>8, TurnEndsMoves, EventKeeps DEF IInv
<1>9. CASE \E seal \in BOOLEAN : OpenHistory(seal)
  <2>1. PICK seal \in BOOLEAN : OpenHistory(seal)
    BY <1>9
  <2>2. /\ recovery' = Recovering(seal, FALSE) /\ queue' = [queue EXCEPT !.recovering = TRUE]
        /\ UNCHANGED <<turn, phase, ended, mem, flight, native, seen>>
    BY <2>1 DEF OpenHistory, turnVars, bounds
  <2>3. recovery'.at = "load"
    BY <2>2 DEF Recovering
  <2>4. queue'.interrupted = queue.interrupted /\ queue'.terminal = queue.terminal
    BY <1>1, <2>2, Typed DEF Queues
  <2>5. Now' = Now
    BY <2>2 DEF Now
  <2>6. Rests(Now, mem, queue', recovery', native)
    BY <1>1, <2>3, <2>4 DEF Rests, LoadedFirst
  <2>7. Waits(Now, mem, queue', flight, native)
    BY <1>1, <2>4 DEF Waits
  <2>. QED
    BY <2>2, <2>5, <2>6, <2>7 DEF IInv
<1>. QED
  BY <1>2, <1>4, <1>5, <1>6, <1>7, <1>8, <1>9 DEF Events

-----------------------------------------------------------------------------
(* What is written, and how the pass goes on, keep the invariant. *)

\* The request f may be made of the store n: it is ahead of what is in
\* memory, and a loaded tail that is left is the one it is about.
Writes(w, m, q, f, n) ==
  /\ Known(w, m, f.tail) /\ Ahead(m, n, f.tail)
  /\ f.at \in {"checkpoint", "closing"} => f.pending \subseteq Present(f.tail.version)
  /\ f.at \in {"displaced", "reconcile"} => Fresh(n, f.tail)
  /\ q.interrupted # None => f.at \in {"displaced", "reconcile"} /\ q.interrupted = f.tail
  /\ q.terminal # None => f.at \in {"displaced", "reconcile"} /\ q.terminal = f.tail
  /\ Sent(m, n, f)

\* The pump's request may be made.
LEMMA WaitsWrites ==
  ASSUME NEW w, NEW m, NEW q, NEW r, NEW n, Rests(w, m, q, r, n),
         NEW f \in Requests, Waits(w, m, q, f, n)
  PROVE  Writes(w, m, q, f, n)
<1>1. LoadedFirst(w, m, q, r, n)
  BY DEF Rests
<1>2. /\ Known(w, m, f.tail) /\ Ahead(m, n, f.tail)
      /\ f.at \in {"checkpoint", "closing"} => f.pending \subseteq Present(f.tail.version)
      /\ f.at = "displaced" => q.interrupted # None /\ f.tail = q.interrupted
      /\ f.at = "reconcile" => q.terminal # None /\ f.tail = q.terminal
      /\ f.at \notin {"displaced", "reconcile"} => q.interrupted = None /\ q.terminal = None
      /\ Sent(m, n, f)
  BY DEF Waits
<1>. QED
  BY <1>1, <1>2 DEF Writes, LoadedFirst

\* So may the recovery's.
LEMMA RecoveryWrites ==
  ASSUME TypeOK, NEW w, NEW m, Shaped(m), NEW q, NEW n \in Stores, Rests(w, m, q, recovery, n),
         recovery # None, recovery.at # "load"
  PROVE  Writes(w, m, q, RecoveryFlight, n)
<1>1. /\ recovery.tail \in Tails /\ RecoveryFlight.tail = recovery.tail
      /\ RecoveryFlight.at \in {"displaced", "reconcile"}
  BY RecoveryFlightType
<1>2. Known(w, m, recovery.tail) /\ Fresh(n, recovery.tail) /\ Lined(w, m, n)
  BY DEF Rests, LoadedFirst
<1>3. Ahead(m, n, recovery.tail)
  BY <1>1, <1>2, FreshIsAhead
<1>4. Sent(m, n, RecoveryFlight)
  BY <1>1 DEF Sent
<1>. QED
  BY <1>1, <1>2, <1>3, <1>4 DEF Rests, LoadedFirst, Writes

\* A request stores versions of its own, and leaves no other tail.
LEMMA MadeStored ==
  ASSUME NEW n \in Stores, NEW f \in Requests, NEW o, o = Made(n, f),
         f.at \in {"checkpoint", "closing"} => f.pending \subseteq Present(f.tail.version)
  PROVE  /\ o \in Stores
         /\ \A e \in Entries :
              \/ o.stored[e] = n.stored[e]
              \/ e \in Present(f.tail.version) /\ o.stored[e] = f.tail.version[e]
         /\ f.at \in {"checkpoint", "closing"} =>
              \A e \in f.pending : o.stored[e] = f.tail.version[e]
         /\ f.at \in {"seal", "closed", "displaced"} =>
              \A e \in Present(f.tail.version) : o.stored[e] = f.tail.version[e]
         /\ f.at = "reconcile" => o.stored = n.stored
         /\ o.tail # None => o.tail = n.tail \/ o.tail.id = f.tail.id
         /\ f.at \in {"seal", "closed", "displaced"} =>
              o.tail = IF n.tail # None /\ n.tail.id = f.tail.id THEN None ELSE n.tail
         /\ f.at = "reconcile" => o.tail = None
<1> DEFINE S == Present(f.tail.version)
<1>1. /\ f.tail \in Tails /\ f.pending \in SUBSET Entries /\ S \subseteq Entries
      /\ f.at \in {"checkpoint", "closing", "seal", "closed", "displaced", "reconcile"}
  BY MadeIs DEF Present
<1>2. CASE f.at \in {"checkpoint", "closing"}
  <2>1. o = Checkpointed(n, f.tail, f.pending, f.removed)
    BY <1>2, MadeIs
  <2>2. /\ o \in Stores /\ o.tail.id = f.tail.id
        /\ \A e \in Entries :
             o.stored[e] = IF e \in f.pending THEN f.tail.version[e] ELSE n.stored[e]
    BY <1>1, <2>1, CheckpointedFields
  <2>. QED
    BY <1>1, <1>2, <2>2
<1>3. CASE f.at \in {"seal", "closed", "displaced"}
  <2>1. /\ o \in Stores
        /\ o.tail = IF n.tail # None /\ n.tail.id = f.tail.id THEN None ELSE n.tail
        /\ o.stored = [e \in Entries |-> IF e \in S THEN f.tail.version[e] ELSE n.stored[e]]
    <3>1. o = Sealed(n, f.tail)
      BY <1>3, MadeIs
    <3>2. LET x == Sealed(n, f.tail)
          IN  /\ x \in Stores
              /\ x.tail = IF n.tail # None /\ n.tail.id = f.tail.id THEN None ELSE n.tail
              /\ x.stored = [e \in Entries |->
                   IF e \in S THEN f.tail.version[e] ELSE n.stored[e]]
      BY <1>1, SealedFields
    <3>. QED
      BY <3>1, <3>2
  <2>2. \A e \in Entries : o.stored[e] = IF e \in S THEN f.tail.version[e] ELSE n.stored[e]
    BY <2>1
  <2>. QED
    BY <1>1, <1>3, <2>1, <2>2
<1>4. CASE f.at = "reconcile"
  <2>1. o \in Stores /\ o.tail = None /\ o.stored = n.stored
    <3>1. o = Reconciled(n)
      BY <1>4, MadeIs
    <3>. QED
      BY <3>1, ReconciledFields
  <2>. QED
    BY <1>4, <2>1
<1>. QED
  BY <1>1, <1>2, <1>3, <1>4

\* What a request seals, and what it leaves of the tail.
LEMMA MadeSealed ==
  ASSUME NEW n \in Stores, NEW f \in Requests, NEW o, o = Made(n, f)
  PROVE  /\ f.at \in {"checkpoint", "closing"} =>
              /\ o.sealed = n.sealed
              /\ o.tail # None /\ o.tail.id = f.tail.id
              /\ o.tail.entries
                   = ((IF n.tail = None THEN {} ELSE n.tail.entries) \ f.removed) \union f.pending
         /\ f.at \in {"seal", "closed", "displaced"} =>
              \A e \in Entries : o.sealed[e] =
                IF o.stored[e] > 0 /\ n.sealed[e] = None
                     /\ \E s \in Present(f.tail.version) : n.sealed[s] = None
                  THEN f.tail.id ELSE n.sealed[e]
         /\ f.at = "reconcile" =>
              \A e \in Entries : o.sealed[e] =
                IF n.tail # None /\ n.stored[e] > 0 /\ n.sealed[e] = None
                     /\ \E s \in n.tail.entries : n.sealed[s] = None
                  THEN n.tail.id ELSE n.sealed[e]
<1> DEFINE S == Present(f.tail.version)
<1>1. /\ f.tail \in Tails /\ f.pending \in SUBSET Entries
      /\ f.at \in {"checkpoint", "closing", "seal", "closed", "displaced", "reconcile"}
  BY MadeIs
<1>2. ASSUME f.at \in {"checkpoint", "closing"}
      PROVE  /\ o.sealed = n.sealed
             /\ o.tail # None /\ o.tail.id = f.tail.id
             /\ o.tail.entries
                  = ((IF n.tail = None THEN {} ELSE n.tail.entries) \ f.removed) \union f.pending
  <2>1. o = Checkpointed(n, f.tail, f.pending, f.removed)
    BY <1>2, MadeIs
  <2>2. /\ o.sealed = n.sealed /\ o.tail \in StoredTails /\ o.tail.id = f.tail.id
        /\ o.tail.entries
             = ((IF n.tail = None THEN {} ELSE n.tail.entries) \ f.removed) \union f.pending
    BY <1>1, <2>1, CheckpointedFields
  <2>. QED
    BY <2>2, Apart
<1>3. ASSUME f.at \in {"seal", "closed", "displaced"}, NEW e \in Entries
      PROVE  o.sealed[e] =
               IF o.stored[e] > 0 /\ n.sealed[e] = None /\ \E s \in S : n.sealed[s] = None
                 THEN f.tail.id ELSE n.sealed[e]
  <2> DEFINE w == [d \in Entries |-> IF d \in S THEN f.tail.version[d] ELSE n.stored[d]]
  <2>1. o = Sealed(n, f.tail)
    BY <1>3, MadeIs
  <2>2. /\ o.stored = w
        /\ o.sealed = [d \in Entries |->
             IF w[d] > 0 /\ n.sealed[d] = None /\ \E s \in S : n.sealed[s] = None
               THEN f.tail.id ELSE n.sealed[d]]
    BY <1>1, <2>1, SealedFields
  <2> HIDE DEF w, S
  <2>. QED
    BY <2>2
<1>4. ASSUME f.at = "reconcile", NEW e \in Entries
      PROVE  o.sealed[e] =
               IF n.tail # None /\ n.stored[e] > 0 /\ n.sealed[e] = None
                    /\ \E s \in n.tail.entries : n.sealed[s] = None
                 THEN n.tail.id ELSE n.sealed[e]
  <2>1. o.sealed = IF n.tail = None THEN n.sealed ELSE [d \in Entries |->
             IF n.stored[d] > 0 /\ n.sealed[d] = None
                  /\ \E s \in n.tail.entries : n.sealed[s] = None
               THEN n.tail.id ELSE n.sealed[d]]
    BY <1>4, MadeIs, ReconciledFields
  <2>. QED
    BY <2>1
<1>. QED
  BY <1>2, <1>3, <1>4

\* From n to o by the request f: all of its tail is stored then, besides what
\* was; and the tail on disk is the one there was, or one of the request's
\* name with the entries of both.
Holds(n, f, o) ==
  /\ \A e \in Present(f.tail.version) : o.stored[e] > 0
  /\ \A e \in Entries : n.stored[e] > 0 => o.stored[e] > 0
  /\ \A e \in Entries :
       o.stored[e] > 0 => n.stored[e] > 0
          \/ (e \in Present(f.tail.version) /\ f.at \notin {"displaced", "reconcile"})
  /\ o.tail # None =>
       \/ o.tail = n.tail
       \/ /\ f.at \in {"checkpoint", "closing"}
          /\ o.tail.id = f.tail.id
          /\ \A e \in o.tail.entries :
               \/ e \in f.pending
               \/ /\ n.tail # None /\ n.tail.id = f.tail.id
                  /\ e \in n.tail.entries /\ e \notin f.removed

\* That is what a request makes of the store.
LEMMA MadeHolds ==
  ASSUME NEW w, NEW m, NEW q, NEW n \in Stores, NEW f \in Requests, Takes(n, f),
         Writes(w, m, q, f, n), NEW o, o = Made(n, f)
  PROVE  Holds(n, f, o)
<1> DEFINE x == f.tail
<1>1. /\ x \in Tails /\ x.version \in Versions /\ n.stored \in Versions
      /\ f.at \in {"checkpoint", "closing", "seal", "closed", "displaced", "reconcile"}
  BY MadeIs, VersionNat
<1>2. /\ f.at \in {"checkpoint", "closing"} => f.pending \subseteq Present(x.version)
      /\ f.at \in {"displaced", "reconcile"} => Fresh(n, x)
      /\ Sent(m, n, f)
  BY DEF Writes
<1>3. /\ \A e \in Entries :
           o.stored[e] = n.stored[e] \/ (e \in Present(x.version) /\ o.stored[e] = x.version[e])
      /\ f.at \in {"checkpoint", "closing"} => \A e \in f.pending : o.stored[e] = x.version[e]
      /\ f.at \in {"seal", "closed", "displaced"} =>
           \A e \in Present(x.version) : o.stored[e] = x.version[e]
      /\ f.at = "reconcile" => o.stored = n.stored
      /\ f.at \in {"seal", "closed", "displaced"} =>
           o.tail = IF n.tail # None /\ n.tail.id = x.id THEN None ELSE n.tail
      /\ f.at = "reconcile" => o.tail = None
  BY <1>2, MadeStored
<1>4. \A e \in Present(x.version) : e \in Entries /\ x.version[e] > 0
  BY DEF Present
<1> HIDE DEF x
<1>5. \A e \in Entries : n.stored[e] > 0 => o.stored[e] > 0
  BY <1>3, <1>4
<1>6. ASSUME NEW e \in Present(x.version) PROVE o.stored[e] > 0
  <2>1. CASE f.at \in {"checkpoint", "closing"}
    <3>1. CASE e \in f.pending
      BY <1>3, <1>4, <2>1, <3>1
    <3>2. CASE e \notin f.pending
      <4>1. n.stored[e] > 0
        BY <1>2, <2>1, <3>2 DEF Sent, Writ, x
      <4>. QED
        BY <1>4, <1>5, <4>1
    <3>. QED
      BY <3>1, <3>2
  <2>2. CASE f.at \in {"seal", "closed", "displaced"}
    BY <1>3, <1>4, <2>2
  <2>3. CASE f.at = "reconcile"
    <3>1. n.stored[e] = x.version[e]
      BY <1>2, <2>3 DEF Fresh
    <3>. QED
      BY <1>4, <1>5, <3>1
  <2>. QED
    BY <1>1, <2>1, <2>2, <2>3
<1>7. ASSUME NEW e \in Entries, o.stored[e] > 0
      PROVE  n.stored[e] > 0
               \/ (e \in Present(x.version) /\ f.at \notin {"displaced", "reconcile"})
  <2>1. CASE f.at \in {"displaced", "reconcile"}
    <3>1. e \in Present(x.version) => n.stored[e] > 0
      BY <1>2, <1>4, <2>1 DEF Fresh
    <3>. QED
      BY <1>3, <1>7, <3>1
  <2>2. CASE f.at \notin {"displaced", "reconcile"}
    BY <1>3, <1>7, <2>2
  <2>. QED
    BY <2>1, <2>2
<1>8. ASSUME o.tail # None
      PROVE  \/ o.tail = n.tail
             \/ /\ f.at \in {"checkpoint", "closing"}
                /\ o.tail.id = x.id
                /\ \A e \in o.tail.entries :
                     \/ e \in f.pending
                     \/ /\ n.tail # None /\ n.tail.id = x.id
                        /\ e \in n.tail.entries /\ e \notin f.removed
  <2>1. CASE f.at \in {"checkpoint", "closing"}
    <3>1. o.tail.id = x.id
          /\ o.tail.entries
               = ((IF n.tail = None THEN {} ELSE n.tail.entries) \ f.removed) \union f.pending
      BY <2>1, MadeSealed DEF x
    <3>2. n.tail # None => n.tail.id = x.id
      BY <2>1, MadeIs DEF TakesCheckpoint, x
    <3>. QED
      BY <2>1, <3>1, <3>2
  <2>2. CASE f.at \in {"seal", "closed", "displaced"}
    BY <1>3, <1>8, <2>2
  <2>3. CASE f.at = "reconcile"
    BY <1>3, <1>8, <2>3
  <2>. QED
    BY <1>1, <2>1, <2>2, <2>3
<1>. QED
  BY <1>5, <1>6, <1>7, <1>8 DEF Holds, x

\* What is sealed stays in whole turns: a status with its text.
LEMMA MadeOnDisk ==
  ASSUME NEW w, NEW m, NEW q, NEW n \in Stores, NEW f \in Requests, Takes(n, f),
         Writes(w, m, q, f, n), OnDisk(n), NEW o, o = Made(n, f)
  PROVE  OnDisk(o)
<1> DEFINE x == f.tail
           S == Present(x.version)
<1>0. Holds(n, f, o)
  BY MadeHolds
<1>1. /\ \A e \in S : o.stored[e] > 0
      /\ \A e \in Entries : n.stored[e] > 0 => o.stored[e] > 0
      /\ \A e \in Entries :
           o.stored[e] > 0 => n.stored[e] > 0
              \/ (e \in S /\ f.at \notin {"displaced", "reconcile"})
      /\ o.tail # None =>
           \/ o.tail = n.tail
           \/ /\ f.at \in {"checkpoint", "closing"}
              /\ o.tail.id = x.id
              /\ \A e \in o.tail.entries :
                   \/ e \in f.pending
                   \/ /\ n.tail # None /\ n.tail.id = x.id
                      /\ e \in n.tail.entries /\ e \notin f.removed
  BY <1>0 DEF Holds
<1>2. /\ x \in Tails
      /\ f.at \in {"checkpoint", "closing", "seal", "closed", "displaced", "reconcile"}
      /\ S \subseteq Entries
      /\ \A e \in Entries : e \in S <=> x.version[e] > 0
      /\ n.tail # None => n.tail.entries \subseteq Entries
      /\ f.pending \subseteq Entries
  BY MadeIs DEF Present, Stores, StoredTails
<1>3. /\ f.at \in {"checkpoint", "closing"} =>
           /\ f.pending \subseteq S /\ Paired(f.pending)
           /\ \A e \in f.removed : e[2] = "status"
           /\ Follows(n.stored, x.version)
  BY DEF Writes, Sent, Leads, Writ
<1>4. /\ f.at \in {"checkpoint", "closing"} =>
           /\ o.sealed = n.sealed
           /\ o.tail.entries
                = ((IF n.tail = None THEN {} ELSE n.tail.entries) \ f.removed) \union f.pending
      /\ f.at \in {"seal", "closed", "displaced"} =>
           \A e \in Entries : o.sealed[e] =
             IF o.stored[e] > 0 /\ n.sealed[e] = None /\ \E s \in S : n.sealed[s] = None
               THEN x.id ELSE n.sealed[e]
      /\ f.at = "reconcile" =>
           \A e \in Entries : o.sealed[e] =
             IF n.tail # None /\ n.stored[e] > 0 /\ n.sealed[e] = None
                  /\ \E s \in n.tail.entries : n.sealed[s] = None
               THEN n.tail.id ELSE n.sealed[e]
  BY MadeSealed
<1>5. x.id # None /\ (n.tail # None => n.tail.id # None)
  BY <1>2, Apart DEF Tails, Stores, StoredTails
<1> HIDE DEF x, S
<1>6. ASSUME o.tail # None
      PROVE  Paired(o.tail.entries) /\ \A e \in o.tail.entries : o.stored[e] > 0
  <2>1. CASE o.tail = n.tail
    BY <1>1, <1>2, <1>6, <2>1 DEF OnDisk
  <2>2. CASE f.at \in {"checkpoint", "closing"}
    <3> DEFINE had == IF n.tail = None THEN {} ELSE n.tail.entries
    <3>1. o.tail.entries = (had \ f.removed) \union f.pending
      BY <1>4, <2>2
    <3>2. had \subseteq Entries /\ Paired(had) /\ \A e \in had : n.stored[e] > 0
      BY <1>2 DEF OnDisk, Paired
    <3> HIDE DEF had
    <3>3. ASSUME NEW e \in had PROVE TextOf(e) \in had /\ TextOf(e) \notin f.removed
      <4>1. TextOf(e)[2] = "text" /\ TextOf(e) \in had
        BY <3>2, TextIsEntry DEF Paired
      <4>. QED
        BY <1>3, <2>2, <4>1
    <3>4. Paired(o.tail.entries)
      BY <1>3, <2>2, <3>1, <3>3 DEF Paired
    <3>5. \A e \in o.tail.entries : o.stored[e] > 0
      BY <1>1, <1>3, <2>2, <3>1, <3>2
    <3>. QED
      BY <3>4, <3>5
  <2>. QED
    BY <1>1, <1>6, <2>1, <2>2
<1>7. ASSUME NEW e \in Entries
      PROVE  /\ o.sealed[e] # None => o.stored[e] > 0
             /\ o.sealed[TextOf(e)] # None /\ o.stored[e] > 0 => o.sealed[e] # None
  <2>0. /\ TextOf(e) \in Entries
        /\ n.sealed[e] # None => n.stored[e] > 0
        /\ n.sealed[TextOf(e)] # None => n.stored[TextOf(e)] > 0
        /\ n.sealed[TextOf(e)] # None /\ n.stored[e] > 0 => n.sealed[e] # None
    BY TextIsEntry DEF OnDisk
  <2>1. CASE f.at \in {"checkpoint", "closing"}
    <3>1. o.sealed = n.sealed
      BY <1>4, <2>1
    <3>2. n.stored[TextOf(e)] > 0 /\ e \in S => n.stored[e] > 0
      BY <1>2, <1>3, <2>1 DEF Follows
    <3>. QED
      BY <1>1, <2>0, <3>1, <3>2
  <2>2. CASE f.at \in {"seal", "closed", "displaced"}
    <3>1. \A d \in Entries : o.sealed[d] =
             IF o.stored[d] > 0 /\ n.sealed[d] = None /\ \E s \in S : n.sealed[s] = None
               THEN x.id ELSE n.sealed[d]
      BY <1>4, <2>2
    <3>2. o.sealed[e] # None => o.stored[e] > 0
      BY <1>1, <2>0, <3>1
    <3>3. CASE \E s \in S : n.sealed[s] = None
      <4>1. o.stored[e] > 0 => o.sealed[e] # None
        BY <1>5, <3>1, <3>3
      <4>. QED
        BY <3>2, <4>1
    <3>4. CASE ~(\E s \in S : n.sealed[s] = None)
      <4>1. o.sealed[e] = n.sealed[e] /\ o.sealed[TextOf(e)] = n.sealed[TextOf(e)]
        BY <2>0, <3>1, <3>4
      <4>. QED
        BY <1>1, <2>0, <3>2, <3>4, <4>1
    <3>. QED
      BY <3>3, <3>4
  <2>3. CASE f.at = "reconcile"
    <3> DEFINE open == n.tail # None /\ \E s \in n.tail.entries : n.sealed[s] = None
    <3>1. \A d \in Entries : o.sealed[d] =
             IF open /\ n.stored[d] > 0 /\ n.sealed[d] = None THEN n.tail.id ELSE n.sealed[d]
      BY <1>4, <2>3
    <3>2. open => n.tail.id # None
      BY <1>5
    <3>3. o.stored[e] > 0 <=> n.stored[e] > 0
      BY <1>1, <2>3
    <3> HIDE DEF open
    <3>. QED
      BY <2>0, <3>1, <3>2, <3>3
  <2>. QED
    BY <1>2, <2>1, <2>2, <2>3
<1>. QED
  BY <1>6, <1>7 DEF OnDisk

\* Nor does a status come before its text by a request.
LEMMA MadeWhole ==
  ASSUME NEW w, NEW m, NEW q, NEW n \in Stores, NEW f \in Requests, Takes(n, f),
         Writes(w, m, q, f, n), Whole(m, n), NEW o, o = Made(n, f)
  PROVE  Whole(m, o) /\ Sent(m, o, f)
<1> DEFINE x == f.tail
           S == Present(x.version)
<1>0. Holds(n, f, o)
  BY MadeHolds
<1>1. /\ \A e \in S : o.stored[e] > 0
      /\ \A e \in Entries : n.stored[e] > 0 => o.stored[e] > 0
      /\ \A e \in Entries :
           o.stored[e] > 0 => n.stored[e] > 0
              \/ (e \in S /\ f.at \notin {"displaced", "reconcile"})
      /\ o.tail # None =>
           \/ o.tail = n.tail
           \/ /\ f.at \in {"checkpoint", "closing"}
              /\ o.tail.id = x.id
              /\ \A e \in o.tail.entries :
                   \/ e \in f.pending
                   \/ /\ n.tail # None /\ n.tail.id = x.id
                      /\ e \in n.tail.entries /\ e \notin f.removed
  BY <1>0 DEF Holds
<1>2. /\ f.at \in {"checkpoint", "closing", "seal", "closed", "displaced", "reconcile"}
      /\ \A e \in Entries : e \in S <=> x.version[e] > 0
  BY MadeIs DEF Present
<1>3. Sent(m, n, f)
  BY DEF Writes
<1>4. f.at \in {"checkpoint", "closing"} => f.pending \subseteq S
  BY DEF Writes
<1> HIDE DEF x, S
<1>5. ASSUME NEW v, Follows(n.stored, v),
             f.at \notin {"displaced", "reconcile"} => Follows(x.version, v)
      PROVE  Follows(o.stored, v)
  <2> SUFFICES ASSUME NEW e \in Entries, o.stored[TextOf(e)] > 0, v[e] > 0
               PROVE  o.stored[e] > 0
    BY DEF Follows
  <2>1. TextOf(e) \in Entries
    BY TextIsEntry
  <2>2. CASE n.stored[TextOf(e)] > 0
    BY <1>1, <1>5, <2>2 DEF Follows
  <2>3. CASE TextOf(e) \in S /\ f.at \notin {"displaced", "reconcile"}
    BY <1>1, <1>2, <1>5, <2>1, <2>3 DEF Follows
  <2>. QED
    BY <1>1, <2>1, <2>2, <2>3
<1>6. ASSUME NEW y, Bears(n, y),
             f.at \in {"checkpoint", "closing"} /\ x.id = y.id => Carries(S, y.version)
      PROVE  Bears(o, y)
  <2> SUFFICES ASSUME o.tail # None, o.tail.id = y.id PROVE Carries(o.tail.entries, y.version)
    BY DEF Bears
  <2>1. CASE o.tail = n.tail
    BY <1>6, <2>1 DEF Bears
  <2>2. CASE /\ f.at \in {"checkpoint", "closing"}
             /\ o.tail.id = x.id
             /\ \A e \in o.tail.entries :
                  \/ e \in f.pending
                  \/ /\ n.tail # None /\ n.tail.id = x.id
                     /\ e \in n.tail.entries /\ e \notin f.removed
    BY <1>4, <1>6, <2>2 DEF Bears, Carries
  <2>. QED
    BY <1>1, <2>1, <2>2
<1>7. f.at \notin {"displaced", "reconcile"} => Leads(m, n, x) /\ Writ(m, n, f)
  BY <1>2, <1>3 DEF Sent, x
<1>9. /\ Follows(o.stored, m.version) /\ Bears(o, m)
      /\ \A i \in DOMAIN m.closed :
           Bears(o, m.closed[i]) /\ Follows(o.stored, m.closed[i].version)
  <2>1. Follows(o.stored, m.version)
    BY <1>5, <1>7 DEF Whole, Leads
  <2>2. Bears(o, m)
    BY <1>6, <1>7 DEF Whole, Leads, S
  <2>3. ASSUME NEW i \in DOMAIN m.closed
        PROVE  Bears(o, m.closed[i]) /\ Follows(o.stored, m.closed[i].version)
    <3>1. Follows(o.stored, m.closed[i].version)
      BY <1>5, <1>7 DEF Whole, Leads
    <3>2. Bears(o, m.closed[i])
      BY <1>6, <1>7 DEF Whole, Leads, S
    <3>. QED
      BY <3>1, <3>2
  <2>. QED
    BY <2>1, <2>2, <2>3
<1>10. Whole(m, o)
  BY <1>9 DEF Whole
<1>11. ASSUME f.at \in {"checkpoint", "closing", "seal", "closed"}
       PROVE  Leads(m, o, x) /\ Writ(m, o, f)
  <2>1. Leads(m, n, x) /\ Writ(m, n, f)
    BY <1>7, <1>11
  <2>2. Follows(x.version, x.version)
    BY DEF Follows
  <2>3. Carries(S, x.version)
    BY <1>2 DEF Carries, S, Present
  <2>4. Follows(o.stored, x.version)
    BY <1>5, <2>1, <2>2 DEF Leads
  <2>5. Bears(o, x)
    BY <1>6, <2>1, <2>3 DEF Leads
  <2>6. \A e \in S : o.stored[e] > 0
    BY <1>1
  <2>. QED
    BY <2>1, <2>4, <2>5, <2>6 DEF Leads, Writ, x, S
<1>12. Sent(m, o, f)
  BY <1>11 DEF Sent, x
<1>. QED
  BY <1>10, <1>12

\* What is made of a request drops nothing, and the request could be made
\* again.
LEMMA MadeKeeps ==
  ASSUME NEW w, NEW m, NEW q, NEW r, NEW n, NEW f, NEW o,
         Shaped(m), n \in Stores, Rests(w, m, q, r, n),
         f \in Requests, Writes(w, m, q, f, n), Takes(n, f), o = Made(n, f)
  PROVE  /\ o \in Stores
         /\ Rests(w, m, q, None, o)
         /\ Writes(w, m, q, f, o)
         /\ f.at \in {"seal", "closed", "displaced", "reconcile"} =>
              \A e \in Present(f.tail.version) : o.stored[e] = f.tail.version[e]
         /\ f.at \in {"checkpoint", "closing"} =>
              \A e \in f.pending : o.stored[e] = f.tail.version[e]
<1> DEFINE x == f.tail
<1>1. /\ Timely(w) /\ Lined(w, m, n) /\ Based(w, m, n) /\ Kept(w, m, n)
      /\ LoadedFirst(w, m, q, r, n) /\ OnDisk(n) /\ Whole(m, n)
  BY DEF Rests
<1>2. /\ Known(w, m, x) /\ Ahead(m, n, x)
      /\ f.at \in {"checkpoint", "closing"} => f.pending \subseteq Present(x.version)
      /\ f.at \in {"displaced", "reconcile"} => Fresh(n, x)
      /\ q.interrupted # None => f.at \in {"displaced", "reconcile"} /\ q.interrupted = x
      /\ q.terminal # None => f.at \in {"displaced", "reconcile"} /\ q.terminal = x
  BY DEF Writes
<1>3. /\ o \in Stores
      /\ \A e \in Entries :
           o.stored[e] = n.stored[e] \/ (e \in Present(x.version) /\ o.stored[e] = x.version[e])
      /\ f.at \in {"checkpoint", "closing"} => \A e \in f.pending : o.stored[e] = x.version[e]
      /\ f.at \in {"seal", "closed", "displaced"} =>
           \A e \in Present(x.version) : o.stored[e] = x.version[e]
      /\ f.at = "reconcile" => o.stored = n.stored
      /\ o.tail # None => o.tail = n.tail \/ o.tail.id = x.id
      /\ f.at \in {"seal", "closed", "displaced"} =>
           o.tail = IF n.tail # None /\ n.tail.id = x.id THEN None ELSE n.tail
      /\ f.at = "reconcile" => o.tail = None
  BY <1>2, MadeStored
<1>4. x \in Tails /\ x.version \in Versions /\ m.version \in Versions
      /\ n.stored \in Versions /\ o.stored \in Versions
      /\ \A i \in DOMAIN m.closed : m.closed[i].version \in Versions
  BY <1>3, VersionNat, ClosedTypes DEF Requests
<1>4a. OnDisk(o) /\ Whole(m, o) /\ Sent(m, o, f)
  BY <1>1, MadeOnDisk, MadeWhole
<1> HIDE DEF x
<1>5. \A e \in Entries : o.stored[e] \in Nat /\ n.stored[e] \in Nat /\ o.stored[e] >= n.stored[e]
  <2> SUFFICES ASSUME NEW e \in Entries
               PROVE  o.stored[e] \in Nat /\ n.stored[e] \in Nat /\ o.stored[e] >= n.stored[e]
    OBVIOUS
  <2>1. o.stored[e] \in Nat /\ n.stored[e] \in Nat /\ x.version[e] \in Nat
    BY <1>4, VersionNat
  <2>2. CASE o.stored[e] = n.stored[e]
    BY <2>1, <2>2
  <2>3. CASE e \in Present(x.version) /\ o.stored[e] = x.version[e]
    BY <1>2, <2>1, <2>3 DEF Present, Ahead, Below
  <2>. QED
    BY <1>3, <2>2, <2>3
<1>6. ASSUME NEW v \in Versions, Below(n.stored, v), Below(x.version, v)
      PROVE  Below(o.stored, v)
  BY <1>3, <1>6 DEF Below, Present
<1>7. Below(x.version, x.version)
  BY <1>4, VersionNat DEF Below
<1>8. Ahead(m, o, x)
  BY <1>2, <1>4, <1>6, <1>7 DEF Ahead
<1>9. Lined(w, m, o)
  <2>1. Below(o.stored, m.version)
    BY <1>1, <1>2, <1>4, <1>6 DEF Lined, Ahead
  <2>2. \A i \in DOMAIN m.closed : Below(o.stored, m.closed[i].version)
    BY <1>1, <1>2, <1>4, <1>6 DEF Lined, Ahead
  <2>. QED
    BY <1>1, <2>1, <2>2 DEF Lined
<1>10. Based(w, m, o)
  <2>1. Within(w, o.stored)
    BY <1>1, <1>2, <1>3 DEF Based, Known, Within
  <2>2. o.tail # None => Spent(w, o.tail.id) /\ (o.tail.id = m.id => m.closed = << >>)
    BY <1>1, <1>2, <1>3 DEF Based, Known, Matches
  <2>. QED
    BY <2>1, <2>2 DEF Based
<1>11. Kept(w, m, o)
  <2>1. \A e \in Entries : \A k \in Nat : n.stored[e] >= k => o.stored[e] >= k
    BY <1>5
  <2>2. \A e \in Entries : w.seen[e] \in Nat /\ m.version[e] \in Nat
    BY <1>1, <1>4, VersionNat DEF Timely
  <2>3. \A e \in Held(m) \ m.pending : o.stored[e] >= m.version[e]
    BY <1>1, <2>1, <2>2 DEF Kept, Held, Present
  <2>4. \A e \in Entries : w.seen[e] > 0 =>
          \/ m.version[e] >= w.seen[e]
          \/ o.stored[e] >= w.seen[e]
          \/ \E i \in DOMAIN m.closed : m.closed[i].version[e] >= w.seen[e]
    BY <1>1, <2>1, <2>2 DEF Kept
  <2>. QED
    BY <2>3, <2>4 DEF Kept
<1>12. f.at \in {"displaced", "reconcile"} => Fresh(o, x)
  <2>1. CASE f.at = "reconcile"
    BY <1>2, <1>3, <2>1 DEF Fresh
  <2>2. CASE f.at = "displaced"
    <3>1. n.tail # None => n.tail.id = x.id
      BY <1>2, <2>2, LoadedFields DEF Fresh
    <3>. QED
      BY <1>3, <2>2, <3>1 DEF Fresh
  <2>. QED
    BY <2>1, <2>2
<1>13. LoadedFirst(w, m, q, None, o)
  BY <1>1, <1>2, <1>12 DEF LoadedFirst
<1>14. f.at = "reconcile" => \A e \in Present(x.version) : o.stored[e] = x.version[e]
  BY <1>2, <1>3 DEF Fresh
<1>. QED
  BY <1>1, <1>2, <1>3, <1>8, <1>9, <1>10, <1>11, <1>12, <1>13, <1>14, <1>4a
     DEF Rests, Writes, x

\* A turn leaves the live tail when all it holds is stored as it is there.
LEMMA SealKeeps ==
  ASSUME NEW w, NEW m, Shaped(m), NEW q, NEW n \in Stores, Rests(w, m, q, None, n),
         NEW f, f.tail \in Tails, Writes(w, m, q, f, n),
         \A e \in Present(f.tail.version) : n.stored[e] = f.tail.version[e],
         NEW p, p.interrupted \in {None, q.interrupted}, p.terminal \in {None, q.terminal}
  PROVE  Rests(w, SealAcknowledged(m, f.tail), p, None, n)
<1> DEFINE x == f.tail
           o == Cleared(m)
<1>1. /\ Timely(w) /\ Lined(w, m, n) /\ Based(w, m, n) /\ Kept(w, m, n)
      /\ LoadedFirst(w, m, q, None, n) /\ OnDisk(n) /\ Whole(m, n)
  BY DEF Rests
<1>2. Known(w, m, x) /\ (q.interrupted # None => q.interrupted = x /\ Displaced(m, x))
  BY <1>1 DEF Writes, LoadedFirst
<1>3. CASE ~Unchanged(m, x)
  <2>1. SealAcknowledged(m, x) = m
    BY <1>3 DEF SealAcknowledged
  <2>2. LoadedFirst(w, m, p, None, n)
    BY <1>1 DEF LoadedFirst
  <2>. QED
    BY <1>1, <2>1, <2>2 DEF Rests
<1>4. CASE Unchanged(m, x)
  <2>1. m.closed = << >> /\ m.version = x.version /\ m.id = x.id
    BY <1>2, <1>4 DEF Known, Matches, Unchanged
  <2>2. q.interrupted = None /\ p.interrupted = None
    BY <1>2, <2>1 DEF Displaced
  <2>3. /\ Shaped(o) /\ o.id = None /\ o.closed = << >> /\ o.version = NoVersions
        /\ o.removed = {} /\ o.pending = {}
    BY <2>1, ClearedFields
  <2>4. /\ DOMAIN o.closed = {} /\ \A e \in Entries : o.version[e] = 0
        /\ Held(o) = {}
    BY <2>3, ClosedTypes, NothingYet DEF Held
  <2>5. SealAcknowledged(m, x) = o
    BY <1>4 DEF SealAcknowledged
  <2> HIDE DEF o
  <2>6. /\ \A e \in Entries : Limit(w, e) \in Nat /\ w.seen[e] \in Nat /\ m.version[e] \in Nat
        /\ n.stored \in Versions /\ m.version \in Versions
    BY <1>1, VersionNat, ClosedTypes DEF Timely
  <2>7. Lined(w, o, n)
    BY <2>3, <2>4, <2>6 DEF Lined, Within, Below
  <2>8. Based(w, o, n)
    BY <1>1, <2>3 DEF Based
  <2>9. Kept(w, o, n)
    <3>1. \A e \in Entries : m.version[e] > 0 => n.stored[e] = m.version[e]
      BY <2>1 DEF Present, x
    <3>2. \A e \in Entries : w.seen[e] > 0 => n.stored[e] >= w.seen[e]
      <4>1. \A e \in Entries : w.seen[e] > 0 => m.version[e] >= w.seen[e] \/ n.stored[e] >= w.seen[e]
        BY <1>1, <2>1, ClosedTypes DEF Kept
      <4>. QED
        BY <2>6, <3>1, <4>1
    <3>. QED
      BY <2>4, <3>2 DEF Kept
  <2>10. LoadedFirst(w, o, p, None, n)
    <3>1. p.terminal # None => p.terminal \in Tails /\ p.terminal = x
      BY DEF Writes
    <3>2. x.id # o.id
      BY <2>3, Apart DEF Tails
    <3>3. Known(w, o, x)
      BY <1>2, <3>2 DEF Known
    <3>4. p.terminal # None => Fresh(n, p.terminal)
      BY <1>1 DEF LoadedFirst
    <3>. QED
      BY <2>2, <3>1, <3>3, <3>4 DEF LoadedFirst
  <2>11. Whole(o, n)
    <3>1. n.tail # None => n.tail.id # o.id
      BY <2>3, Apart DEF Stores, StoredTails
    <3>2. Follows(n.stored, o.version)
      BY <2>4 DEF Follows
    <3>. QED
      BY <2>3, <2>4, <3>1, <3>2 DEF Whole, Paired, Bears
  <2>. QED
    BY <1>1, <2>5, <2>7, <2>8, <2>9, <2>10, <2>11 DEF Rests
<1>. QED
  BY <1>3, <1>4

\* What is acknowledged is stored.
LEMMA AcknowledgedKeeps ==
  ASSUME NEW w, NEW m, Shaped(m), NEW q, NEW n \in Stores, Rests(w, m, q, None, n),
         NEW f \in Requests, f.at = "checkpoint", Known(w, m, f.tail), Sent(m, n, f),
         \A e \in f.pending : n.stored[e] = f.tail.version[e],
         NEW o, o = Acknowledged(m, f.tail.version, f.pending, f.removed)
  PROVE  Shaped(o) /\ Rests(w, o, q, None, n)
<1>1. /\ Timely(w) /\ Lined(w, m, n) /\ Based(w, m, n) /\ Kept(w, m, n)
      /\ LoadedFirst(w, m, q, None, n) /\ OnDisk(n) /\ Whole(m, n)
  BY DEF Rests
<1>2. /\ Shaped(o) /\ o.id = m.id /\ o.revision = m.revision /\ o.version = m.version
      /\ o.closed = m.closed
      /\ o.pending = m.pending \ {e \in f.pending : m.version[e] = f.tail.version[e]}
      /\ o.removed \subseteq m.removed
  BY AcknowledgedFields
<1>3. Lined(w, o, n)
  BY <1>1, <1>2 DEF Lined
<1>4. Based(w, o, n)
  BY <1>1, <1>2 DEF Based
<1>5. Kept(w, o, n)
  <2>1. ASSUME NEW e \in Held(o) \ o.pending PROVE n.stored[e] >= o.version[e]
    <3>1. e \in Entries /\ e \in Held(m) /\ o.version[e] = m.version[e] /\ m.version[e] \in Nat
      BY <1>2, ClosedTypes, VersionNat DEF Held, Present
    <3>2. CASE e \notin m.pending
      BY <1>1, <3>1, <3>2 DEF Kept
    <3>3. CASE e \in m.pending
      <4>1. e \in f.pending /\ m.version[e] = f.tail.version[e]
        BY <1>2, <3>3
      <4>. QED
        BY <3>1, <4>1
    <3>. QED
      BY <3>2, <3>3
  <2>. QED
    BY <1>1, <1>2, <2>1 DEF Kept
<1>6. LoadedFirst(w, o, q, None, n)
  BY <1>1, <1>2 DEF LoadedFirst, Known, Matches, Displaced
<1>7. Paired(o.pending)
  <2> DEFINE x == f.tail
  <2>1. /\ Leads(m, n, x) /\ Writ(m, n, f) /\ Within(w, x.version) /\ Within(w, m.version)
        /\ x.version \in Versions /\ m.version \in Versions
    BY <1>1, ClosedTypes DEF Sent, Known, Lined, Requests, Tails
  <2> HIDE DEF x
  <2> SUFFICES ASSUME NEW e \in o.pending, TextOf(e) \notin o.pending PROVE FALSE
    BY DEF Paired
  <2>2. e \in m.pending /\ e \in Entries /\ m.version[e] > 0
    BY <1>2 DEF Shaped, Held, Present
  <2>3. TextOf(e) \in m.pending /\ TextOf(e) \in f.pending
    BY <1>1, <1>2, <2>2 DEF Whole, Paired
  <2>4. e[2] = "status"
    BY <2>2, TextIsEntry
  <2>5. x.version[TextOf(e)] > 0
    BY <2>1, <2>3 DEF Writ, Present, x
  <2>6. x.version[e] > 0
    BY <2>1, <2>2, <2>5 DEF Leads, Follows
  <2>7. e \in f.pending
    BY <2>1, <2>2, <2>4, <2>6 DEF Writ, Present, x
  <2>8. m.version[e] <= 1 /\ x.version[e] <= 1
    BY <2>1, <2>2, <2>4 DEF Within, Limit
  <2>9. m.version[e] \in Nat /\ x.version[e] \in Nat
    BY <2>1, <2>2, VersionNat
  <2>10. m.version[e] = x.version[e]
    BY <2>2, <2>6, <2>8, <2>9
  <2>. QED
    BY <1>2, <2>7, <2>10 DEF x
<1>8. Whole(o, n)
  <2>1. Held(o) = Held(m)
    BY <1>2 DEF Held
  <2>. QED
    BY <1>1, <1>2, <1>7, <2>1 DEF Whole, Bears
<1>. QED
  BY <1>1, <1>2, <1>3, <1>4, <1>5, <1>6, <1>8 DEF Rests

\* The turn that was put aside first goes when it is stored.
LEMMA WithoutHeadKeeps ==
  ASSUME NEW w, NEW m, Shaped(m), NEW q, NEW n \in Stores, Rests(w, m, q, None, n),
         q.interrupted = None, q.terminal = None, m.closed # << >>, Shaped(WithoutHead(m)),
         \A e \in Present(m.closed[1].version) : n.stored[e] = m.closed[1].version[e]
  PROVE  Rests(w, WithoutHead(m), q, None, n)
<1> DEFINE o == WithoutHead(m)
<1>1. /\ Timely(w) /\ Lined(w, m, n) /\ Based(w, m, n) /\ Kept(w, m, n)
      /\ LoadedFirst(w, m, q, None, n) /\ OnDisk(n) /\ Whole(m, n)
  BY DEF Rests
<1>2. /\ o.id = m.id /\ o.version = m.version /\ o.pending = m.pending
      /\ o.removed = m.removed /\ o.closed = Tail(m.closed)
  BY DEF WithoutHead, Shaped, LiveTails
<1>3. m.closed \in Seq(Tails) /\ Len(m.closed) \in Nat /\ DOMAIN m.closed = 1 .. Len(m.closed)
      /\ \A i \in DOMAIN m.closed : m.closed[i].version \in Versions
  BY ClosedTypes
<1>4. /\ DOMAIN o.closed = 1 .. (Len(m.closed) - 1)
      /\ \A i \in DOMAIN o.closed : i + 1 \in DOMAIN m.closed /\ o.closed[i] = m.closed[i + 1]
  BY <1>2, <1>3
<1> HIDE DEF o
<1>5. Lined(w, o, n)
  <2>1. \A i \in DOMAIN o.closed :
          /\ Spent(w, o.closed[i].id) /\ o.closed[i].id # o.id
          /\ Within(w, o.closed[i].version) /\ Below(n.stored, o.closed[i].version)
          /\ Below(o.closed[i].version, o.version)
    BY <1>1, <1>2, <1>4 DEF Lined
  <2>2. \A i, j \in DOMAIN o.closed :
          i < j => Below(o.closed[i].version, o.closed[j].version)
    <3> SUFFICES ASSUME NEW i \in DOMAIN o.closed, NEW j \in DOMAIN o.closed, i < j
                 PROVE  Below(o.closed[i].version, o.closed[j].version)
      OBVIOUS
    <3>1. i + 1 \in DOMAIN m.closed /\ j + 1 \in DOMAIN m.closed /\ i + 1 < j + 1
      BY <1>3, <1>4
    <3>2. o.closed[i] = m.closed[i + 1] /\ o.closed[j] = m.closed[j + 1]
      BY <1>4
    <3>. QED
      BY <1>1, <3>1, <3>2 DEF Lined
  <2>3. o.closed # << >> => o.id # None
    BY <1>1, <1>2 DEF Lined
  <2>. QED
    BY <1>1, <1>2, <2>1, <2>2, <2>3 DEF Lined
<1>6. Based(w, o, n)
  BY <1>1, <1>2 DEF Based
<1>7. Kept(w, o, n)
  <2>1. ASSUME NEW e \in Entries, w.seen[e] > 0
        PROVE  \/ o.version[e] >= w.seen[e]
               \/ n.stored[e] >= w.seen[e]
               \/ \E i \in DOMAIN o.closed : o.closed[i].version[e] >= w.seen[e]
    <3>1. CASE m.version[e] >= w.seen[e] \/ n.stored[e] >= w.seen[e]
      BY <1>2, <3>1
    <3>2. ASSUME NEW i \in DOMAIN m.closed, m.closed[i].version[e] >= w.seen[e]
          PROVE  \/ n.stored[e] >= w.seen[e]
                 \/ \E j \in DOMAIN o.closed : o.closed[j].version[e] >= w.seen[e]
      <4>1. CASE i = 1
        <5>1. m.closed[1].version[e] \in Nat /\ w.seen[e] \in Nat
          BY <1>1, <1>3, <3>2, <4>1, VersionNat DEF Timely
        <5>2. e \in Present(m.closed[1].version)
          BY <2>1, <3>2, <4>1, <5>1 DEF Present
        <5>. QED
          BY <3>2, <4>1, <5>2
      <4>2. CASE i # 1
        <5>1. (i - 1) \in DOMAIN o.closed /\ (i - 1) + 1 = i
          BY <1>3, <1>4, <4>2
        <5>2. o.closed[i - 1] = m.closed[i]
          BY <1>4, <5>1
        <5>. QED
          BY <3>2, <5>1, <5>2
      <4>. QED
        BY <4>1, <4>2
    <3>. QED
      BY <1>1, <2>1, <3>1, <3>2 DEF Kept
  <2>. QED
    BY <1>1, <1>2, <2>1 DEF Kept, Held
<1>8. LoadedFirst(w, o, q, None, n)
  BY DEF LoadedFirst
<1>9. Whole(o, n)
  <2>1. Held(o) = Held(m)
    BY <1>2 DEF Held
  <2>2. \A i \in DOMAIN o.closed :
          /\ Paired(Present(o.closed[i].version)) /\ Bears(n, o.closed[i])
          /\ Follows(n.stored, o.closed[i].version) /\ Follows(o.closed[i].version, o.version)
    BY <1>1, <1>2, <1>4 DEF Whole
  <2>3. \A i, j \in DOMAIN o.closed : i < j =>
          /\ Follows(o.closed[i].version, o.closed[j].version)
          /\ o.closed[i].id # o.closed[j].id
    <3> SUFFICES ASSUME NEW i \in DOMAIN o.closed, NEW j \in DOMAIN o.closed, i < j
                 PROVE  /\ Follows(o.closed[i].version, o.closed[j].version)
                        /\ o.closed[i].id # o.closed[j].id
      OBVIOUS
    <3>1. i + 1 \in DOMAIN m.closed /\ j + 1 \in DOMAIN m.closed /\ i + 1 < j + 1
      BY <1>3, <1>4
    <3>2. o.closed[i] = m.closed[i + 1] /\ o.closed[j] = m.closed[j + 1]
      BY <1>4
    <3>. QED
      BY <1>1, <3>1, <3>2 DEF Whole
  <2>. QED
    BY <1>1, <1>2, <2>1, <2>2, <2>3 DEF Whole, Bears
<1>. QED
  BY <1>1, <1>5, <1>6, <1>7, <1>8, <1>9 DEF Rests, o

\* The pump goes on from what rests.
LEMMA ResumesKeep ==
  ASSUME NEW w, NEW m, NEW p, NEW n, NEW q, NEW g, NEW r,
         Shaped(m), n \in Stores, Rests(w, m, p, r, n),
         q.interrupted = p.interrupted, q.terminal = p.terminal,
         g = None \/ Begins(m, p, g)
  PROVE  Rests(w, m, q, r, n) /\ Waits(w, m, q, g, n)
<1>1. Rests(w, m, q, r, n)
  BY DEF Rests, LoadedFirst
<1>2. CASE g = None
  BY <1>1, <1>2, WaitsForNothing
<1>3. CASE Begins(m, p, g)
  BY <1>1, <1>3, BeginsWaiting
<1>. QED
  BY <1>1, <1>2, <1>3

\* An answer, whatever the request was.
LEMMA DoneKeeps ==
  ASSUME TypeOK, NEW w, NEW n \in Stores, NEW f \in Requests,
         Rests(w, mem, queue, None, n), Waits(w, mem, queue, f, n), Writes(w, mem, queue, f, n),
         f.at \in {"seal", "closed", "displaced", "reconcile"} =>
           \A e \in Present(f.tail.version) : n.stored[e] = f.tail.version[e],
         f.at \in {"checkpoint", "closing"} =>
           \A e \in f.pending : n.stored[e] = f.tail.version[e],
         NEW d, d = Done(f)
  PROVE  Rests(w, d.m, d.p.q, None, n) /\ Waits(w, d.m, d.p.q, d.p.flight, n)
<1>1. /\ Shaped(mem) /\ queue \in Queues /\ f.tail \in Tails
      /\ f.at \in {"checkpoint", "closing", "seal", "closed", "displaced", "reconcile"}
  BY Typed DEF Requests
<1>2. f.at \notin {"displaced", "reconcile"} => queue.interrupted = None /\ queue.terminal = None
  BY DEF Waits
<1>3. CASE f.at = "checkpoint"
  <2> DEFINE m == Acknowledged(mem, f.tail.version, f.pending, f.removed)
  <2>1. /\ d.m = m /\ Eased(queue, d.p.q)
        /\ \/ d.p.flight = None
           \/ Begins(m, queue, d.p.flight)
           \/ SealsOn(m, queue, f, d.p.flight)
    <3>1. d = CheckpointDone(f)
      BY <1>3 DEF Done
    <3>2. LET c == CheckpointDone(f)
          IN  /\ c.m = m /\ Eased(queue, c.p.q)
              /\ \/ c.p.flight = None
                 \/ Begins(c.m, queue, c.p.flight)
                 \/ SealsOn(c.m, queue, f, c.p.flight)
      BY <1>1, CheckpointDoneRel
    <3> HIDE DEF m
    <3>. QED
      BY <3>1, <3>2
  <2>2. Shaped(m) /\ Rests(w, m, queue, None, n)
    <3>1. Known(w, mem, f.tail) /\ Sent(mem, n, f)
      BY DEF Waits
    <3>. QED
      BY <1>1, <1>3, <3>1, AcknowledgedKeeps
  <2> HIDE DEF m
  <2>3. d.p.q.interrupted = queue.interrupted /\ d.p.q.terminal = queue.terminal
    BY <2>1 DEF Eased
  <2>4. CASE d.p.flight = None \/ Begins(m, queue, d.p.flight)
    BY <2>1, <2>2, <2>3, <2>4, ResumesKeep
  <2>5. CASE SealsOn(m, queue, f, d.p.flight)
    <3> DEFINE g == d.p.flight
    <3>1. /\ g \in Requests /\ g.at = "seal" /\ m.closed = << >> /\ m.id # None
          /\ g.tail.id = m.id /\ g.tail.revision = m.revision /\ g.tail.version = m.version
      BY <2>5 DEF SealsOn, Snapshot
    <3>2. Lined(w, m, n) /\ Whole(m, n)
      BY <2>2 DEF Rests
    <3> HIDE DEF g
    <3>3. Known(w, m, g.tail) /\ Ahead(m, n, g.tail)
      BY <2>2, <3>1, <3>2, LiveIsAhead
    <3>4. Waits(w, m, d.p.q, g, n)
      <4>1. Leads(m, n, g.tail) /\ Writ(m, n, g)
        BY <2>2, <3>1, <3>2, LiveLeads DEF Writ
      <4>. QED
        BY <1>2, <1>3, <2>3, <3>1, <3>3, <4>1 DEF Waits, Sent
    <3>5. Rests(w, m, d.p.q, None, n)
      BY <2>2, <2>3 DEF Rests, LoadedFirst
    <3>. QED
      BY <2>1, <3>4, <3>5 DEF g
  <2>. QED
    BY <2>1, <2>4, <2>5
<1>4. CASE f.at = "closing"
  <2> DEFINE g == [f EXCEPT !.at = "closed"]
  <2>1. d.m = mem /\ d.p.q = queue /\ d.p.flight = g
    BY <1>4 DEF Done
  <2>2. /\ g.at = "closed" /\ g.tail = f.tail
    BY DEF Requests
  <2> HIDE DEF g
  <2>3. Waits(w, mem, queue, g, n)
    <3>1. Leads(mem, n, g.tail) /\ Writ(mem, n, g)
      BY <1>4, <2>2 DEF Waits, Sent, Writ
    <3>. QED
      BY <1>4, <2>2, <3>1 DEF Waits, Sent
  <2>. QED
    BY <2>1, <2>3
<1>5. CASE f.at = "seal"
  <2> DEFINE m == SealAcknowledged(mem, f.tail)
  <2>1. /\ d.m = m /\ Shaped(m) /\ Eased(queue, d.p.q)
        /\ d.p.flight = None \/ Begins(m, queue, d.p.flight)
    <3>1. d = SealDone(f)
      BY <1>5 DEF Done
    <3>2. LET c == SealDone(f)
          IN  /\ c.m = m /\ Shaped(c.m) /\ Eased(queue, c.p.q)
              /\ c.p.flight = None \/ Begins(c.m, queue, c.p.flight)
      BY <1>1, SealDoneRel
    <3> HIDE DEF m
    <3>. QED
      BY <3>1, <3>2
  <2>2. Rests(w, m, queue, None, n)
    BY <1>1, <1>5, SealKeeps
  <2> HIDE DEF m
  <2>3. d.p.q.interrupted = queue.interrupted /\ d.p.q.terminal = queue.terminal
    BY <2>1 DEF Eased
  <2>. QED
    BY <2>1, <2>2, <2>3, ResumesKeep
<1>6. CASE f.at = "closed"
  <2> DEFINE m == WithoutHead(mem)
  <2>1. mem.closed # << >> /\ f.tail = mem.closed[1] /\ Head(mem.closed) = f.tail
    BY <1>1, <1>6, ClosedTypes DEF Waits
  <2>2. /\ d.m = m /\ Shaped(m) /\ Eased(queue, d.p.q)
        /\ d.p.flight = None \/ Begins(m, queue, d.p.flight)
    <3>1. d = ClosedSealDone(f)
      BY <1>6 DEF Done
    <3>2. LET c == ClosedSealDone(f)
          IN  /\ mem.closed # << >> /\ Head(mem.closed) = f.tail => c.m = m
              /\ Shaped(c.m) /\ Eased(queue, c.p.q)
              /\ c.p.flight = None \/ Begins(c.m, queue, c.p.flight)
      BY <1>1, ClosedSealDoneRel
    <3> HIDE DEF m
    <3>. QED
      BY <2>1, <3>1, <3>2
  <2>3. Rests(w, m, queue, None, n)
    BY <1>1, <1>2, <1>6, <2>1, <2>2, WithoutHeadKeeps
  <2> HIDE DEF m
  <2>4. d.p.q.interrupted = queue.interrupted /\ d.p.q.terminal = queue.terminal
    BY <2>2 DEF Eased
  <2>. QED
    BY <2>2, <2>3, <2>4, ResumesKeep
<1>7. ASSUME NEW q \in Queues, d = RecoveredDone(f, q),
             f.at \in {"displaced", "reconcile"},
             q.interrupted \in {None, queue.interrupted}, q.terminal \in {None, queue.terminal}
      PROVE  Rests(w, d.m, d.p.q, None, n) /\ Waits(w, d.m, d.p.q, d.p.flight, n)
  <2> DEFINE m == SealAcknowledged(mem, f.tail)
  <2>1. /\ d.m = m /\ Shaped(m) /\ Eased(q, d.p.q)
        /\ d.p.flight = None \/ Begins(m, q, d.p.flight)
    <3>1. LET c == RecoveredDone(f, q)
          IN  /\ c.m = m /\ Shaped(c.m) /\ Eased(q, c.p.q)
              /\ c.p.flight = None \/ Begins(c.m, q, c.p.flight)
      BY <1>1, RecoveredDoneRel
    <3> HIDE DEF m
    <3>. QED
      BY <1>7, <3>1
  <2>2. Rests(w, m, q, None, n)
    BY <1>1, <1>7, SealKeeps
  <2> HIDE DEF m
  <2>3. d.p.q.interrupted = q.interrupted /\ d.p.q.terminal = q.terminal
    BY <2>1 DEF Eased
  <2>. QED
    BY <2>1, <2>2, <2>3, ResumesKeep
<1>8. CASE f.at = "reconcile"
  <2> DEFINE q == [queue EXCEPT !.terminal = None]
  <2>1. d = RecoveredDone(f, q)
    BY <1>8 DEF Done
  <2>2. q \in Queues /\ q.terminal = None /\ q.interrupted = queue.interrupted
    BY ServedQueues
  <2> HIDE DEF q
  <2>. QED
    BY <1>7, <1>8, <2>1, <2>2
<1>9. CASE f.at = "displaced"
  <2> DEFINE q == [queue EXCEPT !.interrupted = None]
  <2>1. d = RecoveredDone(f, q)
    BY <1>9 DEF Done
  <2>2. q \in Queues /\ q.interrupted = None /\ q.terminal = queue.terminal
    BY ServedQueues
  <2> HIDE DEF q
  <2>. QED
    BY <1>7, <1>9, <2>1, <2>2
<1>. QED
  BY <1>1, <1>3, <1>4, <1>5, <1>6, <1>8, <1>9

\* The record of a failure keeps the tails that go first.
LEMMA FailedLoads ==
  ASSUME TypeOK
  PROVE  Failed(queue).interrupted = queue.interrupted /\ Failed(queue).terminal = queue.terminal
BY Typed, Easings DEF Eased

\* The answer to a request keeps the invariant: what was written is stored
\* in the version it was read with, and only that version counts as saved.
LEMMA AnsweredKeeps ==
  ASSUME IInv, TypeOK', RecoversAlone, Awake, Answered
  PROVE  IInv'
<1>1. /\ TypeOK /\ Rests(Now, mem, queue, recovery, native)
      /\ Waits(Now, mem, queue, flight, native)
  BY DEF IInv
<1>2. /\ flight \in Requests /\ flight # None /\ recovery = None
      /\ Shaped(mem) /\ queue \in Queues /\ native \in Stores
  BY <1>1, Typed DEF Answered, Awake, RecoversAlone
<1>3. Now' = Now /\ recovery' = None
  BY <1>2 DEF Answered, turnVars, bounds, Now
<1>4. CASE Takes(native, flight)
  <2> DEFINE n == Made(native, flight)
             d == Done(flight)
  <2>1. native' = n /\ mem' = d.m /\ queue' = d.p.q /\ flight' = d.p.flight
    BY <1>4 DEF Answered
  <2>2. Writes(Now, mem, queue, flight, native)
    BY <1>1, <1>2, WaitsWrites
  <2>3. n = Made(native, flight)
    OBVIOUS
  <2> HIDE DEF n, d
  <2>4. /\ n \in Stores /\ Rests(Now, mem, queue, None, n) /\ Writes(Now, mem, queue, flight, n)
        /\ flight.at \in {"seal", "closed", "displaced", "reconcile"} =>
             \A e \in Present(flight.tail.version) : n.stored[e] = flight.tail.version[e]
        /\ flight.at \in {"checkpoint", "closing"} =>
             \A e \in flight.pending : n.stored[e] = flight.tail.version[e]
    BY <1>1, <1>2, <1>4, <2>2, <2>3, MadeKeeps
  <2>5. Waits(Now, mem, queue, flight, n)
    BY <1>1, <2>4 DEF Waits, Writes
  <2>6. Rests(Now, d.m, d.p.q, None, n) /\ Waits(Now, d.m, d.p.q, d.p.flight, n)
    BY <1>1, <1>2, <2>4, <2>5, DoneKeeps DEF d
  <2>. QED
    BY <1>3, <2>1, <2>6 DEF IInv
<1>5. CASE ~Takes(native, flight)
  <2>1. /\ queue' = Failed(queue) /\ flight' = None /\ mem' = mem /\ native' = native
    BY <1>5 DEF Answered
  <2>2. queue'.interrupted = queue.interrupted /\ queue'.terminal = queue.terminal
    BY <1>1, <2>1, FailedLoads
  <2>3. Rests(Now, mem, queue', None, native) /\ Waits(Now, mem, queue', None, native)
    BY <1>1, <1>2, <2>2, ResumesKeep
  <2>. QED
    BY <1>3, <2>1, <2>3 DEF IInv
<1>. QED
  BY <1>4, <1>5

\* The failure of a request keeps it, whether it was carried out or not.
LEMMA RequestFailsKeeps ==
  ASSUME IInv, TypeOK', RecoversAlone, Awake, NEW lost \in BOOLEAN, RequestFails(lost)
  PROVE  IInv'
<1>1. /\ TypeOK /\ Rests(Now, mem, queue, recovery, native)
      /\ Waits(Now, mem, queue, flight, native)
  BY DEF IInv
<1>2. /\ flight \in Requests /\ recovery = None
      /\ Shaped(mem) /\ queue \in Queues /\ native \in Stores
  BY <1>1, Typed DEF RequestFails, Awake, RecoversAlone
<1>3. /\ Now' = Now /\ recovery' = None /\ mem' = mem /\ queue' = Failed(queue) /\ flight' = None
      /\ native' = (IF lost THEN Made(native, flight) ELSE native)
  BY <1>2 DEF RequestFails, turnVars, Now
<1>4. native' \in Stores /\ Rests(Now, mem, queue, None, native')
  <2>1. CASE lost
    <3>1. Writes(Now, mem, queue, flight, native)
      BY <1>1, <1>2, WaitsWrites
    <3>2. Takes(native, flight)
      BY <2>1 DEF RequestFails
    <3>. QED
      BY <1>1, <1>2, <1>3, <2>1, <3>1, <3>2, MadeKeeps
  <2>2. CASE ~lost
    BY <1>1, <1>2, <1>3, <2>2
  <2>. QED
    BY <2>1, <2>2
<1>5. queue'.interrupted = queue.interrupted /\ queue'.terminal = queue.terminal
  BY <1>1, <1>3, FailedLoads
<1>6. Rests(Now, mem, queue', None, native') /\ Waits(Now, mem, queue', None, native')
  BY <1>2, <1>4, <1>5, ResumesKeep
<1>. QED
  BY <1>3, <1>6 DEF IInv

\* A timer keeps it: it may begin a request, of what is there now.
LEMMA TimersKeep ==
  ASSUME IInv, TypeOK', CheckpointTimer \/ RetryTimer
  PROVE  IInv'
<1>1. /\ TypeOK /\ Rests(Now, mem, queue, recovery, native)
      /\ Waits(Now, mem, queue, flight, native)
  BY DEF IInv
<1>2. /\ Eased(queue, queue') /\ Now' = Now
      /\ flight' = flight \/ Begins(mem, queue, flight')
      /\ UNCHANGED <<mem, recovery, native>>
  BY <1>1, TimersRel DEF Now
<1>3. queue'.interrupted = queue.interrupted /\ queue'.terminal = queue.terminal
  BY <1>2 DEF Eased
<1>4. Rests(Now, mem, queue', recovery, native) /\ Waits(Now, mem, queue', flight, native)
  BY <1>1, <1>3, SameLoads
<1>5. Begins(mem, queue, flight') => Waits(Now, mem, queue', flight', native)
  BY <1>1, <1>3, Typed, ResumesKeep
<1>. QED
  BY <1>2, <1>4, <1>5 DEF IInv

-----------------------------------------------------------------------------
(* The recovery keeps the invariant. *)

\* The end of a recovery, when no request is under way.
LEMMA RecoveryEndsKeeps ==
  ASSUME TypeOK, TypeOK', flight = None, NEW m, NEW q, NEW ok, Shaped(m), q \in Queues,
         ok \in BOOLEAN, RecoveryEnds(m, q, ok), Rests(Now, m, q, None, native')
  PROVE  IInv'
<1> DEFINE r == [q EXCEPT !.recovering = FALSE]
<1>1. /\ mem' = m /\ recovery' = None
      /\ <<turn, phase, ended, live, crashes, seen>>' = <<turn, phase, ended, live, crashes, seen>>
      /\ Eased(r, queue')
      /\ r.interrupted = q.interrupted /\ r.terminal = q.terminal
      /\ flight' = flight \/ (flight = None /\ Begins(m, r, flight'))
  BY RecoveryEndsRel
<1>2. Now' = Now
  BY <1>1 DEF Now
<1>3. queue'.interrupted = r.interrupted /\ queue'.terminal = r.terminal
  BY <1>1 DEF Eased
<1> HIDE DEF r
<1>4. Rests(Now, m, r, None, native')
  BY <1>1, SameLoads
<1>5. native' \in Stores
  BY DEF TypeOK
<1>6. Rests(Now, m, queue', None, native') /\ Waits(Now, m, queue', flight', native')
  BY <1>1, <1>3, <1>4, <1>5, ResumesKeep
<1>. QED
  BY <1>1, <1>2, <1>6 DEF IInv

\* What rests during a recovery rests when it is over.
LEMMA RestsAfter ==
  ASSUME NEW w, NEW m, NEW q, NEW r, NEW n, Rests(w, m, q, r, n)
  PROVE  Rests(w, m, q, None, n)
BY DEF Rests, LoadedFirst

\* The tail that was loaded, over which nothing that goes first lies.
LEMMA LoadedIsFresh ==
  ASSUME NEW w, NEW m, NEW q, NEW r, NEW n \in Stores, Rests(w, m, q, r, n), n.tail # None
  PROVE  LET x == Loaded(n)
         IN  /\ x \in Tails /\ Fresh(n, x)
             /\ Spent(w, x.id) /\ Within(w, x.version)
             /\ x.id = m.id => m.closed = << >>
             /\ q.interrupted # None => q.interrupted = x /\ Displaced(m, x)
             /\ q.terminal # None => q.terminal = x
<1> DEFINE x == Loaded(n)
<1>1. /\ x \in Tails /\ x.id = n.tail.id
      /\ x.version = [e \in Entries |-> IF e \in n.tail.entries THEN n.stored[e] ELSE 0]
  BY LoadedFields
<1>2. /\ Timely(w) /\ Based(w, m, n) /\ LoadedFirst(w, m, q, r, n)
  BY DEF Rests
<1>3. \A e \in Entries : x.version[e] = IF e \in n.tail.entries THEN n.stored[e] ELSE 0
  BY <1>1
<1>4. Fresh(n, x)
  BY <1>3 DEF Fresh, Present
<1>5. Within(w, x.version)
  BY <1>2, <1>3, VersionNat DEF Based, Within
<1> HIDE DEF x
<1>6. Spent(w, x.id) /\ (x.id = m.id => m.closed = << >>)
  BY <1>1, <1>2 DEF Based
<1>7. /\ q.interrupted # None => q.interrupted = x /\ Displaced(m, x)
      /\ q.terminal # None => q.terminal = x
  BY <1>2 DEF LoadedFirst, Fresh, x
<1>. QED
  BY <1>1, <1>4, <1>5, <1>6, <1>7 DEF x

\* A loaded tail becomes the live one, with what came since on top.
LEMMA RestoredKeeps ==
  ASSUME NEW w, NEW m, Shaped(m), NEW q, NEW r, NEW n \in Stores, Rests(w, m, q, r, n),
         n.tail # None, NEW x, x = Loaded(n), CanRestore(m, x), NEW p,
         p.interrupted = q.interrupted, p.terminal = q.terminal,
         NEW s, s # None => s.tail = x /\ ~s.displaced
  PROVE  Shaped(Restored(m, x)) /\ Rests(w, Restored(m, x), p, s, n)
<1> DEFINE o == Restored(m, x)
<1>1. /\ x \in Tails /\ Fresh(n, x)
      /\ Spent(w, x.id) /\ Within(w, x.version)
      /\ q.interrupted # None => q.interrupted = x /\ Displaced(m, x)
      /\ q.terminal # None => q.terminal = x
  BY LoadedIsFresh
<1>2. /\ Timely(w) /\ Lined(w, m, n) /\ Based(w, m, n) /\ Kept(w, m, n)
      /\ OnDisk(n) /\ Whole(m, n)
  BY DEF Rests
<1>3. q.interrupted = None
  BY <1>1 DEF CanRestore, Displaced
<1>4. /\ Shaped(o) /\ o.id = x.id /\ o.closed = << >>
      /\ o.version = [e \in Entries |->
           IF e \in m.removed THEN 0 ELSE Larger(m.version[e], x.version[e])]
      /\ o.pending = Held(o) /\ o.removed \subseteq m.removed
      /\ o.revision >= x.revision
      /\ o.revision = x.revision => o.version = x.version
  BY <1>1, RestoredFields
<1>5. m.closed = << >>
  <2>1. m.id = None => m.closed = << >>
    BY <1>2 DEF Lined
  <2>2. m.id = x.id => m.closed = << >>
    BY LoadedIsFresh
  <2>. QED
    BY <2>1, <2>2 DEF CanRestore
<1> HIDE DEF o
<1>6. \A e \in Entries :
        /\ o.version[e] = (IF e \in m.removed THEN 0 ELSE Larger(m.version[e], x.version[e]))
        /\ o.version[e] \in Nat /\ m.version[e] \in Nat /\ x.version[e] \in Nat
        /\ n.stored[e] \in Nat /\ Limit(w, e) \in Nat /\ w.seen[e] \in Nat
  <2>1. /\ o.version \in Versions /\ m.version \in Versions /\ x.version \in Versions
        /\ n.stored \in Versions /\ w.seen \in Versions
    BY <1>1, <1>2, <1>4, ClosedTypes, VersionNat DEF Timely
  <2>. QED
    BY <1>2, <1>4, <2>1, VersionNat
<1>7. DOMAIN o.closed = {}
  BY <1>4
<1>8. Lined(w, o, n)
  <2>1. Within(w, o.version)
    BY <1>1, <1>2, <1>6 DEF Lined, Within, Larger
  <2>2. Below(n.stored, o.version)
    <3> SUFFICES ASSUME NEW e \in Entries, n.stored[e] > 0, o.version[e] > 0
                 PROVE  n.stored[e] <= o.version[e]
      BY DEF Below
    <3>1. o.version[e] = Larger(m.version[e], x.version[e])
      BY <1>6
    <3>2. m.version[e] > 0 => n.stored[e] <= m.version[e]
      BY <1>2 DEF Lined, Below
    <3>3. x.version[e] > 0 => n.stored[e] = x.version[e]
      BY <1>1 DEF Fresh, Present
    <3>. QED
      BY <1>6, <3>1, <3>2, <3>3 DEF Larger
  <2>. QED
    BY <1>1, <1>2, <1>4, <1>7, <2>1, <2>2 DEF Lined
<1>9. Based(w, o, n)
  BY <1>2, <1>4 DEF Based
<1>10. Kept(w, o, n)
  <2>1. \A e \in Held(o) \ o.pending : n.stored[e] >= o.version[e]
    BY <1>4
  <2>2. ASSUME NEW e \in Entries, w.seen[e] > 0
        PROVE  o.version[e] >= w.seen[e] \/ n.stored[e] >= w.seen[e]
    <3>1. e \notin m.removed
      BY <1>2, <2>2 DEF Lined
    <3>2. m.version[e] >= w.seen[e] \/ n.stored[e] >= w.seen[e]
      BY <1>2, <1>5, <2>2 DEF Kept
    <3>. QED
      BY <1>6, <3>1, <3>2 DEF Larger
  <2>. QED
    BY <2>1, <2>2 DEF Kept
<1>11. Known(w, o, x)
  BY <1>1, <1>4 DEF Known, Matches
<1>12. LoadedFirst(w, o, p, s, n)
  BY <1>1, <1>3, <1>11 DEF LoadedFirst
<1>13. \A e \in Entries : e \in n.tail.entries <=> x.version[e] > 0
  <2>1. x.version = [e \in Entries |-> IF e \in n.tail.entries THEN n.stored[e] ELSE 0]
    BY LoadedFields
  <2>. QED
    BY <1>2, <2>1 DEF OnDisk
<1>14. \A e \in Entries : e \in Held(o) <=> e \notin m.removed /\ (e \in Held(m) \/ x.version[e] > 0)
  BY <1>6 DEF Larger, Held, Present
<1>15. \A e \in Entries : TextOf(e) \in Entries /\ TextOf(e) \notin m.removed
                          /\ (e[2] = "text" => e \notin m.removed)
  BY <1>2, TextIsEntry DEF Lined
<1>16. Whole(o, n)
  <2>1. ASSUME NEW e \in Held(o) PROVE TextOf(e) \in Held(o)
    <3>1. e \in Entries
      BY DEF Held, Present
    <3>2. CASE e \in Held(m)
      BY <1>2, <1>14, <1>15, <3>1, <3>2 DEF Whole, Paired
    <3>3. CASE x.version[e] > 0
      <4>1. TextOf(e) \in n.tail.entries
        BY <1>2, <1>13, <3>1, <3>3 DEF OnDisk, Paired
      <4>. QED
        BY <1>13, <1>14, <1>15, <3>1, <4>1
    <3>. QED
      BY <1>14, <3>1, <3>2, <3>3
  <2>2. \A e \in o.removed : TextOf(e) \in Held(o)
    <3> SUFFICES ASSUME NEW e \in o.removed PROVE TextOf(e) \in Held(o)
      OBVIOUS
    <3>1. e \in m.removed /\ e \in Entries
      BY <1>4 DEF Shaped, LiveTails
    <3>2. TextOf(e) \in Held(m)
      BY <1>2, <3>1 DEF Whole
    <3>. QED
      BY <1>14, <1>15, <3>1, <3>2
  <2>3. Follows(n.stored, o.version)
    <3> SUFFICES ASSUME NEW e \in Entries, n.stored[TextOf(e)] > 0, o.version[e] > 0
                 PROVE  n.stored[e] > 0
      BY DEF Follows
    <3>1. e \in Held(m) \/ x.version[e] > 0
      BY <1>14 DEF Held, Present
    <3>2. CASE e \in Held(m)
      BY <1>2, <3>2 DEF Whole, Follows, Held, Present
    <3>3. CASE x.version[e] > 0
      BY <1>2, <1>13, <3>3 DEF OnDisk
    <3>. QED
      BY <3>1, <3>2, <3>3
  <2>4. Carries(n.tail.entries, o.version)
    <3> SUFFICES ASSUME NEW e \in n.tail.entries, e[2] = "text" PROVE o.version[e] > 0
      BY DEF Carries
    <3>1. e \in Entries
      BY DEF Stores, StoredTails
    <3>2. e \in Held(o)
      BY <1>13, <1>14, <1>15, <3>1
    <3>. QED
      BY <3>2 DEF Held, Present
  <2>. QED
    BY <1>4, <1>7, <2>1, <2>2, <2>3, <2>4 DEF Whole, Paired, Bears
<1>. QED
  BY <1>2, <1>4, <1>8, <1>9, <1>10, <1>12, <1>16 DEF Rests, o

\* A recovery that has read the tail on disk restores it, or goes on to seal
\* it ahead of the live one.
LEMMA TailLoadedKeeps ==
  ASSUME IInv, TypeOK', RecoversAlone, TailLoaded
  PROVE  IInv'
<1>1. /\ TypeOK /\ Rests(Now, mem, queue, recovery, native)
      /\ Waits(Now, mem, queue, flight, native)
  BY DEF IInv
<1>2. /\ recovery # None /\ recovery.at = "load" /\ flight = None /\ native' = native
      /\ Shaped(mem) /\ queue \in Queues /\ native \in Stores /\ recovery \in Recoveries
  BY <1>1, Typed DEF TailLoaded, RecoversAlone
<1>3. CASE native.tail = None
  <2>1. RecoveryEnds(mem, queue, TRUE)
    BY <1>3 DEF TailLoaded
  <2>2. Rests(Now, mem, queue, None, native')
    BY <1>1, <1>2, RestsAfter
  <2>. QED
    BY <1>1, <1>2, <2>1, <2>2, RecoveryEndsKeeps
<1>4. CASE native.tail # None
  <2> DEFINE tail == Loaded(native)
             sealAt == IF tail.ended THEN "reconcile" ELSE "seal"
  <2>1. /\ tail \in Tails /\ Fresh(native, tail)
        /\ Spent(Now, tail.id) /\ Within(Now, tail.version)
        /\ queue.interrupted # None => queue.interrupted = tail /\ Displaced(mem, tail)
        /\ queue.terminal # None => queue.terminal = tail
    BY <1>1, <1>2, <1>4, LoadedIsFresh
  <2>2. IF ~CanRestore(mem, tail)
          THEN Goes(mem, queue, sealAt, tail, TRUE)
        ELSE IF tail.ended \/ recovery.seal
          THEN Goes(Restored(mem, tail), RestoredQueue(tail), sealAt, tail, FALSE)
        ELSE RecoveryEnds(Restored(mem, tail), RestoredQueue(tail), TRUE)
    BY <1>4 DEF TailLoaded
  <2>3. /\ RestoredQueue(tail) \in Queues
        /\ RestoredQueue(tail).interrupted = queue.interrupted
        /\ RestoredQueue(tail).terminal = queue.terminal
    BY <1>1, <2>1, RecoveryQueues
  <2> HIDE DEF sealAt
  <2>4. CASE ~CanRestore(mem, tail)
    <3>1. Goes(mem, queue, sealAt, tail, TRUE)
      BY <2>2, <2>4
    <3>2. /\ mem' = mem /\ queue' = queue /\ flight' = flight /\ Now' = Now
          /\ recovery' = [recovery EXCEPT !.at = sealAt, !.tail = tail, !.displaced = TRUE]
      BY <3>1 DEF Goes, turnVars, Now
    <3>3. recovery'.tail = tail
      BY <1>2, <3>2 DEF Recoveries
    <3>4. Displaced(mem, tail) /\ Known(Now, mem, tail)
      BY <2>1, <2>4 DEF CanRestore, Displaced, Known
    <3> HIDE DEF tail
    <3>5. LoadedFirst(Now, mem, queue, recovery', native)
      <4>1. LoadedFirst(Now, mem, queue, recovery, native)
        BY <1>1 DEF Rests
      <4>. QED
        BY <2>1, <3>3, <3>4, <4>1 DEF LoadedFirst
    <3>6. Rests(Now, mem, queue, recovery', native)
      BY <1>1, <3>5 DEF Rests
    <3>. QED
      BY <1>1, <1>2, <3>2, <3>6 DEF IInv
  <2>5. CASE CanRestore(mem, tail) /\ (tail.ended \/ recovery.seal)
    <3>1. Goes(Restored(mem, tail), RestoredQueue(tail), sealAt, tail, FALSE)
      BY <2>2, <2>5
    <3>2. /\ mem' = Restored(mem, tail) /\ queue' = RestoredQueue(tail) /\ flight' = flight
          /\ Now' = Now
          /\ recovery' = [recovery EXCEPT !.at = sealAt, !.tail = tail, !.displaced = FALSE]
      BY <3>1 DEF Goes, turnVars, Now
    <3>3. recovery'.tail = tail /\ ~recovery'.displaced
      BY <1>2, <3>2 DEF Recoveries
    <3>4. Rests(Now, Restored(mem, tail), RestoredQueue(tail), recovery', native)
      BY <1>1, <1>2, <1>4, <2>3, <2>5, <3>3, RestoredKeeps
    <3>5. Waits(Now', mem', queue', None, native)
      BY WaitsForNothing
    <3>. QED
      BY <1>2, <3>2, <3>4, <3>5 DEF IInv
  <2>6. CASE CanRestore(mem, tail) /\ ~(tail.ended \/ recovery.seal)
    <3>1. RecoveryEnds(Restored(mem, tail), RestoredQueue(tail), TRUE)
      BY <2>2, <2>6
    <3>2. /\ Shaped(Restored(mem, tail))
          /\ Rests(Now, Restored(mem, tail), RestoredQueue(tail), None, native)
      BY <1>1, <1>2, <1>4, <2>3, <2>6, RestoredKeeps
    <3>. QED
      BY <1>1, <1>2, <2>3, <3>1, <3>2, RecoveryEndsKeeps
  <2>. QED
    BY <2>4, <2>5, <2>6
<1>. QED
  BY <1>3, <1>4

\* A recovery that could not read the tail leaves everything as it was.
LEMMA LoadFailsKeeps ==
  ASSUME IInv, TypeOK', RecoversAlone, LoadFails
  PROVE  IInv'
<1>1. /\ TypeOK /\ Rests(Now, mem, queue, recovery, native)
  BY DEF IInv
<1>2. /\ flight = None /\ native' = native /\ Shaped(mem) /\ queue \in Queues
      /\ RecoveryEnds(mem, queue, FALSE)
  BY <1>1, Typed DEF LoadFails, RecoversAlone
<1>3. Rests(Now, mem, queue, None, native')
  BY <1>1, <1>2, RestsAfter
<1>. QED
  BY <1>1, <1>2, <1>3, RecoveryEndsKeeps

\* What the recovery's request makes of the store, and what it leaves to be
\* done again when it failed.
LEMMA RecoveryMakes ==
  ASSUME IInv, recovery # None, recovery.at # "load",
         NEW n, n = native \/ (Takes(native, RecoveryFlight) /\ n = Made(native, RecoveryFlight))
  PROVE  /\ n \in Stores
         /\ Rests(Now, mem, queue, None, n)
         /\ Writes(Now, mem, queue, RecoveryFlight, n)
         /\ Rests(Now, mem, KeptForRetry, None, n)
         /\ Takes(native, RecoveryFlight) /\ n = Made(native, RecoveryFlight) =>
              \A e \in Present(recovery.tail.version) : n.stored[e] = recovery.tail.version[e]
<1>1. /\ TypeOK /\ Rests(Now, mem, queue, recovery, native)
      /\ Shaped(mem) /\ queue \in Queues /\ native \in Stores
  BY Typed DEF IInv
<1>2. /\ RecoveryFlight \in Requests /\ RecoveryFlight.tail = recovery.tail
      /\ RecoveryFlight.at \in {"displaced", "reconcile"} /\ recovery.tail \in Tails
      /\ recovery.at \in {"seal", "reconcile"}
  BY <1>1, RecoveryFlightType
<1>3. Writes(Now, mem, queue, RecoveryFlight, native)
  BY <1>1, RecoveryWrites
<1>4. Rests(Now, mem, queue, None, native)
  BY <1>1, RestsAfter
<1>5. ASSUME Takes(native, RecoveryFlight), n = Made(native, RecoveryFlight)
      PROVE  /\ n \in Stores
             /\ Rests(Now, mem, queue, None, n)
             /\ Writes(Now, mem, queue, RecoveryFlight, n)
             /\ \A e \in Present(recovery.tail.version) : n.stored[e] = recovery.tail.version[e]
  <2> DEFINE f == RecoveryFlight
             w == Now
  <2>1. f \in Requests /\ Takes(native, f) /\ n = Made(native, f)
        /\ Writes(w, mem, queue, f, native)
        /\ Rests(w, mem, queue, recovery, native)
        /\ Shaped(mem) /\ native \in Stores
    BY <1>1, <1>2, <1>3, <1>5
  <2>2. f.tail = recovery.tail /\ f.at \in {"seal", "closed", "displaced", "reconcile"}
    BY <1>2
  <2> HIDE DEF f, w
  <2>3. /\ n \in Stores /\ Rests(w, mem, queue, None, n) /\ Writes(w, mem, queue, f, n)
        /\ f.at \in {"seal", "closed", "displaced", "reconcile"} =>
             \A e \in Present(f.tail.version) : n.stored[e] = f.tail.version[e]
    BY <2>1, MadeKeeps
  <2>4. \A e \in Present(recovery.tail.version) : n.stored[e] = recovery.tail.version[e]
    BY <2>2, <2>3
  <2>. QED
    BY <2>3, <2>4 DEF f, w
<1>6. /\ n \in Stores /\ Rests(Now, mem, queue, None, n)
      /\ Writes(Now, mem, queue, RecoveryFlight, n)
  BY <1>1, <1>3, <1>4, <1>5
<1>7. /\ KeptForRetry.interrupted =
           IF recovery.at = "seal" /\ recovery.displaced THEN recovery.tail ELSE queue.interrupted
      /\ KeptForRetry.terminal =
           IF recovery.at = "reconcile" THEN recovery.tail ELSE queue.terminal
  BY <1>1, RecoveryQueues
<1>8. /\ Known(Now, mem, recovery.tail)
      /\ recovery.displaced => Displaced(mem, recovery.tail)
      /\ queue.interrupted # None => queue.interrupted = recovery.tail
      /\ queue.terminal # None => queue.terminal = recovery.tail
      /\ queue.interrupted # None => Displaced(mem, queue.interrupted)
  BY <1>1 DEF Rests, LoadedFirst
<1>9. Fresh(n, recovery.tail)
  BY <1>2, <1>6 DEF Writes
<1>10. LoadedFirst(Now, mem, KeptForRetry, None, n)
  BY <1>7, <1>8, <1>9 DEF LoadedFirst
<1>11. Rests(Now, mem, KeptForRetry, None, n)
  BY <1>6, <1>10 DEF Rests
<1>. QED
  BY <1>5, <1>6, <1>11

\* A recovery that seals the tail acknowledges no more than it sealed.
LEMMA RecoversKeeps ==
  ASSUME IInv, TypeOK', RecoversAlone, Recovers
  PROVE  IInv'
<1>1. /\ TypeOK /\ Rests(Now, mem, queue, recovery, native)
  BY DEF IInv
<1>2. /\ recovery # None /\ recovery.at # "load" /\ flight = None
      /\ Shaped(mem) /\ queue \in Queues /\ recovery.tail \in Tails
      /\ RecoveryFlight.tail = recovery.tail
  BY <1>1, Typed, RecoveryFlightType DEF Recovers, RecoversAlone
<1>3. CASE Takes(native, RecoveryFlight)
  <2> DEFINE m == SealAcknowledged(mem, recovery.tail)
  <2>1. native' = Made(native, RecoveryFlight) /\ RecoveryEnds(m, RecoveredQueue, TRUE)
    BY <1>3 DEF Recovers, RecoveredQueue
  <2>2. /\ native' \in Stores /\ Rests(Now, mem, queue, None, native')
        /\ Writes(Now, mem, queue, RecoveryFlight, native')
        /\ \A e \in Present(recovery.tail.version) : native'.stored[e] = recovery.tail.version[e]
    BY <1>2, <1>3, <2>1, RecoveryMakes
  <2>3. /\ RecoveredQueue \in Queues
        /\ RecoveredQueue.terminal = queue.terminal
        /\ RecoveredQueue.interrupted \in {None, queue.interrupted}
    BY <1>1, RecoveredQueueFields
  <2>4. Rests(Now, m, RecoveredQueue, None, native')
    BY <1>2, <2>2, <2>3, SealKeeps
  <2>5. Shaped(m)
    BY <1>2, ClearedFields DEF SealAcknowledged
  <2>. QED
    BY <1>1, <1>2, <2>1, <2>3, <2>4, <2>5, RecoveryEndsKeeps
<1>4. CASE ~Takes(native, RecoveryFlight)
  <2>1. native' = native /\ RecoveryEnds(mem, KeptForRetry, FALSE)
    BY <1>4 DEF Recovers
  <2>2. KeptForRetry \in Queues /\ Rests(Now, mem, KeptForRetry, None, native')
    BY <1>1, <1>2, <2>1, RecoveryQueues, RecoveryMakes
  <2>. QED
    BY <1>1, <1>2, <2>1, <2>2, RecoveryEndsKeeps
<1>. QED
  BY <1>3, <1>4

\* A recovery that fails keeps the tail to be sealed first.
LEMMA RecoveryFailsKeeps ==
  ASSUME IInv, TypeOK', RecoversAlone, NEW lost \in BOOLEAN, RecoveryFails(lost)
  PROVE  IInv'
<1>1. /\ TypeOK /\ Rests(Now, mem, queue, recovery, native)
  BY DEF IInv
<1>2. /\ recovery # None /\ recovery.at # "load" /\ flight = None /\ Shaped(mem)
      /\ native' = native
           \/ (Takes(native, RecoveryFlight) /\ native' = Made(native, RecoveryFlight))
      /\ RecoveryEnds(mem, KeptForRetry, FALSE)
  BY <1>1, Typed DEF RecoveryFails, RecoversAlone
<1>3. KeptForRetry \in Queues /\ Rests(Now, mem, KeptForRetry, None, native')
  BY <1>1, <1>2, RecoveryQueues, RecoveryMakes
<1>. QED
  BY <1>1, <1>2, <1>3, RecoveryEndsKeeps

-----------------------------------------------------------------------------
(* The application stops, and starts.  *)

\* With nothing in memory the invariant speaks of the store alone.
LEMMA EmptyRests ==
  ASSUME NEW w, Timely(w), NEW n \in Stores, NEW m, m = EmptyTail, NEW q, q = EmptyQueue,
         Within(w, n.stored), n.tail # None => Spent(w, n.tail.id),
         \A e \in Entries : w.seen[e] > 0 => n.stored[e] >= w.seen[e], OnDisk(n)
  PROVE  Rests(w, m, q, None, n)
<1>1. /\ m.id = None /\ m.closed = << >> /\ m.version = NoVersions /\ m.removed = {}
      /\ m.pending = {}
      /\ DOMAIN m.closed = {} /\ Held(m) = {}
  BY NothingYet DEF EmptyTail, Held
<1>2. q.interrupted = None /\ q.terminal = None
  BY DEF EmptyQueue
<1>3. \A e \in Entries : m.version[e] = 0 /\ Limit(w, e) \in Nat
  BY <1>1, NothingYet, VersionNat
<1>4. Lined(w, m, n)
  BY <1>1, <1>3 DEF Lined, Within, Below
<1>5. Based(w, m, n)
  BY <1>1 DEF Based
<1>6. Kept(w, m, n)
  BY <1>1 DEF Kept
<1>7. LoadedFirst(w, m, q, None, n)
  BY <1>2 DEF LoadedFirst
<1>8. Whole(m, n)
  <2>1. n.tail # None => n.tail.id # m.id
    BY <1>1, Apart DEF Stores, StoredTails
  <2>2. Follows(n.stored, m.version)
    BY <1>3 DEF Follows
  <2>. QED
    BY <1>1, <2>1, <2>2 DEF Whole, Paired, Bears
<1>. QED
  BY <1>4, <1>5, <1>6, <1>7, <1>8 DEF Rests

\* What was stored when the application stopped is what can be shown.
LEMMA CrashKeeps ==
  ASSUME IInv, TypeOK', NEW carried \in BOOLEAN, Crash(carried)
  PROVE  IInv'
<1>1. /\ TypeOK /\ Rests(Now, mem, queue, recovery, native)
      /\ Waits(Now, mem, queue, flight, native)
      /\ Shaped(mem) /\ native \in Stores /\ seen \in Versions
      /\ flight \in Requests \union {Spin, None}
  BY Typed DEF IInv
<1>2. /\ carried => flight # None /\ flight # Spin /\ Takes(native, flight)
      /\ native' = (IF carried THEN Made(native, flight) ELSE native)
      /\ seen' = [e \in Entries |->
           IF e[2] = "text" /\ native'.stored[e] < seen[e] THEN native'.stored[e]
           ELSE IF e[2] = "text" THEN seen[e] ELSE 0]
      /\ phase' = "idle" /\ ended' = {} /\ turn' = turn
      /\ mem' = EmptyTail /\ queue' = EmptyQueue
      /\ flight' = None /\ recovery' = None
  BY DEF Crash
<1>3. native' \in Stores /\ Rests(Now, mem, queue, None, native')
  <2>1. CASE carried
    <3>1. flight \in Requests
      BY <1>1, <1>2, <2>1
    <3>2. Writes(Now, mem, queue, flight, native)
      BY <1>1, <3>1, WaitsWrites
    <3>. QED
      BY <1>1, <1>2, <2>1, <3>1, <3>2, MadeKeeps
  <2>2. CASE ~carried
    BY <1>1, <1>2, <2>2, RestsAfter
  <2>. QED
    BY <2>1, <2>2
<1>4. Timely(Now) /\ Based(Now, mem, native') /\ OnDisk(native')
  BY <1>3 DEF Rests
<1>5. /\ \A e \in Entries : seen'[e] =
           IF e[2] = "text" /\ native'.stored[e] < seen[e] THEN native'.stored[e]
           ELSE IF e[2] = "text" THEN seen[e] ELSE 0
      /\ \A e \in Entries : native'.stored[e] \in Nat /\ seen[e] \in Nat
      /\ seen' \in Versions
  BY <1>1, <1>2, <1>3, VersionNat DEF TypeOK
<1>6. \A e \in Entries : /\ e[2] = "text" => native'.stored[e] <= seen[e]
                         /\ e[2] # "text" => native'.stored[e] <= 1
  BY <1>4, NowFields DEF Based, Within, Limit
<1>7. Timely(Now')
  <2>1. \A e \in Entries : e[1] > turn => seen'[e] = 0
    BY <1>4, <1>5, <1>6, NowFields DEF Timely
  <2>. QED
    BY <1>2, <1>4, <1>5, <2>1, NowFields DEF Timely
<1>8. Within(Now', native'.stored)
  <2>1. \A e \in Entries : native'.stored[e] <= IF e[2] = "text" THEN seen'[e] ELSE 1
    BY <1>5, <1>6
  <2>. QED
    BY <2>1, NowFields DEF Within, Limit
<1>9. native'.tail # None => Spent(Now', native'.tail.id)
  <2>1. Own(Now') = {}
    BY <1>2, NowFields DEF Own
  <2>. QED
    BY <1>2, <1>4, <2>1, NowFields DEF Based, Spent
<1>10. \A e \in Entries : Now'.seen[e] > 0 => native'.stored[e] >= Now'.seen[e]
  BY <1>5, <1>6, NowFields
<1>11. Rests(Now', mem', queue', None, native')
  BY <1>2, <1>3, <1>4, <1>7, <1>8, <1>9, <1>10, EmptyRests
<1>12. Waits(Now', mem', queue', None, native')
  BY WaitsForNothing
<1>. QED
  BY <1>2, <1>11, <1>12 DEF IInv

\* A session of the past begins with what is stored of it.
LEMMA InitKeeps ==
  ASSUME Init
  PROVE  IInv
<1>1. TypeOK /\ native \in Stores /\ seen \in Versions
  BY InitType, Typed
<1>2. /\ mem = EmptyTail /\ queue = EmptyQueue /\ flight = None /\ recovery = None
      /\ phase = "idle" /\ ended = {}
      /\ seen = [e \in Entries |-> IF e[2] = "text" THEN native.stored[e] ELSE 0]
      /\ turn = (IF native.tail = None THEN 0 ELSE 1)
      /\ native \in {EmptyStore} \union {PastStore(over) : over \in BOOLEAN}
  BY DEF Init
<1>3. \A e \in Entries : seen[e] = IF e[2] = "text" THEN native.stored[e] ELSE 0
  BY <1>2
<1>4. /\ \A e \in Entries : native.stored[e] \in {0, 1} /\ (e[1] > turn => native.stored[e] = 0)
      /\ native.tail # None => native.tail.id = StartOf(1)
  <2>1. CASE native = EmptyStore
    <3>1. native.tail = None /\ native.stored = NoVersions
      BY <2>1 DEF EmptyStore
    <3>. QED
      BY <3>1, NothingYet
  <2>2. ASSUME NEW over \in BOOLEAN, native = PastStore(over)
        PROVE  /\ \A e \in Entries : native.stored[e] \in {0, 1}
                                     /\ (e[1] > turn => native.stored[e] = 0)
               /\ native.tail # None => native.tail.id = StartOf(1)
    <3>1. /\ native.stored = [e \in Entries |-> IF e \in PastEntries(over) THEN 1 ELSE 0]
          /\ native.tail = [id |-> StartOf(1), ended |-> over, entries |-> PastEntries(over),
                            revision |-> 1]
      BY <2>2 DEF PastStore, EmptyStore
    <3>2. native.tail.id = StartOf(1)
      BY <3>1
    <3>3. turn = 1
      <4>1. native.tail # None
        BY <2>2, PastTailIsThere
      <4>. QED
        BY <1>2, <4>1
    <3>4. \A e \in PastEntries(over) : e[1] = 1
      BY DEF PastEntries
    <3>5. \A e \in Entries : native.stored[e] = IF e \in PastEntries(over) THEN 1 ELSE 0
      BY <3>1
    <3>. QED
      BY <3>2, <3>3, <3>4, <3>5
  <2>. QED
    BY <1>2, <2>1, <2>2
<1>5. turn \in 0 .. MaxTurns
  BY <1>1, Typed
<1>6. Timely(Now)
  BY <1>1, <1>2, <1>3, <1>4, <1>5, NowFields DEF Timely
<1>7. Within(Now, native.stored)
  <2>1. \A e \in Entries : native.stored[e] <= IF e[2] = "text" THEN seen[e] ELSE 1
    BY <1>3, <1>4
  <2>. QED
    BY <2>1, NowFields DEF Within, Limit
<1>8. native.tail # None => Spent(Now, native.tail.id)
  <2>1. Own(Now) = {}
    BY <1>2, NowFields DEF Own
  <2>2. native.tail # None => native.tail.id[1] <= turn
    BY <1>2, <1>4, NameParts
  <2>. QED
    BY <2>1, <2>2, NowFields DEF Spent
<1>9. \A e \in Entries : Now.seen[e] > 0 => native.stored[e] >= Now.seen[e]
  BY <1>3, <1>4, NowFields
<1>9a. OnDisk(native)
  <2>1. CASE native = EmptyStore
    <3>1. /\ native.tail = None /\ native.stored = NoVersions
          /\ native.sealed = [e \in Entries |-> None]
      BY <2>1 DEF EmptyStore
    <3>. QED
      BY <3>1, NothingYet, TextIsEntry DEF OnDisk
  <2>2. ASSUME NEW over \in BOOLEAN, native = PastStore(over) PROVE OnDisk(native)
    <3>1. /\ native.stored = [e \in Entries |-> IF e \in PastEntries(over) THEN 1 ELSE 0]
          /\ native.tail = [id |-> StartOf(1), ended |-> over, entries |-> PastEntries(over),
                            revision |-> 1]
          /\ native.sealed = [e \in Entries |-> None]
      BY <2>2 DEF PastStore, EmptyStore
    <3>2. native.tail.entries = PastEntries(over)
      BY <3>1
    <3>3. PastEntries(over) \subseteq Entries /\ Paired(PastEntries(over))
      <4>1. 1 \in Turns
        BY TranscriptBounds DEF Turns
      <4>2. <<1, "text">> \in Entries /\ <<1, "status">> \in Entries
        BY <4>1, EntryTypes
      <4>3. PastEntries(over) \subseteq Entries
        BY <4>2 DEF PastEntries
      <4>4. \A e \in PastEntries(over) : e[1] = 1
        BY DEF PastEntries
      <4>5. <<1, "text">> \in PastEntries(over)
        BY DEF PastEntries
      <4>. QED
        BY <4>3, <4>4, <4>5 DEF Paired, TextOf
    <3>4. \A e \in PastEntries(over) : native.stored[e] = 1
      BY <3>1, <3>3
    <3>5. \A e \in Entries : native.sealed[e] = None
      BY <3>1
    <3>. QED
      BY <3>2, <3>3, <3>4, <3>5, TextIsEntry DEF OnDisk
  <2>. QED
    BY <1>2, <2>1, <2>2
<1>10. Rests(Now, mem, queue, None, native)
  BY <1>1, <1>2, <1>6, <1>7, <1>8, <1>9, <1>9a, EmptyRests
<1>11. Waits(Now, mem, queue, None, native)
  BY WaitsForNothing
<1>. QED
  BY <1>1, <1>2, <1>10, <1>11 DEF IInv

-----------------------------------------------------------------------------

\* Every step keeps the invariant, if no recovery runs beside a request.
LEMMA NextKeeps ==
  ASSUME IInv, TypeOK', RecoversAlone, [Next]_vars
  PROVE  IInv'
<1>1. CASE Awake /\ Events
  BY <1>1, EventsKeep
<1>2. CASE Awake /\ Faults
  BY <1>2, RequestFailsKeeps, RecoveryFailsKeeps, LoadFailsKeeps DEF Faults
<1>3. CASE Awake /\ Progress
  BY <1>3, TimersKeep, AnsweredKeeps, TailLoadedKeeps, RecoversKeeps DEF Progress
<1>4. CASE \E carried \in BOOLEAN : Crash(carried)
  BY <1>4, CrashKeeps
<1>5. CASE UNCHANGED vars
  <2>1. Now' = Now
    BY <1>5 DEF vars, Now
  <2>. QED
    BY <1>5, <2>1 DEF vars, IInv
<1>. QED
  BY <1>1, <1>2, <1>3, <1>4, <1>5 DEF Next

\* The invariant says that nothing is dropped.
LEMMA NothingDropped ==
  ASSUME IInv
  PROVE  NothingIsDropped
<1>1. Kept(Now, mem, native)
  BY DEF IInv, Rests
<1>2. SavedIsStored
  BY <1>1 DEF Kept, SavedIsStored
<1>3. NothingIsForgotten
  <2>1. \A i \in DOMAIN mem.closed : mem.closed[i] \in ClosedTails
    BY DEF ClosedTails
  <2>. QED
    BY <1>1, <2>1, NowFields DEF Kept, NothingIsForgotten
<1>. QED
  BY <1>2, <1>3 DEF NothingIsDropped

\* Whatever is shown is in the live tail, among the turns that wait or on
\* disk, and an entry counts as written only in the version that is stored:
\* whatever fails, is answered late or is lost, and whenever the application
\* stops, as long as no recovery begins while a request is under way.
THEOREM DropsNothing == Spec /\ []RecoversAlone => []NothingIsDropped
<1>1. Init => IInv
  BY InitKeeps
<1>2. TypeOK /\ [Next]_vars => TypeOK'
  BY NextType
<1>3. IInv /\ TypeOK' /\ RecoversAlone /\ [Next]_vars => IInv'
  BY NextKeeps
<1>4. IInv => TypeOK /\ NothingIsDropped
  BY NothingDropped DEF IInv
<1>. QED
  BY <1>1, <1>2, <1>3, <1>4, PTL DEF Spec

-----------------------------------------------------------------------------
(* What a tail held is sealed when it goes. *)

\* A request takes the tail away only when all the tail holds is sealed then.
LEMMA MadeGivesWay ==
  ASSUME NEW w, NEW m, NEW q, NEW n \in Stores, NEW f \in Requests, Takes(n, f),
         Writes(w, m, q, f, n), OnDisk(n), NEW o, o = Made(n, f),
         n.tail # None, o.tail = None \/ o.tail.id # n.tail.id
  PROVE  \A e \in n.tail.entries : o.sealed[e] # None
<1> DEFINE x == f.tail
<1>1. /\ x \in Tails /\ x.id # None /\ n.tail.id # None /\ n.tail.entries \subseteq Entries
      /\ f.at \in {"checkpoint", "closing", "seal", "closed", "displaced", "reconcile"}
  BY MadeIs, Apart DEF Tails, Stores, StoredTails
<1>2. /\ f.at \in {"checkpoint", "closing"} =>
           /\ o.tail # None /\ o.tail.id = x.id
           /\ n.tail.id = x.id
      /\ f.at \in {"seal", "closed", "displaced"} =>
           /\ n.tail.id = x.id
           /\ \A e \in Entries : o.sealed[e] =
                IF o.stored[e] > 0 /\ n.sealed[e] = None
                     /\ \E s \in Present(x.version) : n.sealed[s] = None
                  THEN x.id ELSE n.sealed[e]
      /\ f.at = "reconcile" =>
           \A e \in Entries : o.sealed[e] =
             IF n.tail # None /\ n.stored[e] > 0 /\ n.sealed[e] = None
                  /\ \E s \in n.tail.entries : n.sealed[s] = None
               THEN n.tail.id ELSE n.sealed[e]
  <2>1. f.at \in {"checkpoint", "closing"} =>
          o.tail # None /\ o.tail.id = x.id /\ n.tail.id = x.id
    <3>1. f.at \in {"checkpoint", "closing"} => o.tail # None /\ o.tail.id = f.tail.id
      BY MadeSealed
    <3>2. f.at \in {"checkpoint", "closing"} =>
            TakesCheckpoint(n, f.tail, f.pending, f.removed)
      BY MadeIs
    <3>3. TakesCheckpoint(n, f.tail, f.pending, f.removed) => n.tail.id = f.tail.id
      BY DEF TakesCheckpoint
    <3>. QED
      BY <3>1, <3>2, <3>3
  <2>2. f.at \in {"seal", "closed", "displaced"} =>
          \A e \in Entries : o.sealed[e] =
            IF o.stored[e] > 0 /\ n.sealed[e] = None
                 /\ \E s \in Present(x.version) : n.sealed[s] = None
              THEN x.id ELSE n.sealed[e]
    BY MadeSealed
  <2>3. f.at \in {"seal", "closed", "displaced"} => n.tail.id = x.id
    <3>1. f.at \in {"checkpoint", "closing"} => f.pending \subseteq Present(f.tail.version)
      BY DEF Writes
    <3>2. f.at \in {"seal", "closed", "displaced"} =>
            o.tail = IF n.tail # None /\ n.tail.id = f.tail.id THEN None ELSE n.tail
      BY <3>1, MadeStored
    <3>. QED
      BY <3>2
  <2>4. f.at = "reconcile" =>
          \A e \in Entries : o.sealed[e] =
            IF n.tail # None /\ n.stored[e] > 0 /\ n.sealed[e] = None
                 /\ \E s \in n.tail.entries : n.sealed[s] = None
              THEN n.tail.id ELSE n.sealed[e]
    BY MadeSealed
  <2> HIDE DEF x
  <2>. QED
    BY <2>1, <2>2, <2>3, <2>4
<1>3. Holds(n, f, o)
  BY MadeHolds
<1> SUFFICES ASSUME NEW e \in n.tail.entries PROVE o.sealed[e] # None
  OBVIOUS
<1>4. /\ e \in Entries /\ TextOf(e) \in Entries /\ TextOf(e) \in n.tail.entries
      /\ n.stored[e] > 0 /\ o.stored[e] > 0 /\ TextOf(e)[2] = "text"
      /\ n.sealed[TextOf(e)] # None => n.sealed[e] # None
  BY <1>1, <1>3, TextIsEntry DEF OnDisk, Paired, Holds
<1>5. CASE f.at = "reconcile"
  BY <1>1, <1>2, <1>4, <1>5
<1>6. CASE f.at \in {"seal", "closed", "displaced"}
  <2>1. x.version[TextOf(e)] > 0
    <3>1. CASE f.at \in {"seal", "closed"}
      <4>1. Bears(n, x)
        BY <3>1 DEF Writes, Sent, Leads
      <4>. QED
        BY <1>2, <1>4, <1>6, <4>1 DEF Bears, Carries
    <3>2. CASE f.at = "displaced"
      <4>1. Loaded(n) = x
        BY <3>2 DEF Writes, Fresh
      <4>2. x.version = [d \in Entries |-> IF d \in n.tail.entries THEN n.stored[d] ELSE 0]
        BY <4>1, LoadedFields
      <4>3. n.stored[TextOf(e)] > 0
        BY <1>4 DEF OnDisk
      <4> HIDE DEF x
      <4>. QED
        BY <1>4, <4>2, <4>3
    <3>. QED
      BY <1>6, <3>1, <3>2
  <2>2. TextOf(e) \in Present(x.version)
    BY <1>4, <2>1 DEF Present
  <2> HIDE DEF x
  <2>. QED
    BY <1>1, <1>2, <1>4, <1>6, <2>2
<1>7. CASE f.at \in {"checkpoint", "closing"}
  BY <1>2, <1>7
<1>. QED
  BY <1>1, <1>5, <1>6, <1>7

\* The store changes by the pump's request or by that of the recovery, which
\* it takes, or not at all.
LEMMA StoreSteps ==
  ASSUME TypeOK, [Next]_vars
  PROVE  \/ native' = native
         \/ /\ flight \in Requests /\ Takes(native, flight)
            /\ native' = Made(native, flight)
         \/ /\ recovery # None /\ recovery.at # "load" /\ Takes(native, RecoveryFlight)
            /\ native' = Made(native, RecoveryFlight)
<1>1. flight \in Requests \union {Spin, None}
  BY Typed
<1>2. CASE Awake /\ Events
  BY <1>2 DEF Events, TurnBegins, Streams, LateDelta, Adds, Stops, TurnSettles, TurnEnds,
              OpenHistory, Handled
<1>3. CASE Awake /\ Faults
  <2>1. ASSUME NEW lost \in BOOLEAN, RequestFails(lost)
        PROVE  native' = native \/ (flight \in Requests /\ Takes(native, flight)
                                       /\ native' = Made(native, flight))
    BY <1>1, <1>3, <2>1 DEF RequestFails, Awake
  <2>2. ASSUME NEW lost \in BOOLEAN, RecoveryFails(lost)
        PROVE  /\ recovery # None /\ recovery.at # "load"
               /\ native' = native \/ (Takes(native, RecoveryFlight)
                                          /\ native' = Made(native, RecoveryFlight))
    BY <2>2 DEF RecoveryFails
  <2>3. LoadFails => native' = native
    BY DEF LoadFails
  <2>. QED
    BY <1>3, <2>1, <2>2, <2>3 DEF Faults
<1>4. CASE Awake /\ Progress
  <2>1. CheckpointTimer \/ RetryTimer => native' = native
    BY DEF CheckpointTimer, RetryTimer, Timers
  <2>2. ASSUME Answered
        PROVE  native' = native \/ (flight \in Requests /\ Takes(native, flight)
                                       /\ native' = Made(native, flight))
    BY <1>1, <1>4, <2>2 DEF Answered, Awake
  <2>3. TailLoaded => native' = native
    BY DEF TailLoaded
  <2>4. ASSUME Recovers
        PROVE  /\ recovery # None /\ recovery.at # "load"
               /\ native' = native \/ (Takes(native, RecoveryFlight)
                                          /\ native' = Made(native, RecoveryFlight))
    BY <2>4 DEF Recovers
  <2>. QED
    BY <1>4, <2>1, <2>2, <2>3, <2>4 DEF Progress
<1>5. ASSUME NEW carried \in BOOLEAN, Crash(carried)
      PROVE  native' = native \/ (flight \in Requests /\ Takes(native, flight)
                                     /\ native' = Made(native, flight))
  BY <1>1, <1>5 DEF Crash
<1>6. UNCHANGED vars => native' = native
  BY DEF vars
<1>. QED
  BY <1>2, <1>3, <1>4, <1>5, <1>6 DEF Next

\* That request may be made of the store.
LEMMA StoreChanges ==
  ASSUME IInv, [Next]_vars
  PROVE  \/ native' = native
         \/ \E f \in Requests :
              /\ Takes(native, f) /\ native' = Made(native, f)
              /\ Writes(Now, mem, queue, f, native)
<1>1. /\ TypeOK /\ Rests(Now, mem, queue, recovery, native)
      /\ Waits(Now, mem, queue, flight, native)
      /\ Shaped(mem) /\ native \in Stores
  BY Typed DEF IInv
<1>2. flight \in Requests => Writes(Now, mem, queue, flight, native)
  BY <1>1, WaitsWrites
<1>3. recovery # None /\ recovery.at # "load" =>
        RecoveryFlight \in Requests /\ Writes(Now, mem, queue, RecoveryFlight, native)
  BY <1>1, RecoveryWrites, RecoveryFlightType
<1>. QED
  BY <1>1, <1>2, <1>3, StoreSteps

\* In a step the tail on disk gives way only when all it held is sealed.
LEMMA StepGivesWay ==
  ASSUME IInv, [Next]_vars
  PROVE  GivesWaySealed
<1> SUFFICES ASSUME native.tail # None,
                    native'.tail = None \/ native'.tail.id # native.tail.id
             PROVE  \A e \in native.tail.entries : native'.sealed[e] # None
  BY DEF GivesWaySealed
<1>1. native \in Stores /\ OnDisk(native)
  BY DEF IInv, TypeOK, Rests
<1>2. PICK f \in Requests :
        /\ Takes(native, f) /\ native' = Made(native, f)
        /\ Writes(Now, mem, queue, f, native)
  BY StoreChanges
<1>. QED
  BY <1>1, <1>2, MadeGivesWay

-----------------------------------------------------------------------------
(* Nothing of the turn that runs is sealed: the inductive invariant.       *)
(*                                                                         *)
(* A turn that runs is sealed by a request for another name, when its text *)
(* is in that request or is stored with what the request seals.  So the    *)
(* parts below say where the text of the turn may be: on disk, in what was *)
(* loaded, in the request under way; and which seals may be wanted.  Some  *)
(* of these would be wanted for the turn that runs, but are refused, as an *)
(* entry of the tail is sealed under another name already.                 *)

\* What this process did: whether it recovered, and whether it heard of the
\* session.
Here == [recovered |-> recovered, live |-> live]

Runs(w) == w.phase = "running"
RunningText(w) == <<w.turn, "text">>

\* The turn of the live tail is over.
Over(w, m) == m.ended \/ w.phase \in {"stopped", "settled"}

\* A text among the versions v is sealed,
SomeSealed(v, n) == \E e \in Present(v) : e[2] = "text" /\ n.sealed[e] # None

\* and by another turn than that of the name.
Foreign(v, id, n) ==
  \E e \in Present(v) : e[2] = "text" /\ n.sealed[e] # None /\ n.sealed[e] # id

\* What is sealed is so by a name that was given, a text that is stored and
\* not sealed is in the tail on disk, and a status is not stored alone.
Closes(w, n) ==
  /\ \A e \in Entries : n.sealed[e] # None => Spent(w, n.sealed[e])
  /\ \A e \in Entries : e[2] = "text" /\ n.stored[e] > 0 /\ n.sealed[e] = None =>
       n.tail # None /\ e \in n.tail.entries
  /\ Paired(Present(n.stored))

\* A seal is wanted of a name that was given, and of the live tail only when
\* its turn is over.
Wanted(w, m, q) ==
  q.sealing /\ q.sealId # None =>
    /\ Spent(w, q.sealId) /\ m.id # None
    /\ q.sealId = m.id => Over(w, m)

\* A tail that began a turn holds some of it, and one with no name nothing;
\* what is held where no turn began, or where the disk has an empty tail of
\* that name, is partly sealed.
Named(m, n) ==
  /\ m.started => Held(m) # {}
  /\ m.id = None => Held(m) = {}
  /\ ~m.started /\ Held(m) # {} => SomeSealed(m.version, n)
  /\ n.tail # None /\ n.tail.id = m.id /\ n.tail.entries = {} /\ Held(m) # {} =>
       SomeSealed(m.version, n)

\* The tail on disk is marked as ended only when its turn is over.
EndsOver(w, m, n) == n.tail # None /\ n.tail.ended /\ n.tail.id = m.id => Over(w, m)

\* The turn that runs: its text is in the live tail and is not sealed; no turn
\* that waits has it, and while one does, the text is not on disk; before the
\* recovery the tail on disk has it only under the name of the live one.
Running(w, m, n, c) ==
  Runs(w) =>
    /\ RunningText(w) \in Held(m) /\ ~m.ended
    /\ n.sealed[RunningText(w)] = None
    /\ \A i \in DOMAIN m.closed : m.closed[i].version[RunningText(w)] = 0
    /\ m.closed # << >> => n.stored[RunningText(w)] = 0
    /\ ~c.recovered =>
         /\ m.started
         /\ n.tail # None /\ RunningText(w) \in n.tail.entries => n.tail.id = m.id

\* A loaded tail: it has no text of the turn that runs, and no other seal is
\* wanted while it bears the name of the live tail.
Before(w, m, q, x) ==
  /\ Runs(w) => x.version[RunningText(w)] = 0
  /\ x.id = m.id /\ q.sealing => q.sealId = x.id

\* The loaded tails, and a recovery: one that does not seal comes first, one
\* that does starts before any event.
Loads(w, m, q, r, n, c) ==
  /\ q.interrupted # None => Before(w, m, q, q.interrupted)
  /\ q.terminal # None => Before(w, m, q, q.terminal)
  /\ r # None =>
       /\ r.at # "load" => Before(w, m, q, r.tail)
       /\ ~r.seal => ~c.recovered
       /\ r.seal /\ Runs(w) => n.stored[RunningText(w)] = 0
       /\ r.seal /\ r.at = "load" /\ n.tail # None /\ n.tail.id = m.id
            /\ n.tail.entries = {} => ~m.started \/ m.ended

\* Before any event no turn runs and nothing is taken out.
Quiet(w, m, n, c) ==
  ~c.live =>
    /\ w.phase = "idle" /\ m.removed = {}
    /\ n.tail # None /\ n.tail.id = m.id /\ n.tail.entries = {} => ~m.started \/ m.ended

\* All of it but the request under way,
Opens(w, m, q, r, n, c) ==
  /\ Closes(w, n) /\ Wanted(w, m, q) /\ Named(m, n) /\ EndsOver(w, m, n)
  /\ Running(w, m, n, c) /\ Loads(w, m, q, r, n, c) /\ Quiet(w, m, n, c)

\* of which this holds: a checkpoint writes some entry, marks its turn as ended
\* only when it is over, and is followed by a seal of another turn's tail only
\* when that will be refused;
Written(w, m, q, f, n, c) ==
  /\ Present(f.tail.version) # {}
  /\ f.tail.ended /\ f.tail.id = m.id => Over(w, m)
  /\ q.sealing /\ q.sealId = f.tail.id /\ f.tail.id # m.id /\ m.closed = << >> =>
       Foreign(m.version, m.id, n)
  /\ Runs(w) /\ ~c.recovered /\ RunningText(w) \in Present(f.tail.version) =>
       f.tail.id = m.id
  /\ ~c.live => f.removed = {}

\* and the text of the turn that runs is written only from the live tail, is
\* sealed only where the seal will be refused, and is on disk only if it is in
\* the request.
Asked(w, m, q, f, n, c) ==
  f \in Requests =>
    /\ f.at = "checkpoint" => Written(w, m, q, f, n, c)
    /\ Runs(w) /\ f.at \in {"checkpoint", "seal"}
         /\ RunningText(w) \in Present(f.tail.version) => m.closed = << >>
    /\ Runs(w) /\ f.at = "seal" /\ RunningText(w) \in Present(f.tail.version) =>
         Foreign(f.tail.version, f.tail.id, n)
    /\ Runs(w) /\ f.at \in {"checkpoint", "closing", "seal", "closed"}
         /\ f.tail.version[RunningText(w)] = 0 => n.stored[RunningText(w)] = 0

\* The inductive invariant.
OpenInv ==
  /\ Opens(Now, mem, queue, recovery, native, Here)
  /\ Asked(Now, mem, queue, flight, native, Here)

-----------------------------------------------------------------------------

\* The turn that runs has a text.
LEMMA RunningTextIs ==
  ASSUME NEW w, Timely(w), Runs(w)
  PROVE  /\ w.turn \in Turns /\ RunningText(w) \in Entries
         /\ RunningText(w)[2] = "text" /\ RunningText(w)[1] = w.turn
         /\ TextOf(RunningText(w)) = RunningText(w)
<1>1. w.turn \in Turns
  BY TranscriptBounds DEF Timely, Runs, Turns
<1>2. <<w.turn, "text">> \in Entries
  BY <1>1, EntryTypes
<1>. QED
  BY <1>1, <1>2 DEF RunningText, TextOf

\* The pump may give a wanted seal up, and no more.
LEMMA EasedAsked ==
  ASSUME NEW q, NEW p, Eased(q, p), NEW w, NEW m, NEW f, NEW n, NEW c,
         Asked(w, m, q, f, n, c)
  PROVE  Asked(w, m, p, f, n, c)
<1>1. Written(w, m, q, f, n, c) => Written(w, m, p, f, n, c)
  BY DEF Eased, Written
<1>. QED
  BY <1>1 DEF Asked

\* What is left of the record does no harm: a tail that went first may be gone,
\* and the seal that was wanted.
Lessened(q, p) ==
  /\ p.interrupted \in {None, q.interrupted} /\ p.terminal \in {None, q.terminal}
  /\ p.sealing => q.sealing
  /\ p.sealId = q.sealId \/ (p.sealId = None /\ ~p.sealing)

\* The invariant holds with such a record.
LEMMA LessenedOpens ==
  ASSUME NEW q, NEW p, Lessened(q, p), NEW w, NEW m, NEW r, NEW n, NEW c,
         Opens(w, m, q, r, n, c)
  PROVE  Opens(w, m, p, r, n, c)
<1>1. Wanted(w, m, p)
  BY DEF Opens, Wanted, Lessened
<1>2. \A x : Before(w, m, q, x) => Before(w, m, p, x)
  BY DEF Before, Lessened
<1>3. Loads(w, m, p, r, n, c)
  BY <1>2 DEF Opens, Loads, Lessened
<1>. QED
  BY <1>1, <1>3 DEF Opens

\* The request by which a pass begins is of what is there.
LEMMA BeginsAsked ==
  ASSUME NEW w, NEW m, Shaped(m), NEW q, NEW n, NEW c,
         Whole(m, n), Running(w, m, n, c), Quiet(w, m, n, c),
         m.id # None => Wanted(w, m, q),
         NEW g, Begins(m, q, g)
  PROVE  Asked(w, m, q, g, n, c)
<1> SUFFICES ASSUME g \in Requests PROVE Asked(w, m, q, g, n, c)
  BY DEF Asked
<1>1. g \notin {None, Spin}
  BY Apart, SpinIsApart
<1>2. CASE g.at \in {"reconcile", "displaced"}
  BY <1>2 DEF Asked
<1>3. CASE g.at = "closing" /\ m.closed # << >> /\ g.tail = Head(m.closed)
  <2>1. Runs(w) => n.stored[RunningText(w)] = 0
    BY <1>3 DEF Running
  <2>. QED
    BY <1>3, <2>1 DEF Asked
<1>4. CASE /\ g.at = "checkpoint" /\ m.closed = << >> /\ m.id # None
           /\ g.tail.id = m.id /\ g.tail.version = m.version
           /\ Held(m) # {} \/ m.removed # {}
           /\ g.removed = m.removed
           /\ g.tail.ended => m.ended \/ (q.sealing /\ q.sealId = m.id)
  <2>1. Present(g.tail.version) # {}
    BY <1>4 DEF Whole, Held
  <2>2. g.tail.ended => Over(w, m)
    BY <1>4 DEF Over, Wanted
  <2>3. ~c.live => g.removed = {}
    BY <1>4 DEF Quiet
  <2>4. Written(w, m, q, g, n, c)
    BY <1>4, <2>1, <2>2, <2>3 DEF Written
  <2>5. Runs(w) => g.tail.version[RunningText(w)] # 0
    BY <1>4 DEF Running, Held, Present
  <2>. QED
    BY <1>4, <2>4, <2>5 DEF Asked
<1>5. CASE g.at = "seal" /\ m.id # None /\ q.sealing /\ q.sealId = m.id
  <2>1. Over(w, m)
    BY <1>5 DEF Wanted
  <2>2. ~Runs(w)
    BY <2>1 DEF Over, Runs, Running
  <2>. QED
    BY <1>5, <2>2 DEF Asked
<1>. QED
  BY <1>1, <1>2, <1>3, <1>4, <1>5 DEF Begins

\* What goes on in the pump without a request being answered.
LEMMA PumpOpens ==
  ASSUME NEW w, NEW m, Shaped(m), NEW q, NEW p, Eased(q, p), NEW r, NEW n, NEW c,
         Whole(m, n), Opens(w, m, q, r, n, c), NEW f, NEW g, Asked(w, m, q, f, n, c),
         g = f \/ Begins(m, q, g)
  PROVE  Opens(w, m, p, r, n, c) /\ Asked(w, m, p, g, n, c)
<1>1. Begins(m, q, g) => Asked(w, m, q, g, n, c)
  BY BeginsAsked DEF Opens
<1>2. Lessened(q, p)
  BY DEF Eased, Lessened
<1>. QED
  BY <1>1, <1>2, LessenedOpens, EasedAsked

-----------------------------------------------------------------------------
(* What a request makes of the store. *)

\* The request f may be made of the store n, and is of what is there.
Ready(w, m, q, f, n, c) ==
  /\ Takes(n, f) /\ Writes(w, m, q, f, n) /\ Asked(w, m, q, f, n, c)
  /\ f.at \in {"closing", "closed"} => m.closed # << >> /\ f.tail = m.closed[1]
  /\ f.at \in {"displaced", "reconcile"} => Before(w, m, q, f.tail)

\* A seal that is not refused is not of the turn that runs, and nothing of
\* this turn is on disk then.
LEMMA SealsAnother ==
  ASSUME NEW w, Timely(w), Runs(w), NEW m, Shaped(m), NEW q, NEW n \in Stores, NEW c,
         Running(w, m, n, c), Closes(w, n), NEW f \in Requests, Ready(w, m, q, f, n, c),
         f.at \in {"seal", "closed", "displaced", "reconcile"}
  PROVE  f.tail.version[RunningText(w)] = 0 /\ n.stored[RunningText(w)] = 0
<1> DEFINE t == RunningText(w)
<1>1. /\ t \in Entries /\ t[2] = "text" /\ n.sealed[t] = None
      /\ \A i \in DOMAIN m.closed : m.closed[i].version[t] = 0
      /\ m.closed # << >> => n.stored[t] = 0
  BY RunningTextIs DEF Running
<1>2. /\ f.tail \in Tails /\ f.tail.version \in Versions /\ n.stored \in Versions
      /\ f.tail.version[t] \in Nat /\ n.stored[t] \in Nat
  BY <1>1, MadeIs, VersionNat
<1> HIDE DEF t
<1>3. CASE f.at = "seal"
  <2>1. SealedBefore(n, f.tail.id, Present(f.tail.version))
    BY <1>3, MadeIs DEF Ready, TakesSeal
  <2>2. ~Foreign(f.tail.version, f.tail.id, n)
    BY <2>1 DEF Foreign, SealedBefore
  <2>3. t \notin Present(f.tail.version)
    BY <1>3, <2>2 DEF Ready, Asked, t
  <2>4. f.tail.version[t] = 0
    BY <1>1, <1>2, <2>3 DEF Present
  <2>. QED
    BY <1>3, <2>4 DEF Ready, Asked, t
<1>4. CASE f.at = "closed"
  BY <1>1, <1>4, ClosedTypes DEF Ready, t
<1>5. CASE f.at \in {"displaced", "reconcile"}
  <2>1. f.tail.version[t] = 0 /\ Fresh(n, f.tail)
    BY <1>5 DEF Ready, Before, Writes, t
  <2>2. SUFFICES ASSUME n.stored[t] # 0 PROVE FALSE
    BY <2>1 DEF t
  <2>3. n.tail # None /\ t \in n.tail.entries
    BY <1>1, <1>2, <2>2 DEF Closes
  <2>4. Loaded(n) = f.tail
    BY <2>1, <2>3 DEF Fresh
  <2>. QED
    BY <1>1, <2>1, <2>2, <2>3, <2>4, LoadedFields
<1>. QED
  BY <1>3, <1>4, <1>5

\* So nothing of the turn that runs is sealed.
LEMMA LeavesOpen ==
  ASSUME NEW w, Timely(w), Runs(w), NEW m, Shaped(m), NEW q, NEW n \in Stores, NEW c,
         Running(w, m, n, c), Closes(w, n), NEW f \in Requests, Ready(w, m, q, f, n, c),
         NEW o, o = Made(n, f)
  PROVE  \A e \in Entries : e[1] = w.turn => o.sealed[e] = n.sealed[e]
<1>1. CASE f.at \in {"checkpoint", "closing"}
  BY <1>1, MadeSealed
<1>2. CASE f.at \in {"seal", "closed", "displaced", "reconcile"}
  <2> DEFINE t == RunningText(w)
  <2>1. f.tail.version[t] = 0 /\ n.stored[t] = 0
    BY <1>2, SealsAnother
  <2>2. t \in Entries /\ \A e \in Entries : e[1] = w.turn => TextOf(e) = t
    BY RunningTextIs DEF TextOf, RunningText
  <2>3. /\ f.tail.version \in Versions /\ n.stored \in Versions
        /\ \A e \in Entries : f.tail.version[e] \in Nat /\ n.stored[e] \in Nat
    BY MadeIs, VersionNat
  <2>4. \A e \in Entries : e[1] = w.turn => n.stored[e] = 0
    BY <2>1, <2>2, <2>3 DEF Closes, Paired, Present
  <2>5. f.at \in {"seal", "closed"} => Paired(Present(f.tail.version))
    BY DEF Ready, Writes, Sent, Leads
  <2>6. \A e \in Entries : e[1] = w.turn =>
          (f.at \in {"seal", "closed"} => f.tail.version[e] = 0)
    BY <2>1, <2>2, <2>3, <2>5 DEF Paired, Present
  <2> HIDE DEF t
  <2>7. f.at = "reconcile" =>
          \A e \in Entries : e[1] = w.turn => o.sealed[e] = n.sealed[e]
    <3>1. f.at = "reconcile" =>
            \A e \in Entries : o.sealed[e] =
              IF n.tail # None /\ n.stored[e] > 0 /\ n.sealed[e] = None
                   /\ \E s \in n.tail.entries : n.sealed[s] = None
                THEN n.tail.id ELSE n.sealed[e]
      BY MadeSealed
    <3>. QED
      BY <2>4, <3>1
  <2>8. Holds(n, f, o)
    BY MadeHolds DEF Ready
  <2>9. o \in Stores /\ o.stored \in Versions /\ \A e \in Entries : o.stored[e] \in Nat
    BY MadeType, VersionNat
  <2>10. \A e \in Entries : e[1] = w.turn => ~(o.stored[e] > 0)
    <3> SUFFICES ASSUME NEW e \in Entries, e[1] = w.turn PROVE ~(o.stored[e] > 0)
      OBVIOUS
    <3>1. n.stored[e] = 0
      BY <2>4
    <3>2. f.at \notin {"displaced", "reconcile"} => e \notin Present(f.tail.version)
      BY <1>2, <2>6 DEF Present
    <3>. QED
      BY <2>8, <3>1, <3>2 DEF Holds
  <2>11. f.at \in {"seal", "closed", "displaced"} =>
          \A e \in Entries : e[1] = w.turn => o.sealed[e] = n.sealed[e]
    <3>1. f.at \in {"seal", "closed", "displaced"} =>
            \A e \in Entries : o.sealed[e] =
              IF o.stored[e] > 0 /\ n.sealed[e] = None
                   /\ \E s \in Present(f.tail.version) : n.sealed[s] = None
                THEN f.tail.id ELSE n.sealed[e]
      BY MadeSealed
    <3>. QED
      BY <2>10, <3>1
  <2>. QED
    BY <1>2, <2>7, <2>11
<1>. QED
  BY <1>1, <1>2, MadeIs

\* What is sealed stays so, and what is sealed now is so by a name that was
\* given.
LEMMA SealedOnce ==
  ASSUME NEW w, NEW m, NEW q, NEW n \in Stores, NEW f \in Requests,
         Writes(w, m, q, f, n), Closes(w, n), n.tail # None => Spent(w, n.tail.id),
         NEW o, o = Made(n, f)
  PROVE  /\ \A e \in Entries : n.sealed[e] # None => o.sealed[e] = n.sealed[e]
         /\ \A e \in Entries : o.sealed[e] # None => Spent(w, o.sealed[e])
<1>1. Spent(w, f.tail.id)
  BY DEF Writes, Known
<1>2. f.at \in {"checkpoint", "closing"} => o.sealed = n.sealed
  BY MadeSealed
<1>3. f.at \in {"seal", "closed", "displaced"} =>
        \A e \in Entries : o.sealed[e] =
          IF o.stored[e] > 0 /\ n.sealed[e] = None
               /\ \E s \in Present(f.tail.version) : n.sealed[s] = None
            THEN f.tail.id ELSE n.sealed[e]
  BY MadeSealed
<1>4. f.at = "reconcile" =>
        \A e \in Entries : o.sealed[e] =
          IF n.tail # None /\ n.stored[e] > 0 /\ n.sealed[e] = None
               /\ \E s \in n.tail.entries : n.sealed[s] = None
            THEN n.tail.id ELSE n.sealed[e]
  BY MadeSealed
<1>5. f.at \in {"checkpoint", "closing", "seal", "closed", "displaced", "reconcile"}
  BY MadeIs
<1>6. \A e \in Entries : o.sealed[e] = n.sealed[e] \/
        (n.sealed[e] = None /\
          (o.sealed[e] = f.tail.id \/ (n.tail # None /\ o.sealed[e] = n.tail.id)))
  BY <1>2, <1>3, <1>4, <1>5
<1>7. \A e \in Entries : n.sealed[e] # None => Spent(w, n.sealed[e])
  BY DEF Closes
<1>. QED
  BY <1>1, <1>6, <1>7

\* The tail on disk after a request: the one before it, or what a checkpoint
\* makes of it.
LEMMA MadeTail ==
  ASSUME NEW n \in Stores, NEW f \in Requests, NEW o, o = Made(n, f)
  PROVE  /\ f.at \in {"checkpoint", "closing"} =>
              /\ o.tail # None /\ o.tail.id = f.tail.id /\ o.tail.ended = f.tail.ended
              /\ o.tail.entries
                   = ((IF n.tail = None THEN {} ELSE n.tail.entries) \ f.removed) \union f.pending
         /\ f.at \notin {"checkpoint", "closing"} => o.tail \in {None, n.tail}
<1>1. CASE f.at \in {"checkpoint", "closing"}
  <2>1. o = Checkpointed(n, f.tail, f.pending, f.removed)
    BY <1>1, MadeIs
  <2>2. f.tail \in Tails /\ f.pending \subseteq Entries
    BY MadeIs
  <2>3. LET c == Checkpointed(n, f.tail, f.pending, f.removed)
            had == IF n.tail = None THEN {} ELSE n.tail.entries
        IN  /\ c.tail \in StoredTails /\ c.tail.id = f.tail.id /\ c.tail.ended = f.tail.ended
            /\ c.tail.entries = (had \ f.removed) \union f.pending
    BY <2>2, CheckpointedFields
  <2>. QED
    BY <1>1, <2>1, <2>3, Apart
<1>2. CASE f.at \in {"seal", "closed", "displaced"}
  <2>1. o = Sealed(n, f.tail) /\ f.tail \in Tails
    BY <1>2, MadeIs
  <2>2. LET c == Sealed(n, f.tail)
        IN  c.tail = IF n.tail # None /\ n.tail.id = f.tail.id THEN None ELSE n.tail
    BY <2>1, SealedFields
  <2>. QED
    BY <1>2, <2>1, <2>2
<1>3. CASE f.at = "reconcile"
  <2>1. o = Reconciled(n)
    BY <1>3, MadeIs
  <2>. QED
    BY <1>3, <2>1, ReconciledFields
<1>. QED
  BY <1>1, <1>2, <1>3, MadeIs

\* What is stored and not sealed is in the tail on disk.
LEMMA ClosesMade ==
  ASSUME NEW w, NEW m, NEW q, NEW r, NEW n \in Stores, NEW f \in Requests,
         Rests(w, m, q, r, n), Closes(w, n), Takes(n, f), Writes(w, m, q, f, n),
         NEW o, o = Made(n, f)
  PROVE  Closes(w, o)
<1> DEFINE x == f.tail
<1>1. /\ OnDisk(n)
      /\ n.tail # None => Spent(w, n.tail.id)
  BY DEF Rests, Based
<1>2. /\ \A e \in Entries : n.sealed[e] # None => o.sealed[e] = n.sealed[e]
      /\ \A e \in Entries : o.sealed[e] # None => Spent(w, o.sealed[e])
  BY <1>1, SealedOnce DEF x
<1>3. Holds(n, f, o)
  BY MadeHolds
<1>4. /\ o \in Stores /\ \A e \in Entries : o.stored[e] \in Nat /\ n.stored[e] \in Nat
      /\ x.version \in Versions /\ \A e \in Entries : x.version[e] \in Nat
  BY MadeType, MadeIs, VersionNat
<1>5. f.at \notin {"displaced", "reconcile"} => Paired(Present(x.version))
  BY MadeIs DEF Writes, Sent, Leads
<1> HIDE DEF x
<1>6. Paired(Present(o.stored))
  <2> SUFFICES ASSUME NEW e \in Present(o.stored) PROVE TextOf(e) \in Present(o.stored)
    BY DEF Paired
  <2>1. e \in Entries /\ o.stored[e] > 0 /\ TextOf(e) \in Entries
    BY TextIsEntry DEF Present
  <2>2. CASE n.stored[e] > 0
    <3>1. TextOf(e) \in Present(n.stored)
      BY <2>1, <2>2 DEF Closes, Paired, Present
    <3>. QED
      BY <1>3, <2>1, <3>1 DEF Holds, Present
  <2>3. CASE e \in Present(x.version) /\ f.at \notin {"displaced", "reconcile"}
    <3>1. TextOf(e) \in Present(x.version)
      BY <1>5, <2>3 DEF Paired
    <3>. QED
      BY <1>3, <2>1, <3>1 DEF Holds, Present, x
  <2>. QED
    BY <1>3, <2>1, <2>2, <2>3 DEF Holds, x
<1>7. ASSUME NEW e \in Entries, e[2] = "text", o.stored[e] > 0, o.sealed[e] = None
      PROVE  o.tail # None /\ e \in o.tail.entries
  <2>1. n.sealed[e] = None
    BY <1>2, <1>7
  <2>2. n.stored[e] > 0 => n.tail # None /\ e \in n.tail.entries
    BY <1>7, <2>1 DEF Closes
  <2>3. CASE f.at \in {"checkpoint", "closing"}
    <3>1. /\ o.tail # None
          /\ o.tail.entries
               = ((IF n.tail = None THEN {} ELSE n.tail.entries) \ f.removed) \union f.pending
      BY <2>3, MadeTail
    <3>2. e \in f.pending \/ n.stored[e] > 0
      <4>1. o = Checkpointed(n, f.tail, f.pending, f.removed)
        BY <2>3, MadeIs
      <4>2. o.stored[e] = IF e \in f.pending THEN f.tail.version[e] ELSE n.stored[e]
        BY <4>1, MadeIs, CheckpointedFields
      <4>. QED
        BY <1>7, <4>2
    <3>3. e \notin f.removed
      BY <1>7, <2>3 DEF Writes, Sent, Writ
    <3>. QED
      BY <2>2, <3>1, <3>2, <3>3
  <2>4. CASE f.at \notin {"checkpoint", "closing"}
    <3>1. n.stored[e] > 0
      <4>1. SUFFICES ASSUME ~(n.stored[e] > 0) PROVE FALSE
        OBVIOUS
      <4>2. e \in Present(x.version) /\ f.at \in {"seal", "closed"}
        BY <1>3, <1>7, <2>4, <4>1, MadeIs DEF Holds, x
      <4>3. o.sealed[e] =
              IF o.stored[e] > 0 /\ n.sealed[e] = None
                   /\ \E s \in Present(f.tail.version) : n.sealed[s] = None
                THEN f.tail.id ELSE n.sealed[e]
        BY <4>2, MadeSealed
      <4>4. f.tail.id # None
        BY MadeIs, Apart DEF Tails
      <4>. QED
        BY <1>7, <2>1, <4>2, <4>3, <4>4 DEF x
    <3>2. n.tail # None /\ e \in n.tail.entries
      BY <2>2, <3>1
    <3>3. ~(o.tail = None \/ o.tail.id # n.tail.id)
      <4>1. o.tail = None \/ o.tail.id # n.tail.id =>
              \A d \in n.tail.entries : o.sealed[d] # None
        BY <1>1, <3>2, MadeGivesWay
      <4>. QED
        BY <1>7, <3>2, <4>1
    <3>4. o.tail = n.tail
      BY <2>4, <3>3, MadeTail
    <3>. QED
      BY <3>2, <3>3, <3>4
  <2>. QED
    BY <2>3, <2>4
<1>. QED
  BY <1>2, <1>6, <1>7 DEF Closes

\* What is partly sealed remains so.
LEMMA SealedKept ==
  ASSUME NEW n, NEW o, \A e \in Entries : n.sealed[e] # None => o.sealed[e] = n.sealed[e]
  PROVE  /\ \A v : SomeSealed(v, n) => SomeSealed(v, o)
         /\ \A v, id : Foreign(v, id, n) => Foreign(v, id, o)
BY DEF SomeSealed, Foreign, Present

\* A tail that is empty on disk after a checkpoint of what the live one holds
\* was stored before, and sealed.
LEMMA NamedMade ==
  ASSUME NEW w, NEW m, Shaped(m), NEW q, NEW r, NEW n \in Stores, NEW c, NEW f \in Requests,
         Rests(w, m, q, r, n), Opens(w, m, q, r, n, c), Ready(w, m, q, f, n, c),
         NEW o, o = Made(n, f)
  PROVE  Named(m, o)
<1> DEFINE x == f.tail
<1>1. /\ Named(m, n) /\ Closes(w, n) /\ Writes(w, m, q, f, n)
      /\ Known(w, m, x)
      /\ n.tail # None => Spent(w, n.tail.id)
  BY DEF Opens, Ready, Rests, Based, Writes
<1>2. \A e \in Entries : n.sealed[e] # None => o.sealed[e] = n.sealed[e]
  BY <1>1, SealedOnce
<1>3. \A v : SomeSealed(v, n) => SomeSealed(v, o)
  BY <1>2, SealedKept
<1> HIDE DEF x
<1>4. ASSUME o.tail # None, o.tail.id = m.id, o.tail.entries = {}, Held(m) # {}
      PROVE  SomeSealed(m.version, o)
  <2>1. CASE o.tail = n.tail
    BY <1>1, <1>3, <1>4, <2>1 DEF Named
  <2>2. CASE f.at = "closing"
    <3>1. m.closed = << >>
      BY <1>1, <1>4, <2>2, MadeTail DEF Known, Matches, x
    <3>. QED
      BY <2>2, <3>1 DEF Ready
  <2>3. CASE f.at = "checkpoint"
    <3>1. /\ x.id = m.id /\ f.pending = {}
          /\ n.tail # None => n.tail.entries \subseteq f.removed
      BY <1>4, <2>3, MadeTail DEF x
    <3>2. /\ Present(x.version) # {} /\ Leads(m, n, x)
          /\ \A e \in f.removed : e[2] = "status"
          /\ \A e \in Present(x.version) : n.stored[e] > 0
      BY <1>1, <2>3, <3>1 DEF Ready, Asked, Written, Writes, Sent, Writ, x
    <3>3. PICK e \in Present(x.version) : e[2] = "text"
      <4>1. PICK d \in Present(x.version) : TRUE
        BY <3>2
      <4>2. d \in Entries
        BY DEF Present
      <4>. QED
        BY <3>2, <4>1, <4>2, TextIsEntry DEF Leads, Paired
    <3>4. e \in Entries /\ m.version[e] > 0
      BY <3>1, <3>2, <3>3 DEF Leads, Carries, Present
    <3>5. n.sealed[e] # None
      BY <1>1, <3>1, <3>2, <3>3, <3>4 DEF Closes
    <3>6. SomeSealed(m.version, n)
      BY <3>3, <3>4, <3>5 DEF SomeSealed, Present
    <3>. QED
      BY <1>3, <3>6
  <2>. QED
    BY <1>4, <2>1, <2>2, <2>3, MadeTail
<1>. QED
  BY <1>1, <1>3, <1>4 DEF Named

\* The turn that runs is on disk only where it may be.
LEMMA RunningMade ==
  ASSUME NEW w, NEW m, Shaped(m), NEW q, NEW r, NEW n \in Stores, NEW c, NEW f \in Requests,
         Rests(w, m, q, r, n), Opens(w, m, q, r, n, c), Ready(w, m, q, f, n, c),
         NEW o, o = Made(n, f)
  PROVE  Running(w, m, o, c)
<1> SUFFICES ASSUME Runs(w) PROVE Running(w, m, o, c)
  BY DEF Running
<1> DEFINE t == RunningText(w)
<1>1. /\ Timely(w) /\ Closes(w, n) /\ Running(w, m, n, c) /\ Writes(w, m, q, f, n)
  BY DEF Opens, Ready, Rests
<1>2. t \in Entries /\ t[1] = w.turn
  BY <1>1, RunningTextIs
<1>3. o.sealed[t] = n.sealed[t]
  BY <1>1, <1>2, LeavesOpen
<1>4. /\ t \in Held(m) /\ ~m.ended /\ n.sealed[t] = None
      /\ \A i \in DOMAIN m.closed : m.closed[i].version[t] = 0
      /\ m.closed # << >> => n.stored[t] = 0
      /\ ~c.recovered =>
           /\ m.started
           /\ n.tail # None /\ t \in n.tail.entries => n.tail.id = m.id
  BY <1>1 DEF Running
<1>5. /\ f.tail \in Tails /\ f.tail.version[t] \in Nat
      /\ f.at \in {"checkpoint", "closing", "seal", "closed", "displaced", "reconcile"}
  BY <1>2, MadeIs, VersionNat
<1>6. f.at \in {"closing", "closed"} => f.tail.version[t] = 0
  BY <1>4, ClosedTypes DEF Ready
<1>7. f.at \in {"checkpoint", "seal"} /\ m.closed # << >> => f.tail.version[t] = 0
  BY <1>2, <1>5 DEF Ready, Asked, Present
<1>8. f.at \in {"checkpoint", "closing"} => f.pending \subseteq Present(f.tail.version)
  BY <1>1 DEF Writes
<1>9. m.closed # << >> => o.stored[t] = 0
  <2>1. /\ o.stored[t] = n.stored[t]
           \/ (t \in Present(f.tail.version) /\ o.stored[t] = f.tail.version[t])
        /\ f.at = "reconcile" => o.stored = n.stored
    BY <1>2, <1>8, MadeStored
  <2>2. f.at = "displaced" => f.tail.version[t] = 0
    BY DEF Ready, Before
  <2>. QED
    BY <1>4, <1>5, <1>6, <1>7, <2>1, <2>2
<1>10. ASSUME ~c.recovered, o.tail # None, t \in o.tail.entries PROVE o.tail.id = m.id
  <2>1. CASE f.at \in {"checkpoint", "closing"}
    <3>1. /\ o.tail.id = f.tail.id
          /\ t \in f.pending \/ (n.tail # None /\ t \in n.tail.entries)
      BY <1>10, <2>1, MadeTail
    <3>2. n.tail # None => n.tail.id = f.tail.id
      BY <2>1, MadeIs DEF Ready, TakesCheckpoint
    <3>3. t \in f.pending => f.tail.id = m.id
      <4>1. t \in f.pending => t \in Present(f.tail.version) /\ f.at = "checkpoint"
        BY <1>6, <1>8, <2>1 DEF Present
      <4>. QED
        BY <1>10, <4>1 DEF Ready, Asked, Written
    <3>. QED
      BY <1>4, <1>10, <3>1, <3>2, <3>3
  <2>2. CASE f.at \notin {"checkpoint", "closing"}
    BY <1>4, <1>10, <2>2, MadeTail
  <2>. QED
    BY <2>1, <2>2
<1>. QED
  BY <1>3, <1>4, <1>9, <1>10 DEF Running

\* A request keeps all of it.
LEMMA MadeOpens ==
  ASSUME NEW w, NEW m, Shaped(m), NEW q, NEW r, NEW n \in Stores, NEW c, NEW f \in Requests,
         Rests(w, m, q, r, n), Opens(w, m, q, r, n, c), Ready(w, m, q, f, n, c),
         NEW o, o = Made(n, f)
  PROVE  Opens(w, m, q, None, o, c) /\ Asked(w, m, q, f, o, c)
<1>1. /\ Closes(w, n) /\ Wanted(w, m, q) /\ EndsOver(w, m, n) /\ Quiet(w, m, n, c)
      /\ Takes(n, f) /\ Writes(w, m, q, f, n) /\ Known(w, m, f.tail)
      /\ Loads(w, m, q, r, n, c)
      /\ n.tail # None => Spent(w, n.tail.id)
      /\ f.at \in {"checkpoint", "closing", "seal", "closed", "displaced", "reconcile"}
  BY MadeIs DEF Opens, Ready, Rests, Based, Writes
<1>2. Closes(w, o)
  BY <1>1, ClosesMade
<1>3. Named(m, o)
  BY NamedMade
<1>4. Running(w, m, o, c)
  BY RunningMade
<1>5. Loads(w, m, q, None, o, c)
  BY <1>1 DEF Loads
<1>6. f.at = "closing" => f.tail.id # m.id
  BY <1>1 DEF Known, Matches, Ready
<1>7. EndsOver(w, m, o)
  <2>1. f.at = "checkpoint" => (f.tail.ended /\ f.tail.id = m.id => Over(w, m))
    BY DEF Ready, Asked, Written
  <2>. QED
    BY <1>1, <1>6, <2>1, MadeTail DEF EndsOver
<1>8. Quiet(w, m, o, c)
  <2> SUFFICES ASSUME ~c.live PROVE Quiet(w, m, o, c)
    BY DEF Quiet
  <2>1. /\ w.phase = "idle" /\ m.removed = {}
        /\ n.tail # None /\ n.tail.id = m.id /\ n.tail.entries = {} => ~m.started \/ m.ended
    BY <1>1 DEF Quiet
  <2>2. ASSUME o.tail # None, o.tail.id = m.id, o.tail.entries = {} PROVE ~m.started \/ m.ended
    <3>1. CASE o.tail = n.tail
      BY <2>1, <2>2, <3>1
    <3>2. CASE f.at = "checkpoint"
      <4>1. /\ f.removed = {}
            /\ f.tail.ended /\ f.tail.id = m.id => Over(w, m)
        BY <3>2 DEF Ready, Asked, Written
      <4>2. /\ f.tail.id = m.id /\ f.pending = {}
            /\ n.tail # None => n.tail.entries = {}
        <5>1. /\ o.tail.id = f.tail.id
              /\ o.tail.entries
                   = ((IF n.tail = None THEN {} ELSE n.tail.entries) \ f.removed)
                       \union f.pending
          BY <3>2, MadeTail
        <5>. QED
          BY <2>2, <4>1, <5>1
      <4>3. /\ f.pending # {} \/ f.removed # {} \/ f.tail.ended
            /\ n.tail # None => n.tail.id = f.tail.id
        BY <1>1, <3>2, MadeIs DEF TakesCheckpoint
      <4>4. Over(w, m) => m.ended
        BY <2>1 DEF Over
      <4>. QED
        BY <2>1, <4>1, <4>2, <4>3, <4>4
    <3>. QED
      BY <1>6, <2>2, <3>1, <3>2, MadeTail
  <2>. QED
    BY <2>1, <2>2 DEF Quiet
<1>9. Asked(w, m, q, f, o, c)
  <2>1. \A v, id : Foreign(v, id, n) => Foreign(v, id, o)
    <3>1. \A e \in Entries : n.sealed[e] # None => o.sealed[e] = n.sealed[e]
      BY <1>1, SealedOnce
    <3>. QED
      BY <3>1, SealedKept
  <2>2. f.at = "checkpoint" => Written(w, m, q, f, o, c)
    BY <2>1 DEF Ready, Asked, Written
  <2>3. ASSUME Runs(w), f.at \in {"checkpoint", "closing", "seal", "closed"},
               f.tail.version[RunningText(w)] = 0
        PROVE  o.stored[RunningText(w)] = 0
    <3>1. n.stored[RunningText(w)] = 0
      BY <2>3 DEF Ready, Asked
    <3>2. RunningText(w) \in Entries
      BY <2>3, RunningTextIs DEF Rests
    <3>3. f.at \in {"checkpoint", "closing"} => f.pending \subseteq Present(f.tail.version)
      BY <1>1 DEF Writes
    <3>. QED
      BY <2>3, <3>1, <3>2, <3>3, MadeStored DEF Present
  <2>. QED
    BY <2>1, <2>2, <2>3 DEF Ready, Asked
<1>. QED
  BY <1>1, <1>2, <1>3, <1>4, <1>5, <1>7, <1>8, <1>9 DEF Opens

-----------------------------------------------------------------------------
(* How a pass goes on after its requests. *)

\* The live tail o has nothing that m had not: it may have taken something out
\* before, and a turn that waited may be gone.
Alike(m, o) ==
  /\ o.id = m.id /\ o.started = m.started /\ o.ended = m.ended
  /\ o.version = m.version /\ o.removed \subseteq m.removed
  /\ o.closed # << >> => m.closed # << >>
  /\ \A i \in DOMAIN o.closed : \E j \in DOMAIN m.closed : o.closed[i] = m.closed[j]

\* The invariant holds for it.
LEMMA AlikeOpens ==
  ASSUME NEW m, NEW o, Alike(m, o), NEW w, NEW q, NEW r, NEW n, NEW c,
         Opens(w, m, q, r, n, c)
  PROVE  Opens(w, o, q, r, n, c)
<1>1. Wanted(w, o, q) /\ EndsOver(w, o, n) /\ Quiet(w, o, n, c)
  BY DEF Opens, Wanted, EndsOver, Quiet, Over, Alike
<1>2. Named(o, n)
  BY DEF Opens, Named, Alike, Held
<1>3. Running(w, o, n, c)
  BY DEF Opens, Running, Alike, Held
<1>4. \A x : Before(w, m, q, x) => Before(w, o, q, x)
  BY DEF Before, Alike
<1>5. Loads(w, o, q, r, n, c)
  BY <1>4 DEF Opens, Loads, Alike
<1>. QED
  BY <1>1, <1>2, <1>3, <1>5 DEF Opens

\* The turn of a tail that was sealed leaves the live one, with the seal that
\* was wanted of it, if it is still what was read.
LEMMA SealOpens ==
  ASSUME NEW w, NEW m, Shaped(m), NEW q, NEW r, NEW n \in Stores, NEW c,
         Opens(w, m, q, r, n, c), NEW x, Known(w, m, x), NEW p, Lessened(q, p),
         Unchanged(m, x) => ~p.sealing, Runs(w) => x.version[RunningText(w)] = 0
  PROVE  Opens(w, SealAcknowledged(m, x), p, None, n, c)
<1>0. /\ Closes(w, n) /\ Running(w, m, n, c) /\ Quiet(w, m, n, c)
      /\ Loads(w, m, q, r, n, c)
      /\ Opens(w, m, p, r, n, c)
  BY LessenedOpens DEF Opens
<1>1. CASE Unchanged(m, x)
  <2> DEFINE o == Cleared(m)
  <2>1. /\ o.id = None /\ ~o.started /\ ~o.ended /\ o.version = NoVersions /\ o.removed = {}
    BY ClearedFields
  <2>2. SealAcknowledged(m, x) = o
    BY <1>1 DEF SealAcknowledged
  <2> HIDE DEF o
  <2>3. Held(o) = {}
    BY <2>1, NothingYet DEF Held
  <2>4. n.tail # None => n.tail.id # o.id
    BY <2>1, Apart DEF Stores, StoredTails
  <2>5. ~Runs(w)
    <3>1. m.version = x.version
      BY <1>1 DEF Unchanged, Known, Matches
    <3>. QED
      BY <1>0, <3>1 DEF Running, Held, Present
  <2>6. Wanted(w, o, p) /\ Named(o, n) /\ EndsOver(w, o, n) /\ Running(w, o, n, c)
    BY <1>1, <2>1, <2>3, <2>4, <2>5 DEF Wanted, Named, EndsOver, Running
  <2>7. Loads(w, o, p, None, n, c)
    BY <1>1, <2>5 DEF Loads, Before
  <2>8. Quiet(w, o, n, c)
    BY <1>0, <2>1 DEF Quiet
  <2>. QED
    BY <1>0, <2>2, <2>6, <2>7, <2>8 DEF Opens
<1>2. CASE ~Unchanged(m, x)
  <2>1. SealAcknowledged(m, x) = m
    BY <1>2 DEF SealAcknowledged
  <2>2. Opens(w, m, p, None, n, c)
    BY <1>0 DEF Opens, Loads
  <2>. QED
    BY <2>1, <2>2
<1>. QED
  BY <1>1, <1>2

\* No other seal is wanted while a loaded tail is the live one.
LEMMA ServedGivesUp ==
  ASSUME NEW w, NEW m, NEW q \in Queues, NEW x, Before(w, m, q, x), Unchanged(m, x)
  PROVE  ~SealServed(q, x.id).sealing
<1>1. CASE q.sealId = x.id
  BY <1>1 DEF SealServed, Queues
<1>2. CASE q.sealId # x.id
  BY <1>2 DEF SealServed, Before, Unchanged
<1>. QED
  BY <1>1, <1>2

\* After a seal the pass goes on without what was sealed.
LEMMA SealDoneOpens ==
  ASSUME Shaped(mem), queue \in Queues, NEW w, NEW r, NEW n \in Stores, NEW c,
         Opens(w, mem, queue, r, n, c), NEW f \in Requests, Known(w, mem, f.tail),
         Runs(w) => f.tail.version[RunningText(w)] = 0,
         NEW d, d = SealDone(f)
  PROVE  /\ Opens(w, d.m, d.p.q, None, n, c)
         /\ Whole(d.m, n) => Asked(w, d.m, d.p.q, d.p.flight, n, c)
<1>1. LET e == SealDone(f)
      IN  /\ e.m = SealAcknowledged(mem, f.tail) /\ Shaped(e.m)
          /\ Eased(queue, e.p.q)
          /\ e.p.flight = None \/ Begins(e.m, queue, e.p.flight)
  BY SealDoneRel
<1>2. /\ d.m = SealAcknowledged(mem, f.tail) /\ Shaped(d.m)
      /\ Eased(queue, d.p.q)
      /\ d.p.flight = None \/ Begins(d.m, queue, d.p.flight)
  BY <1>1
<1>3. Unchanged(mem, f.tail) => ~d.p.q.sealing
  <2> DEFINE x == ~Unchanged(mem, f.tail)
             p == [queue EXCEPT !.sealing = @ /\ x]
             m == SealAcknowledged(mem, f.tail)
  <2>1. x \in BOOLEAN
    BY DEF Unchanged
  <2>2. d.p = Resumed(m, p)
    BY DEF SealDone
  <2> HIDE DEF x
  <2>3. Eased(queue, p)
    BY <2>1, Easings
  <2>4. p.sealing => x
    BY DEF Queues
  <2>5. p \in Queues
    BY <2>3 DEF Eased
  <2> HIDE DEF p, m
  <2>6. Shaped(m)
    BY <1>2 DEF m
  <2>7. Eased(p, Resumed(m, p).q)
    BY <2>5, <2>6, ResumedRel
  <2>. QED
    BY <2>2, <2>4, <2>7 DEF Eased, x
<1>4. Lessened(queue, d.p.q)
  BY <1>2 DEF Eased, Lessened
<1>5. Opens(w, d.m, d.p.q, None, n, c)
  BY <1>2, <1>3, <1>4, SealOpens
<1>6. ASSUME Whole(d.m, n) PROVE Asked(w, d.m, d.p.q, d.p.flight, n, c)
  <2>1. d.m.id # None => Wanted(w, d.m, queue)
    <3>1. CASE Unchanged(mem, f.tail)
      BY <1>2, <3>1, ClearedFields DEF SealAcknowledged
    <3>2. CASE ~Unchanged(mem, f.tail)
      BY <1>2, <3>2 DEF SealAcknowledged, Opens
    <3>. QED
      BY <3>1, <3>2
  <2>2. Running(w, d.m, n, c) /\ Quiet(w, d.m, n, c)
    BY <1>5 DEF Opens
  <2>3. Begins(d.m, queue, d.p.flight) => Asked(w, d.m, queue, d.p.flight, n, c)
    BY <1>2, <1>6, <2>1, <2>2, BeginsAsked
  <2>4. Asked(w, d.m, queue, None, n, c)
    BY Apart DEF Asked
  <2>. QED
    BY <1>2, <2>3, <2>4, EasedAsked
<1>. QED
  BY <1>5, <1>6

\* The same after the seal of a loaded tail,
LEMMA RecoveredDoneOpens ==
  ASSUME Shaped(mem), NEW q \in Queues, NEW w, NEW r, NEW n \in Stores, NEW c,
         Opens(w, mem, q, r, n, c), NEW f \in Requests, Known(w, mem, f.tail),
         Before(w, mem, q, f.tail),
         NEW d, d = RecoveredDone(f, q)
  PROVE  /\ Opens(w, d.m, d.p.q, None, n, c)
         /\ Whole(d.m, n) => Asked(w, d.m, d.p.q, d.p.flight, n, c)
<1> DEFINE p == SealServed(q, f.tail.id)
           m == SealAcknowledged(mem, f.tail)
<1>1. LET e == RecoveredDone(f, q)
      IN  /\ e.m = SealAcknowledged(mem, f.tail) /\ Shaped(e.m)
          /\ Eased(q, e.p.q)
          /\ e.p.flight = None \/ Begins(e.m, q, e.p.flight)
  BY RecoveredDoneRel
<1>2. /\ d.m = m /\ Shaped(m)
      /\ Eased(q, d.p.q)
      /\ d.p.flight = None \/ Begins(m, q, d.p.flight)
  BY <1>1
<1>3. d.p = Resumed(m, p)
  BY DEF RecoveredDone
<1>4. Eased(q, p)
  BY Easings
<1>5. Unchanged(mem, f.tail) => ~p.sealing
  BY ServedGivesUp
<1>6. p \in Queues
  BY <1>4 DEF Eased
<1> HIDE DEF p
<1>7. Unchanged(mem, f.tail) => ~d.p.q.sealing
  <2> HIDE DEF m
  <2>1. Eased(p, Resumed(m, p).q)
    BY <1>2, <1>6, ResumedRel
  <2>. QED
    BY <1>3, <1>5, <2>1 DEF Eased
<1>8. Lessened(q, d.p.q)
  BY <1>2 DEF Eased, Lessened
<1>9. Runs(w) => f.tail.version[RunningText(w)] = 0
  BY DEF Before
<1>10. Opens(w, d.m, d.p.q, None, n, c)
  BY <1>2, <1>7, <1>8, <1>9, SealOpens
<1>11. ASSUME Whole(d.m, n) PROVE Asked(w, d.m, d.p.q, d.p.flight, n, c)
  <2>1. d.m.id # None => Wanted(w, d.m, q)
    <3>1. CASE Unchanged(mem, f.tail)
      BY <1>2, <3>1, ClearedFields DEF SealAcknowledged
    <3>2. CASE ~Unchanged(mem, f.tail)
      BY <1>2, <3>2 DEF SealAcknowledged, Opens
    <3>. QED
      BY <3>1, <3>2
  <2>2. Running(w, d.m, n, c) /\ Quiet(w, d.m, n, c)
    BY <1>10 DEF Opens
  <2>3. Begins(d.m, q, d.p.flight) => Asked(w, d.m, q, d.p.flight, n, c)
    BY <1>2, <1>11, <2>1, <2>2, BeginsAsked
  <2>4. Asked(w, d.m, q, None, n, c)
    BY Apart DEF Asked
  <2>. QED
    BY <1>2, <2>3, <2>4, EasedAsked
<1>. QED
  BY <1>10, <1>11

\* after a checkpoint, from which the pass goes on with a seal only of a turn
\* that is over, or one that will be refused,
LEMMA CheckpointDoneOpens ==
  ASSUME Shaped(mem), queue \in Queues, NEW w, NEW n \in Stores, NEW c,
         Opens(w, mem, queue, None, n, c), NEW f \in Requests, f.at = "checkpoint",
         Asked(w, mem, queue, f, n, c),
         NEW d, d = CheckpointDone(f)
  PROVE  /\ Opens(w, d.m, d.p.q, None, n, c)
         /\ Whole(d.m, n) => Asked(w, d.m, d.p.q, d.p.flight, n, c)
<1> DEFINE m == Acknowledged(mem, f.tail.version, f.pending, f.removed)
<1>1. LET e == CheckpointDone(f)
      IN  /\ e.m = m /\ Eased(queue, e.p.q)
          /\ \/ e.p.flight = None
             \/ Begins(e.m, queue, e.p.flight)
             \/ SealsOn(e.m, queue, f, e.p.flight)
  BY CheckpointDoneRel
<1>2. /\ Shaped(m)
      /\ m.id = mem.id /\ m.started = mem.started /\ m.ended = mem.ended
      /\ m.version = mem.version /\ m.closed = mem.closed
      /\ m.removed \subseteq mem.removed
  BY AcknowledgedFields
<1> HIDE DEF m
<1>3. /\ d.m = m /\ Eased(queue, d.p.q)
      /\ \/ d.p.flight = None
         \/ Begins(m, queue, d.p.flight)
         \/ SealsOn(m, queue, f, d.p.flight)
  BY <1>1
<1>4. Alike(mem, m)
  BY <1>2 DEF Alike
<1>5. Opens(w, m, queue, None, n, c)
  BY <1>4, AlikeOpens
<1>6. Lessened(queue, d.p.q)
  BY <1>3 DEF Eased, Lessened
<1>7. Opens(w, m, d.p.q, None, n, c)
  BY <1>5, <1>6, LessenedOpens
<1>8. ASSUME Whole(m, n) PROVE Asked(w, m, d.p.q, d.p.flight, n, c)
  <2>1. Begins(m, queue, d.p.flight) => Asked(w, m, queue, d.p.flight, n, c)
    BY <1>2, <1>5, <1>8, BeginsAsked DEF Opens
  <2>2. Asked(w, m, queue, None, n, c)
    BY Apart DEF Asked
  <2>3. ASSUME SealsOn(m, queue, f, d.p.flight) PROVE Asked(w, m, queue, d.p.flight, n, c)
    <3> DEFINE g == d.p.flight
    <3>1. /\ g.at = "seal" /\ m.closed = << >> /\ queue.sealing /\ queue.sealId = f.tail.id
          /\ m.id # None /\ g.tail.id = m.id /\ g.tail.version = m.version
      BY <2>3 DEF SealsOn, Snapshot
    <3> HIDE DEF g
    <3>2. Runs(w) => m.id # f.tail.id
      BY <1>5, <3>1 DEF Opens, Wanted, Running, Over, Runs
    <3>3. m.id # f.tail.id => Foreign(m.version, m.id, n)
      BY <1>2, <3>1 DEF Asked, Written
    <3>4. Runs(w) => g.tail.version[RunningText(w)] # 0
      BY <1>5, <3>1 DEF Opens, Running, Held, Present
    <3>5. Asked(w, m, queue, g, n, c)
      BY <3>1, <3>2, <3>3, <3>4 DEF Asked
    <3>. QED
      BY <3>5 DEF g
  <2>. QED
    BY <1>3, <2>1, <2>2, <2>3, EasedAsked
<1>. QED
  BY <1>3, <1>7, <1>8

\* and after the seal of a turn that waited.
LEMMA ClosedSealDoneOpens ==
  ASSUME Shaped(mem), queue \in Queues, NEW w, NEW n \in Stores, NEW c,
         Opens(w, mem, queue, None, n, c), NEW f \in Requests,
         NEW d, d = ClosedSealDone(f)
  PROVE  /\ Opens(w, d.m, d.p.q, None, n, c)
         /\ Whole(d.m, n) => Asked(w, d.m, d.p.q, d.p.flight, n, c)
<1>1. LET e == ClosedSealDone(f)
      IN  /\ e.m = mem \/ (mem.closed # << >> /\ e.m = WithoutHead(mem))
          /\ Shaped(e.m) /\ Eased(queue, e.p.q)
          /\ e.p.flight = None \/ Begins(e.m, queue, e.p.flight)
  BY ClosedSealDoneRel
<1>2. /\ d.m = mem \/ (mem.closed # << >> /\ d.m = WithoutHead(mem))
      /\ Shaped(d.m) /\ Eased(queue, d.p.q)
      /\ d.p.flight = None \/ Begins(d.m, queue, d.p.flight)
  BY <1>1
<1>3. Alike(mem, d.m)
  <2>1. CASE d.m = mem
    BY <2>1 DEF Alike
  <2>2. CASE mem.closed # << >> /\ d.m = WithoutHead(mem)
    <3>1. mem \in LiveTails /\ mem.closed \in Seq(Tails)
      BY DEF Shaped, LiveTails
    <3>2. /\ d.m.id = mem.id /\ d.m.started = mem.started /\ d.m.ended = mem.ended
          /\ d.m.version = mem.version /\ d.m.removed = mem.removed
          /\ d.m.closed = Tail(mem.closed)
      BY <2>2, <3>1 DEF WithoutHead, LiveTails
    <3>3. \A i \in DOMAIN d.m.closed : \E j \in DOMAIN mem.closed : d.m.closed[i] = mem.closed[j]
      <4>1. /\ Len(mem.closed) \in Nat /\ DOMAIN mem.closed = 1 .. Len(mem.closed)
            /\ DOMAIN d.m.closed = 1 .. Len(mem.closed) - 1
            /\ \A i \in 1 .. Len(mem.closed) - 1 : d.m.closed[i] = mem.closed[i + 1]
        BY <2>2, <3>1, <3>2
      <4>2. \A i \in 1 .. Len(mem.closed) - 1 : i + 1 \in 1 .. Len(mem.closed)
        BY <4>1
      <4>. QED
        BY <4>1, <4>2
    <3>. QED
      BY <2>2, <3>2, <3>3 DEF Alike
  <2>. QED
    BY <1>2, <2>1, <2>2
<1>4. Opens(w, d.m, queue, None, n, c)
  BY <1>3, AlikeOpens
<1>5. Lessened(queue, d.p.q)
  BY <1>2 DEF Eased, Lessened
<1>6. Opens(w, d.m, d.p.q, None, n, c)
  BY <1>4, <1>5, LessenedOpens
<1>7. ASSUME Whole(d.m, n) PROVE Asked(w, d.m, d.p.q, d.p.flight, n, c)
  <2>1. Begins(d.m, queue, d.p.flight) => Asked(w, d.m, queue, d.p.flight, n, c)
    BY <1>2, <1>4, <1>7, BeginsAsked DEF Opens
  <2>2. Asked(w, d.m, queue, None, n, c)
    BY Apart DEF Asked
  <2>. QED
    BY <1>2, <2>1, <2>2, EasedAsked
<1>. QED
  BY <1>6, <1>7

\* However the pass goes on, the invariant holds.
LEMMA DoneOpens ==
  ASSUME TypeOK, NEW w, NEW n \in Stores, NEW c, NEW f \in Requests,
         Opens(w, mem, queue, None, n, c), Asked(w, mem, queue, f, n, c),
         Known(w, mem, f.tail),
         f.at = "seal" /\ Runs(w) => f.tail.version[RunningText(w)] = 0,
         f.at \in {"displaced", "reconcile"} => Before(w, mem, queue, f.tail),
         NEW d, d = Done(f), Whole(d.m, n)
  PROVE  Opens(w, d.m, d.p.q, None, n, c) /\ Asked(w, d.m, d.p.q, d.p.flight, n, c)
<1>1. /\ Shaped(mem) /\ queue \in Queues
      /\ f.at \in {"checkpoint", "closing", "seal", "closed", "displaced", "reconcile"}
  BY Typed, MadeIs
<1>2. CASE f.at = "checkpoint"
  <2>1. d = CheckpointDone(f)
    BY <1>2 DEF Done
  <2>. QED
    BY <1>1, <1>2, <2>1, CheckpointDoneOpens
<1>3. CASE f.at = "closing"
  <2> DEFINE g == [f EXCEPT !.at = "closed"]
  <2>1. d.m = mem /\ d.p.q = queue /\ d.p.flight = g
    BY <1>3 DEF Done
  <2>2. g.at = "closed" /\ g.tail = f.tail
    BY DEF Requests
  <2> HIDE DEF g
  <2>3. Asked(w, mem, queue, g, n, c)
    BY <1>3, <2>2 DEF Asked
  <2>. QED
    BY <2>1, <2>3
<1>4. CASE f.at = "seal"
  <2>1. d = SealDone(f)
    BY <1>4 DEF Done
  <2>. QED
    BY <1>1, <1>4, <2>1, SealDoneOpens
<1>5. CASE f.at = "closed"
  <2>1. d = ClosedSealDone(f)
    BY <1>5 DEF Done
  <2>. QED
    BY <1>1, <2>1, ClosedSealDoneOpens
<1>6. ASSUME NEW q \in Queues, d = RecoveredDone(f, q), f.at \in {"displaced", "reconcile"},
             q.interrupted \in {None, queue.interrupted}, q.terminal \in {None, queue.terminal},
             q.sealing = queue.sealing, q.sealId = queue.sealId
      PROVE  Opens(w, d.m, d.p.q, None, n, c) /\ Asked(w, d.m, d.p.q, d.p.flight, n, c)
  <2>1. Lessened(queue, q)
    BY <1>6 DEF Lessened
  <2>2. Opens(w, mem, q, None, n, c)
    BY <2>1, LessenedOpens
  <2>3. Before(w, mem, q, f.tail)
    BY <1>6 DEF Before
  <2>. QED
    BY <1>1, <1>6, <2>2, <2>3, RecoveredDoneOpens
<1>7. CASE f.at = "reconcile"
  <2> DEFINE q == [queue EXCEPT !.terminal = None]
  <2>1. d = RecoveredDone(f, q)
    BY <1>7 DEF Done
  <2>2. /\ q \in Queues /\ q.terminal = None /\ q.interrupted = queue.interrupted
        /\ q.sealing = queue.sealing /\ q.sealId = queue.sealId
    BY ServedQueues
  <2> HIDE DEF q
  <2>. QED
    BY <1>6, <1>7, <2>1, <2>2
<1>8. CASE f.at = "displaced"
  <2> DEFINE q == [queue EXCEPT !.interrupted = None]
  <2>1. d = RecoveredDone(f, q)
    BY <1>8 DEF Done
  <2>2. /\ q \in Queues /\ q.interrupted = None /\ q.terminal = queue.terminal
        /\ q.sealing = queue.sealing /\ q.sealId = queue.sealId
    BY ServedQueues
  <2> HIDE DEF q
  <2>. QED
    BY <1>6, <1>8, <2>1, <2>2
<1>. QED
  BY <1>1, <1>2, <1>3, <1>4, <1>5, <1>7, <1>8

-----------------------------------------------------------------------------
(* The steps of the pump. *)

\* What the process did, at either end of a step.
LEMMA HereFields ==
  /\ Here.recovered = recovered /\ Here.live = live
  /\ Here'.recovered = recovered' /\ Here'.live = live'
BY DEF Here

\* The request under way is of what is there.
LEMMA FlightReady ==
  ASSUME IInv, OpenInv, flight \in Requests, Takes(native, flight)
  PROVE  Ready(Now, mem, queue, flight, native, Here)
<1>1. /\ Waits(Now, mem, queue, flight, native)
      /\ Rests(Now, mem, queue, recovery, native)
  BY DEF IInv
<1>2. Writes(Now, mem, queue, flight, native)
  BY <1>1, WaitsWrites
<1>3. Asked(Now, mem, queue, flight, native, Here)
      /\ Loads(Now, mem, queue, recovery, native, Here)
  BY DEF OpenInv, Opens
<1>4. flight.at \in {"displaced", "reconcile"} => Before(Now, mem, queue, flight.tail)
  BY <1>1, <1>3 DEF Waits, Loads
<1>5. flight.at \in {"closing", "closed"} => mem.closed # << >> /\ flight.tail = mem.closed[1]
  BY <1>1 DEF Waits
<1>. QED
  BY <1>2, <1>3, <1>4, <1>5 DEF Ready

\* A recovery that is over leaves nothing to be said of it.
LEMMA OpensAfter ==
  ASSUME NEW w, NEW m, NEW q, NEW r, NEW n, NEW c, Opens(w, m, q, r, n, c)
  PROVE  Opens(w, m, q, None, n, c)
BY DEF Opens, Loads

\* The answer to a request keeps the invariant,
LEMMA AnsweredOpens ==
  ASSUME IInv, OpenInv, IInv', RecoversAlone, Awake, Answered
  PROVE  OpenInv'
<1>1. /\ TypeOK /\ Rests(Now, mem, queue, recovery, native)
      /\ Waits(Now, mem, queue, flight, native)
      /\ Opens(Now, mem, queue, recovery, native, Here)
      /\ Asked(Now, mem, queue, flight, native, Here)
  BY DEF IInv, OpenInv
<1>2. /\ flight \in Requests /\ flight # None /\ recovery = None
      /\ Shaped(mem) /\ queue \in Queues /\ native \in Stores
  BY <1>1, Typed DEF Answered, Awake, RecoversAlone
<1>3. Now' = Now /\ recovery' = None /\ Here' = Here
  BY <1>2 DEF Answered, turnVars, bounds, Now, Here
<1>4. CASE Takes(native, flight)
  <2> DEFINE n == Made(native, flight)
             d == Done(flight)
  <2>1. native' = n /\ mem' = d.m /\ queue' = d.p.q /\ flight' = d.p.flight
    BY <1>4 DEF Answered
  <2>2. Ready(Now, mem, queue, flight, native, Here)
    BY <1>2, <1>4, FlightReady
  <2>3. n = Made(native, flight) /\ n \in Stores /\ d = Done(flight)
    BY <1>2, MadeType
  <2> HIDE DEF n, d
  <2>4. Opens(Now, mem, queue, None, n, Here) /\ Asked(Now, mem, queue, flight, n, Here)
    BY <1>1, <1>2, <2>2, <2>3, MadeOpens
  <2>5. Known(Now, mem, flight.tail)
    BY <1>1, <1>2 DEF Waits
  <2>6. flight.at = "seal" /\ Runs(Now) => flight.tail.version[RunningText(Now)] = 0
    <3>1. Timely(Now) /\ Running(Now, mem, native, Here) /\ Closes(Now, native)
      BY <1>1 DEF Rests, Opens
    <3>. QED
      BY <1>2, <2>2, <3>1, SealsAnother
  <2>7. flight.at \in {"displaced", "reconcile"} => Before(Now, mem, queue, flight.tail)
    BY <2>2 DEF Ready
  <2>8. Whole(d.m, n)
    BY <2>1 DEF IInv, Rests
  <2>9. /\ Opens(Now, d.m, d.p.q, None, n, Here)
        /\ Asked(Now, d.m, d.p.q, d.p.flight, n, Here)
    BY <1>1, <1>2, <2>3, <2>4, <2>5, <2>6, <2>7, <2>8, DoneOpens
  <2>. QED
    BY <1>3, <2>1, <2>9 DEF OpenInv
<1>5. CASE ~Takes(native, flight)
  <2>1. /\ queue' = Failed(queue) /\ flight' = None /\ mem' = mem /\ native' = native
    BY <1>5 DEF Answered
  <2>2. Eased(queue, queue')
    BY <1>2, <2>1, Easings
  <2>3. Asked(Now, mem, queue, None, native, Here)
    BY Apart DEF Asked
  <2>4. Whole(mem, native)
    BY <1>1 DEF Rests
  <2>5. /\ Opens(Now, mem, queue', None, native, Here)
        /\ Asked(Now, mem, queue', None, native, Here)
    BY <1>1, <1>2, <2>2, <2>3, <2>4, PumpOpens
  <2>. QED
    BY <1>3, <2>1, <2>5 DEF OpenInv
<1>. QED
  BY <1>4, <1>5

\* and so does its failure,
LEMMA RequestFailsOpens ==
  ASSUME IInv, OpenInv, RecoversAlone, Awake, NEW lost \in BOOLEAN, RequestFails(lost)
  PROVE  OpenInv'
<1>1. /\ TypeOK /\ Rests(Now, mem, queue, recovery, native)
      /\ Opens(Now, mem, queue, recovery, native, Here)
  BY DEF IInv, OpenInv
<1>2. /\ flight \in Requests /\ recovery = None
      /\ Shaped(mem) /\ queue \in Queues /\ native \in Stores
  BY <1>1, Typed DEF RequestFails, Awake, RecoversAlone
<1>3. /\ Now' = Now /\ recovery' = None /\ Here' = Here
      /\ mem' = mem /\ queue' = Failed(queue) /\ flight' = None
      /\ native' = (IF lost THEN Made(native, flight) ELSE native)
  BY <1>2 DEF RequestFails, turnVars, Now, Here
<1>4. Opens(Now, mem, queue, None, native', Here)
  <2>1. CASE lost
    <3>1. Takes(native, flight)
      BY <2>1 DEF RequestFails
    <3>2. Ready(Now, mem, queue, flight, native, Here)
      BY <1>2, <3>1, FlightReady
    <3>. QED
      BY <1>1, <1>2, <1>3, <2>1, <3>2, MadeOpens
  <2>2. CASE ~lost
    BY <1>1, <1>3, <2>2, OpensAfter
  <2>. QED
    BY <2>1, <2>2
<1>5. Lessened(queue, queue')
  <2>1. Eased(queue, queue')
    BY <1>2, <1>3, Easings
  <2>. QED
    BY <2>1 DEF Eased, Lessened
<1>6. Opens(Now, mem, queue', None, native', Here)
  BY <1>4, <1>5, LessenedOpens
<1>7. Asked(Now, mem, queue', None, native', Here)
  BY Apart DEF Asked
<1>. QED
  BY <1>3, <1>6, <1>7 DEF OpenInv

\* and a timer.
LEMMA TimersOpen ==
  ASSUME IInv, OpenInv, CheckpointTimer \/ RetryTimer
  PROVE  OpenInv'
<1>1. /\ TypeOK /\ Whole(mem, native) /\ Shaped(mem)
      /\ Opens(Now, mem, queue, recovery, native, Here)
      /\ Asked(Now, mem, queue, flight, native, Here)
  BY Typed DEF IInv, OpenInv, Rests
<1>2. /\ Eased(queue, queue') /\ Now' = Now /\ Here' = Here
      /\ flight' = flight \/ Begins(mem, queue, flight')
      /\ UNCHANGED <<mem, recovery, native>>
  BY <1>1, TimersRel DEF Now, Here
<1>3. Opens(Now, mem, queue', recovery, native, Here)
      /\ Asked(Now, mem, queue', flight', native, Here)
  BY <1>1, <1>2, PumpOpens
<1>. QED
  BY <1>2, <1>3 DEF OpenInv

-----------------------------------------------------------------------------
(* The recovery. *)

\* That the session was recovered asks for less.
LEMMA OpensRecovered ==
  ASSUME NEW w, NEW m, NEW q, NEW n, NEW c, NEW d, Opens(w, m, q, None, n, c),
         d.live = c.live, c.recovered => d.recovered
  PROVE  Opens(w, m, q, None, n, d)
<1>1. Running(w, m, n, d) /\ Quiet(w, m, n, d) /\ Loads(w, m, q, None, n, d)
  BY DEF Opens, Running, Quiet, Loads
<1>. QED
  BY <1>1 DEF Opens

\* The end of a recovery, when no request is under way.
LEMMA RecoveryEndsOpen ==
  ASSUME TypeOK, flight = None, NEW m, NEW q, NEW ok, Shaped(m), q \in Queues,
         ok \in BOOLEAN, RecoveryEnds(m, q, ok), IInv',
         Opens(Now, m, q, None, native', Here')
  PROVE  OpenInv'
<1> DEFINE r == [q EXCEPT !.recovering = FALSE]
<1>1. /\ mem' = m /\ recovery' = None
      /\ <<turn, phase, ended, live, crashes, seen>>' = <<turn, phase, ended, live, crashes, seen>>
      /\ Eased(r, queue')
      /\ r.interrupted = q.interrupted /\ r.terminal = q.terminal
      /\ r.sealing = q.sealing /\ r.sealId = q.sealId
      /\ flight' = flight \/ Begins(m, r, flight')
  BY RecoveryEndsRel
<1> HIDE DEF r
<1>2. Now' = Now
  BY <1>1 DEF Now
<1>3. Lessened(q, r)
  BY <1>1 DEF Lessened
<1>4. Opens(Now, m, r, None, native', Here')
  BY <1>3, LessenedOpens
<1>5. Whole(m, native')
  BY <1>1 DEF IInv, Rests
<1>6. Asked(Now, m, r, None, native', Here')
  BY Apart DEF Asked
<1>7. Opens(Now, m, queue', None, native', Here')
      /\ Asked(Now, m, queue', flight', native', Here')
  BY <1>1, <1>4, <1>5, <1>6, PumpOpens
<1>. QED
  BY <1>1, <1>2, <1>7 DEF OpenInv

\* The tail on disk has the text of the turn that runs only if the live tail
\* bears its name, and the recovery does not seal it.
LEMMA LoadedBefore ==
  ASSUME NEW w, Timely(w), Runs(w), NEW m, NEW q, NEW r, NEW n \in Stores, NEW c,
         Opens(w, m, q, r, n, c), r # None, n.tail # None,
         r.seal \/ n.tail.id # m.id
  PROVE  Loaded(n).version[RunningText(w)] = 0
<1> DEFINE t == RunningText(w)
<1>1. t \in Entries
  BY RunningTextIs
<1>2. Loaded(n).version[t] = IF t \in n.tail.entries THEN n.stored[t] ELSE 0
  BY <1>1, LoadedFields
<1>3. Loads(w, m, q, r, n, c) /\ Running(w, m, n, c)
  BY DEF Opens
<1>4. CASE r.seal
  BY <1>2, <1>3, <1>4 DEF Loads
<1>5. CASE ~r.seal
  <2>1. ~c.recovered
    BY <1>3, <1>5 DEF Loads
  <2>2. t \notin n.tail.entries
    BY <1>3, <1>5, <2>1 DEF Running
  <2>. QED
    BY <1>2, <2>2
<1>. QED
  BY <1>4, <1>5

\* The record of a recovery that restores the tail x wants the seal of no
\* other.
Resealing(q, p, x) ==
  /\ p.interrupted = q.interrupted /\ p.terminal = q.terminal
  /\ p.sealing <=> (q.sealing /\ q.sealId = x.id) \/ x.ended
  /\ p.sealing => p.sealId = x.id

\* The recovery s that follows r when the tail x was restored: it is over, or
\* goes on to seal the tail.
Restoring(r, s, x, c, d) ==
  /\ d.live = c.live
  /\ \/ s = None /\ d.recovered
     \/ /\ s # None /\ s.at # "load" /\ s.tail = x /\ s.seal = r.seal
        /\ x.ended \/ r.seal
        /\ d.recovered = c.recovered

\* The tail of an earlier process becomes the live one.
LEMMA RestoredOpens ==
  ASSUME NEW w, NEW m, Shaped(m), NEW q, NEW r, NEW n \in Stores, NEW c,
         Rests(w, m, q, r, n), Opens(w, m, q, r, n, c), r # None, r.at = "load",
         n.tail # None, NEW x, x = Loaded(n), CanRestore(m, x),
         NEW p, Resealing(q, p, x), NEW s, NEW d, Restoring(r, s, x, c, d)
  PROVE  Opens(w, Restored(m, x), p, s, n, d)
<1>0. LET a == Restored(m, x)
      IN  /\ Shaped(a)
          /\ a.id = x.id /\ a.closed = << >>
          /\ a.started = (Present(x.version) # {})
          /\ a.ended = (m.ended \/ x.ended)
          /\ a.version = [e \in Entries |->
               IF e \in m.removed THEN 0 ELSE Larger(m.version[e], x.version[e])]
          /\ a.removed \subseteq m.removed
  <2>1. x \in Tails
    BY LoadedFields
  <2>. QED
    BY <2>1, RestoredFields
<1> DEFINE o == Restored(m, x)
<1>1. /\ x \in Tails /\ x.id = n.tail.id /\ x.ended = n.tail.ended
      /\ x.version = [e \in Entries |-> IF e \in n.tail.entries THEN n.stored[e] ELSE 0]
  BY LoadedFields
<1>2. /\ Shaped(o) /\ o.id = x.id /\ o.closed = << >>
      /\ o.started = (Present(x.version) # {})
      /\ o.ended = (m.ended \/ x.ended)
      /\ o.version = [e \in Entries |->
           IF e \in m.removed THEN 0 ELSE Larger(m.version[e], x.version[e])]
      /\ o.removed \subseteq m.removed
  BY <1>0, <1>1
<1>3. /\ Timely(w) /\ Lined(w, m, n) /\ OnDisk(n) /\ Spent(w, x.id)
      /\ Closes(w, n) /\ Wanted(w, m, q) /\ Named(m, n) /\ EndsOver(w, m, n)
      /\ Running(w, m, n, c) /\ Loads(w, m, q, r, n, c) /\ Quiet(w, m, n, c)
  BY <1>1 DEF Rests, Opens, Based
<1>4. /\ q.interrupted # None => q.interrupted = x
      /\ q.terminal # None => q.terminal = x
  BY LoadedIsFresh
<1>5. /\ x.id # None /\ m.id \in {None, x.id}
      /\ \A e \in Entries : x.version[e] \in Nat /\ m.version[e] \in Nat /\ n.stored[e] \in Nat
      /\ n.tail.entries \subseteq Entries
  BY <1>1, VersionNat, Apart DEF CanRestore, Tails, Shaped, LiveTails, Stores, StoredTails
<1>6. \A e \in Entries : x.version[e] = IF e \in n.tail.entries THEN n.stored[e] ELSE 0
  BY <1>1
<1>7. \A e \in Entries : e \notin m.removed =>
        o.version[e] >= m.version[e] /\ o.version[e] >= x.version[e]
          /\ o.version[e] \in {m.version[e], x.version[e]}
  BY <1>2, <1>5 DEF Larger
<1>8. \A e \in Entries : e \in m.removed => o.version[e] = 0 /\ m.version[e] = 0 /\ e[2] = "status"
  BY <1>2, <1>3, <1>5 DEF Lined, Shaped, Held, Present
<1>9. Present(x.version) = n.tail.entries
  BY <1>3, <1>5, <1>6 DEF Present, OnDisk
<1> HIDE DEF o
<1>10. Held(m) \subseteq Held(o)
  BY <1>5, <1>7, <1>8 DEF Held, Present
<1>11. n.tail.entries = {} => Held(o) \subseteq Held(m)
  BY <1>5, <1>7, <1>8, <1>9 DEF Held, Present
<1>12. Over(w, m) => Over(w, o)
  BY <1>2 DEF Over
<1>13. Wanted(w, o, p)
  <2> SUFFICES ASSUME p.sealing PROVE p.sealId = x.id /\ Over(w, o)
    BY <1>2, <1>3, <1>5 DEF Wanted
  <2>1. CASE x.ended
    BY <1>2, <2>1 DEF Over, Resealing
  <2>2. CASE q.sealing /\ q.sealId = x.id
    BY <1>3, <1>5, <1>12, <2>2 DEF Wanted, Resealing
  <2>. QED
    BY <2>1, <2>2 DEF Resealing
<1>14. n.tail.entries = {} /\ Held(o) # {} => SomeSealed(o.version, n)
  <2> SUFFICES ASSUME n.tail.entries = {}, Held(o) # {} PROVE SomeSealed(o.version, n)
    OBVIOUS
  <2>1. Held(m) # {}
    BY <1>11
  <2>2. m.id = n.tail.id
    BY <1>1, <1>3, <1>5, <2>1 DEF Named
  <2>3. SomeSealed(m.version, n)
    BY <1>3, <2>1, <2>2 DEF Named
  <2>. QED
    BY <1>10, <2>3 DEF SomeSealed, Held
<1>15. Named(o, n)
  <2>1. o.started => Held(o) # {}
    <3> SUFFICES ASSUME NEW e \in n.tail.entries PROVE Held(o) # {}
      BY <1>2, <1>9
    <3>1. TextOf(e) \in n.tail.entries /\ TextOf(e)[2] = "text"
      BY <1>3, <1>5, TextIsEntry DEF OnDisk, Paired
    <3>2. TextOf(e) \in Present(x.version) /\ TextOf(e) \in Entries
      BY <1>5, <1>9, <3>1
    <3>. QED
      BY <1>5, <1>7, <1>8, <3>1, <3>2 DEF Held, Present
  <2>2. ~o.started => n.tail.entries = {}
    BY <1>2, <1>9
  <2>. QED
    BY <1>2, <1>5, <1>14, <2>1, <2>2 DEF Named
<1>16. EndsOver(w, o, n)
  BY <1>1, <1>2 DEF EndsOver, Over
<1>17. Runs(w) => m.id = x.id /\ ~x.ended /\ ~m.ended
  <2>1. Runs(w) => m.id # None /\ ~m.ended /\ ~Over(w, m)
    BY <1>3 DEF Running, Named, Over, Runs
  <2>. QED
    BY <1>1, <1>3, <1>5, <2>1 DEF EndsOver
<1>18. Running(w, o, n, d)
  <2> SUFFICES ASSUME Runs(w) PROVE Running(w, o, n, d)
    BY DEF Running
  <2>1. RunningText(w) \in Held(o) /\ ~o.ended /\ n.sealed[RunningText(w)] = None
    BY <1>2, <1>3, <1>10, <1>17 DEF Running
  <2>2. ~d.recovered => o.started
    <3> SUFFICES ASSUME ~d.recovered, n.tail.entries = {} PROVE FALSE
      BY <1>2, <1>9
    <3>1. ~c.recovered /\ r.seal
      BY <1>17 DEF Restoring
    <3>2. m.started /\ ~m.ended
      BY <1>3, <3>1 DEF Running
    <3>. QED
      BY <1>1, <1>3, <1>17, <3>1, <3>2 DEF Loads
  <2>3. DOMAIN o.closed = {}
    BY <1>2
  <2>. QED
    BY <1>1, <1>2, <2>1, <2>2, <2>3 DEF Running
<1>19. Loads(w, o, p, s, n, d)
  <2>1. \A y \in {q.interrupted, q.terminal} \ {None} : Runs(w) => y.version[RunningText(w)] = 0
    BY <1>3 DEF Loads, Before
  <2>2. p.interrupted # None => Before(w, o, p, p.interrupted)
    BY <1>4, <2>1 DEF Resealing, Before
  <2>3. p.terminal # None => Before(w, o, p, p.terminal)
    BY <1>4, <2>1 DEF Resealing, Before
  <2>4. s # None => Before(w, o, p, x)
    <3>1. s # None /\ Runs(w) => x.version[RunningText(w)] = 0
      BY <1>3, <1>17, LoadedBefore DEF Restoring
    <3>. QED
      BY <3>1 DEF Resealing, Before
  <2>5. s # None => /\ s.at # "load" /\ s.tail = x
                    /\ ~s.seal => ~d.recovered
                    /\ s.seal /\ Runs(w) => n.stored[RunningText(w)] = 0
    BY <1>3 DEF Loads, Restoring
  <2>. QED
    BY <2>2, <2>3, <2>4, <2>5 DEF Loads
<1>20. Quiet(w, o, n, d)
  <2>1. n.tail.entries = {} => ~o.started
    BY <1>2, <1>9
  <2>. QED
    BY <1>2, <1>3, <2>1 DEF Quiet, Restoring
<1>. QED
  BY <1>3, <1>13, <1>15, <1>16, <1>18, <1>19, <1>20 DEF Opens, o

\* The tail of an earlier process is read.
LEMMA TailLoadedOpens ==
  ASSUME IInv, OpenInv, IInv', RecoversAlone, TailLoaded
  PROVE  OpenInv'
<1>1. /\ TypeOK /\ Rests(Now, mem, queue, recovery, native) /\ Timely(Now)
      /\ Opens(Now, mem, queue, recovery, native, Here)
  BY DEF IInv, OpenInv, Rests
<1>2. /\ recovery # None /\ recovery.at = "load" /\ flight = None /\ native' = native
      /\ Shaped(mem) /\ queue \in Queues /\ native \in Stores /\ recovery \in Recoveries
  BY <1>1, Typed DEF TailLoaded, RecoversAlone
<1>3. CASE native.tail = None
  <2>1. RecoveryEnds(mem, queue, TRUE)
    BY <1>3 DEF TailLoaded
  <2>2. Here'.live = Here.live /\ Here'.recovered
    BY <2>1, HereFields DEF RecoveryEnds
  <2>3. Opens(Now, mem, queue, None, native, Here)
    BY <1>1, OpensAfter
  <2>4. Opens(Now, mem, queue, None, native', Here')
    BY <1>2, <2>2, <2>3, OpensRecovered
  <2>. QED
    BY <1>1, <1>2, <2>1, <2>4, RecoveryEndsOpen
<1>4. CASE native.tail # None
  <2> DEFINE tail == Loaded(native)
             p == RestoredQueue(tail)
             sealAt == IF tail.ended THEN "reconcile" ELSE "seal"
  <2>1. tail \in Tails
    BY <1>2, <1>4, LoadedFields
  <2>2. IF ~CanRestore(mem, tail)
          THEN Goes(mem, queue, sealAt, tail, TRUE)
        ELSE IF tail.ended \/ recovery.seal
          THEN Goes(Restored(mem, tail), p, sealAt, tail, FALSE)
        ELSE RecoveryEnds(Restored(mem, tail), p, TRUE)
    BY <1>4 DEF TailLoaded
  <2>3. p \in Queues /\ Resealing(queue, p, tail)
    <3>1. /\ p \in Queues
          /\ p.interrupted = queue.interrupted /\ p.terminal = queue.terminal
          /\ p.sealing = ((queue.sealing /\ queue.sealId = tail.id) \/ tail.ended)
      BY <1>1, <2>1, RecoveryQueues
    <3>2. p.sealing => p.sealId = tail.id
      BY <1>2, <3>1 DEF RestoredQueue, Queues
    <3>. QED
      BY <3>1, <3>2 DEF Resealing
  <2>4. sealAt \in {"reconcile", "seal"}
    OBVIOUS
  <2>5. LET o == Restored(mem, tail) IN Shaped(o)
    BY <1>2, <2>1, RestoredFields
  <2>6. tail = Loaded(native)
    OBVIOUS
  <2> HIDE DEF sealAt, p, tail
  <2>7. CASE ~CanRestore(mem, tail)
    <3>1. Goes(mem, queue, sealAt, tail, TRUE)
      BY <2>2, <2>7
    <3>2. /\ mem' = mem /\ queue' = queue /\ flight' = None /\ Now' = Now /\ Here' = Here
          /\ recovery' = [recovery EXCEPT !.at = sealAt, !.tail = tail, !.displaced = TRUE]
      BY <1>2, <3>1 DEF Goes, turnVars, Now, Here
    <3>3. recovery'.tail = tail /\ recovery'.seal = recovery.seal /\ recovery'.at = sealAt
      BY <1>2, <3>2 DEF Recoveries
    <3>4. mem.id # tail.id /\ tail.id = native.tail.id
      BY <1>2, <1>4, <2>6, <2>7, LoadedFields DEF CanRestore
    <3>5. Runs(Now) => tail.version[RunningText(Now)] = 0
      BY <1>1, <1>2, <1>4, <2>6, <3>4, LoadedBefore
    <3>6. Before(Now, mem, queue, tail)
      BY <3>4, <3>5 DEF Before
    <3>7. Loads(Now, mem, queue, recovery, native, Here)
      BY <1>1 DEF Opens
    <3>8. Loads(Now, mem, queue, recovery', native, Here)
      BY <1>2, <2>4, <3>3, <3>6, <3>7 DEF Loads
    <3>9. Opens(Now, mem, queue, recovery', native, Here)
      BY <1>1, <3>8 DEF Opens
    <3>10. Asked(Now, mem, queue, None, native, Here)
      BY Apart DEF Asked
    <3>. QED
      BY <1>2, <3>2, <3>9, <3>10 DEF OpenInv
  <2>8. CASE CanRestore(mem, tail) /\ (tail.ended \/ recovery.seal)
    <3>1. Goes(Restored(mem, tail), p, sealAt, tail, FALSE)
      BY <2>2, <2>8
    <3>2. /\ mem' = Restored(mem, tail) /\ queue' = p /\ flight' = None /\ Now' = Now
          /\ Here' = Here
          /\ recovery' = [recovery EXCEPT !.at = sealAt, !.tail = tail, !.displaced = FALSE]
      BY <1>2, <3>1 DEF Goes, turnVars, Now, Here
    <3>3. recovery'.tail = tail /\ recovery'.seal = recovery.seal /\ recovery'.at = sealAt
          /\ recovery' \in Recoveries
      <4>1. recovery' \in Recoveries
        BY <1>2, <2>1, <2>4, <3>2 DEF Recoveries
      <4>. QED
        BY <1>2, <3>2, <4>1 DEF Recoveries
    <3>4. recovery' # None /\ recovery'.at # "load"
      BY <2>4, <3>3, Apart
    <3>5. Restoring(recovery, recovery', tail, Here, Here)
      BY <2>8, <3>3, <3>4 DEF Restoring
    <3>6. Opens(Now, Restored(mem, tail), p, recovery', native, Here)
      BY <1>1, <1>2, <1>4, <2>3, <2>6, <2>8, <3>5, RestoredOpens
    <3>7. Asked(Now, mem', p, None, native, Here)
      BY Apart DEF Asked
    <3>. QED
      BY <1>2, <3>2, <3>6, <3>7 DEF OpenInv
  <2>9. CASE CanRestore(mem, tail) /\ ~(tail.ended \/ recovery.seal)
    <3>1. RecoveryEnds(Restored(mem, tail), p, TRUE)
      BY <2>2, <2>9
    <3>2. Here'.live = Here.live /\ Here'.recovered
      BY <3>1, HereFields DEF RecoveryEnds
    <3>3. Restoring(recovery, None, tail, Here, Here')
      BY <3>2 DEF Restoring
    <3>4. Opens(Now, Restored(mem, tail), p, None, native, Here')
      BY <1>1, <1>2, <1>4, <2>3, <2>6, <2>9, <3>3, RestoredOpens
    <3>. QED
      BY <1>1, <1>2, <2>3, <2>5, <3>1, <3>4, RecoveryEndsOpen
  <2>. QED
    BY <2>7, <2>8, <2>9
<1>. QED
  BY <1>3, <1>4

\* It cannot be read.
LEMMA LoadFailsOpen ==
  ASSUME IInv, OpenInv, IInv', RecoversAlone, LoadFails
  PROVE  OpenInv'
<1>1. /\ TypeOK /\ Opens(Now, mem, queue, recovery, native, Here)
  BY DEF IInv, OpenInv
<1>2. /\ flight = None /\ native' = native /\ Shaped(mem) /\ queue \in Queues
      /\ RecoveryEnds(mem, queue, FALSE)
  BY <1>1, Typed DEF LoadFails, RecoversAlone
<1>3. Opens(Now, mem, queue, None, native, Here)
  BY <1>1, OpensAfter
<1>4. Here'.live = Here.live /\ Here.recovered => Here'.recovered
  BY <1>2, HereFields DEF RecoveryEnds
<1>5. Here'.live = Here.live
  BY <1>2, HereFields DEF RecoveryEnds
<1>6. Opens(Now, mem, queue, None, native', Here')
  BY <1>2, <1>3, <1>4, <1>5, OpensRecovered
<1>. QED
  BY <1>1, <1>2, <1>6, RecoveryEndsOpen

\* The request of a recovery is of what is there.
LEMMA RecoveryReady ==
  ASSUME IInv, OpenInv, recovery # None, recovery.at # "load"
  PROVE  /\ Takes(native, RecoveryFlight) => Ready(Now, mem, queue, RecoveryFlight, native, Here)
         /\ Asked(Now, mem, queue, RecoveryFlight, native, Here)
         /\ Before(Now, mem, queue, recovery.tail)
<1>1. /\ TypeOK /\ Rests(Now, mem, queue, recovery, native)
      /\ Shaped(mem) /\ native \in Stores
  BY Typed DEF IInv
<1>2. Loads(Now, mem, queue, recovery, native, Here)
  BY DEF OpenInv, Opens
<1>3. Writes(Now, mem, queue, RecoveryFlight, native)
  BY <1>1, RecoveryWrites
<1>4. /\ RecoveryFlight.tail = recovery.tail
      /\ RecoveryFlight.at \in {"displaced", "reconcile"}
  BY <1>1, RecoveryFlightType
<1>5. Before(Now, mem, queue, recovery.tail)
  BY <1>2 DEF Loads
<1>6. Asked(Now, mem, queue, RecoveryFlight, native, Here)
  BY <1>4 DEF Asked
<1>. QED
  BY <1>3, <1>4, <1>5, <1>6 DEF Ready

\* A recovery whose request failed, or was refused, ends with the tail kept to
\* be tried again.
LEMMA KeptOpens ==
  ASSUME IInv, OpenInv, IInv', RecoversAlone, recovery # None, recovery.at # "load",
         RecoveryEnds(mem, KeptForRetry, FALSE),
         Opens(Now, mem, queue, None, native', Here)
  PROVE  OpenInv'
<1> DEFINE p == KeptForRetry
<1>1. /\ TypeOK /\ flight = None /\ Shaped(mem)
      /\ Loads(Now, mem, queue, recovery, native, Here)
  BY Typed DEF IInv, OpenInv, Opens, RecoversAlone
<1>2. /\ p \in Queues
      /\ p.interrupted \in {recovery.tail, queue.interrupted}
      /\ p.terminal \in {recovery.tail, queue.terminal}
      /\ p.sealing = queue.sealing /\ p.sealId = queue.sealId
  BY <1>1, RecoveryQueues
<1>3. Before(Now, mem, queue, recovery.tail)
  BY RecoveryReady
<1> HIDE DEF p
<1>4. \A x : Before(Now, mem, queue, x) => Before(Now, mem, p, x)
  BY <1>2 DEF Before
<1>5. Loads(Now, mem, p, None, native', Here)
  BY <1>1, <1>2, <1>3, <1>4 DEF Loads
<1>6. Wanted(Now, mem, p)
  BY <1>2 DEF Opens, Wanted
<1>7. Opens(Now, mem, p, None, native', Here)
  BY <1>5, <1>6 DEF Opens
<1>8. Here'.live = Here.live /\ (Here.recovered => Here'.recovered)
  BY HereFields DEF RecoveryEnds
<1>9. Opens(Now, mem, p, None, native', Here')
  BY <1>7, <1>8, OpensRecovered
<1>. QED
  BY <1>1, <1>2, <1>9, RecoveryEndsOpen DEF p

\* The store after the request of a recovery.
LEMMA RecoveryMadeOpens ==
  ASSUME IInv, OpenInv, recovery # None, recovery.at # "load",
         native' = native
           \/ (Takes(native, RecoveryFlight) /\ native' = Made(native, RecoveryFlight))
  PROVE  native' \in Stores /\ Opens(Now, mem, queue, None, native', Here)
<1>1. /\ TypeOK /\ Rests(Now, mem, queue, recovery, native)
      /\ Shaped(mem) /\ native \in Stores
      /\ Opens(Now, mem, queue, recovery, native, Here)
  BY Typed DEF IInv, OpenInv
<1>2. RecoveryFlight \in Requests
  BY <1>1, RecoveryFlightType
<1>3. CASE native' = native
  BY <1>1, <1>3, OpensAfter
<1>4. CASE Takes(native, RecoveryFlight) /\ native' = Made(native, RecoveryFlight)
  <2>1. Ready(Now, mem, queue, RecoveryFlight, native, Here)
    BY <1>4, RecoveryReady
  <2>2. native' \in Stores
    BY <1>1, <1>2, <1>4, MadeType
  <2>. QED
    BY <1>1, <1>2, <1>4, <2>1, <2>2, MadeOpens
<1>. QED
  BY <1>3, <1>4

\* The request of a recovery is answered,
LEMMA RecoversOpen ==
  ASSUME IInv, OpenInv, IInv', RecoversAlone, Recovers
  PROVE  OpenInv'
<1>1. /\ TypeOK /\ Rests(Now, mem, queue, recovery, native)
      /\ recovery # None /\ recovery.at # "load" /\ flight = None
      /\ Shaped(mem) /\ queue \in Queues
  BY Typed DEF IInv, Recovers, RecoversAlone
<1>2. CASE Takes(native, RecoveryFlight)
  <2> DEFINE x == recovery.tail
             m == SealAcknowledged(mem, x)
             p == RecoveredQueue
  <2>1. native' = Made(native, RecoveryFlight) /\ RecoveryEnds(m, p, TRUE)
    BY <1>2 DEF Recovers, RecoveredQueue
  <2>2. native' \in Stores /\ Opens(Now, mem, queue, None, native', Here)
    BY <1>1, <1>2, <2>1, RecoveryMadeOpens
  <2>3. /\ p \in Queues /\ Lessened(queue, p)
    <3>1. /\ p \in Queues /\ p.terminal = queue.terminal
          /\ p.interrupted \in {None, queue.interrupted}
          /\ p.sealing => queue.sealing
      BY <1>1, RecoveredQueueFields
    <3>2. p.sealId = queue.sealId \/ (p.sealId = None /\ ~p.sealing)
      BY <1>1, RecoveredQueueFields
    <3>. QED
      BY <3>1, <3>2 DEF Lessened
  <2>4. Before(Now, mem, queue, x)
    BY <1>1, RecoveryReady
  <2>5. Known(Now, mem, x)
    BY <1>1 DEF Rests, LoadedFirst
  <2>6. Unchanged(mem, x) => ~p.sealing
    <3>1. Unchanged(mem, x) => ~SealServed(queue, x.id).sealing
      BY <1>1, <2>4, ServedGivesUp
    <3>2. SealServed(queue, x.id) \in Queues
      <4>1. Eased(queue, SealServed(queue, x.id))
        BY <1>1, Easings
      <4>. QED
        BY <4>1 DEF Eased
    <3>3. p.sealing = SealServed(queue, x.id).sealing
      BY <3>2 DEF RecoveredQueue, Queues
    <3>. QED
      BY <3>1, <3>3
  <2>7. Shaped(m)
    BY <1>1, ClearedFields DEF SealAcknowledged
  <2> HIDE DEF p
  <2>8. Runs(Now) => x.version[RunningText(Now)] = 0
    BY <2>4 DEF Before
  <2>9. Opens(Now, m, p, None, native', Here)
    BY <1>1, <2>2, <2>3, <2>5, <2>6, <2>8, SealOpens
  <2> HIDE DEF m, x
  <2>10. Here'.live = Here.live /\ Here'.recovered
    BY <2>1, HereFields DEF RecoveryEnds
  <2>11. Opens(Now, m, p, None, native', Here')
    BY <2>9, <2>10, OpensRecovered
  <2>. QED
    BY <1>1, <2>1, <2>3, <2>7, <2>11, RecoveryEndsOpen
<1>3. CASE ~Takes(native, RecoveryFlight)
  <2>1. native' = native /\ RecoveryEnds(mem, KeptForRetry, FALSE)
    BY <1>3 DEF Recovers
  <2>2. Opens(Now, mem, queue, None, native', Here)
    BY <1>1, <2>1, RecoveryMadeOpens
  <2>. QED
    BY <1>1, <2>1, <2>2, KeptOpens
<1>. QED
  BY <1>2, <1>3

\* or fails.
LEMMA RecoveryFailsOpen ==
  ASSUME IInv, OpenInv, IInv', RecoversAlone, NEW lost \in BOOLEAN, RecoveryFails(lost)
  PROVE  OpenInv'
<1>1. /\ recovery # None /\ recovery.at # "load"
      /\ native' = native
           \/ (Takes(native, RecoveryFlight) /\ native' = Made(native, RecoveryFlight))
      /\ RecoveryEnds(mem, KeptForRetry, FALSE)
  BY DEF RecoveryFails
<1>2. Opens(Now, mem, queue, None, native', Here)
  BY <1>1, RecoveryMadeOpens
<1>. QED
  BY <1>1, <1>2, KeptOpens

\* A session of the past is opened.
LEMMA OpenHistoryOpens ==
  ASSUME IInv, OpenInv, NEW seal \in BOOLEAN, OpenHistory(seal)
  PROVE  OpenInv'
<1> DEFINE r == Recovering(seal, FALSE)
           p == [queue EXCEPT !.recovering = TRUE]
<1>1. /\ queue \in Queues /\ Opens(Now, mem, queue, recovery, native, Here)
  BY Typed DEF IInv, OpenInv
<1>2. /\ ~Here.live /\ recovery = None /\ (seal \/ ~Here.recovered)
      /\ r # None /\ r.at = "load" /\ r.seal = seal
      /\ recovery' = r /\ queue' = p
      /\ Now' = Now /\ Here' = Here /\ mem' = mem /\ native' = native /\ flight' = flight
  <2>1. r \in Recoveries /\ r.at = "load" /\ r.seal = seal
    BY DEF Recovering, Recoveries
  <2>2. r # None
    BY <2>1, Apart
  <2>. QED
    BY <2>1, <2>2 DEF OpenHistory, turnVars, Now, Here
<1>3. /\ p.interrupted = queue.interrupted /\ p.terminal = queue.terminal
      /\ p.sealing = queue.sealing /\ p.sealId = queue.sealId
  BY <1>1 DEF Queues
<1>4. Asked(Now, mem, queue, flight, native, Here)
  BY DEF OpenInv
<1> HIDE DEF r, p
<1>5. Lessened(queue, p)
  BY <1>3 DEF Lessened
<1>6. Opens(Now, mem, p, None, native, Here)
  BY <1>1, <1>2, <1>5, LessenedOpens
<1>7. Quiet(Now, mem, native, Here) /\ Loads(Now, mem, p, None, native, Here)
  BY <1>6 DEF Opens
<1>8. Loads(Now, mem, p, r, native, Here)
  BY <1>2, <1>7 DEF Loads, Quiet, Runs
<1>9. Opens(Now, mem, p, r, native, Here)
  BY <1>6, <1>8 DEF Opens
<1>10. Asked(Now, mem, p, flight, native, Here)
  BY <1>3, <1>4 DEF Asked, Written
<1>. QED
  BY <1>2, <1>9, <1>10 DEF OpenInv

-----------------------------------------------------------------------------
(* The events. *)

\* What an event that asks for a seal or not does to the turns: texts stay, or
\* wait with their turn; a tail that began one holds some of it; the name of a
\* turn that began is changed for another only when it holds nothing or with a
\* seal; and the turn that runs stays in the live tail, or is a new one there.
Passes(w, u, m, o, seals) ==
  /\ o.closed = m.closed => Carries(Held(m), o.version)
  /\ o.started => Held(o) # {}
  /\ ~o.started => ~m.started /\ o.closed = m.closed /\ (Held(o) # {} => Held(m) # {})
  /\ o.id = m.id => /\ Held(o) # {} => Held(m) # {}
                    /\ m.ended => o.ended
                    /\ o.started => m.started
  /\ o.closed = m.closed /\ o.id # m.id => seals \/ ~m.started \/ Held(m) = {}
  /\ w.phase \in {"stopped", "settled"} /\ u.phase \notin {"stopped", "settled"} => o.ended
  /\ seals => Over(u, o)
  /\ Runs(u) =>
       \/ /\ Runs(w) /\ u.turn = w.turn /\ o.closed = m.closed
          /\ ~m.ended => ~o.ended
          /\ m.started => o.started /\ o.id = m.id
       \/ /\ u.turn = w.turn + 1 /\ ~o.ended /\ o.started /\ RunningText(u) \in Held(o)

\* A name that was given is the name of the live tail after an event only if
\* it was before, and then no turn is put aside.
LEMMA GivenStays ==
  ASSUME NEW w, NEW u, NEW m, Shaped(m), NEW o, Moves(w, u, m, o), NEW n, Lined(w, m, n),
         NEW id \in Names, Spent(w, id)
  PROVE  Spent(u, id) /\ (id = o.id => o.id = m.id /\ o.closed = m.closed)
BY DEF Moves

\* A tail that is over under a name still is while it has the name.
LEMMA OverPasses ==
  ASSUME NEW w, NEW u, NEW m, NEW o, NEW seals, Passes(w, u, m, o, seals),
         o.id = m.id, Over(w, m)
  PROVE  Over(u, o)
BY DEF Passes, Over

\* Nothing has come yet of a turn that begins.
LEMMA NothingOfIt ==
  ASSUME NEW w, Timely(w), NEW u, Timely(u), Runs(u), u.turn = w.turn + 1,
         NEW v \in Versions, Within(w, v)
  PROVE  RunningText(u) \in Entries /\ v[RunningText(u)] = 0
<1> DEFINE t == RunningText(u)
<1>1. t \in Entries /\ t[1] = u.turn /\ t[2] = "text"
  BY RunningTextIs DEF RunningText
<1>2. w.turn \in Nat
  BY TranscriptBounds DEF Timely
<1>3. t[1] > w.turn
  BY <1>1, <1>2
<1>4. w.seen[t] = 0
  BY <1>1, <1>3 DEF Timely
<1>5. v[t] <= 0 /\ v[t] \in Nat
  BY <1>1, <1>4, VersionNat DEF Within, Limit
<1>. QED
  BY <1>1, <1>5

\* The text of the turn that runs, after an event: it ran before, or nothing
\* of it is on disk, in what was loaded or in a request.
LEMMA RunningOrNew ==
  ASSUME NEW w, Timely(w), NEW u, Timely(u), Runs(u), NEW m, Shaped(m), NEW o, NEW seals,
         Passes(w, u, m, o, seals), NEW n \in Stores, Based(w, m, n), OnDisk(n)
  PROVE  /\ RunningText(u) \in Entries
         /\ \/ /\ Runs(w) /\ RunningText(u) = RunningText(w) /\ o.closed = m.closed
               /\ ~m.ended => ~o.ended
               /\ m.started => o.started /\ o.id = m.id
            \/ /\ ~o.ended /\ o.started /\ RunningText(u) \in Held(o)
               /\ n.stored[RunningText(u)] = 0 /\ n.sealed[RunningText(u)] = None
               /\ \A v \in Versions : Within(w, v) => v[RunningText(u)] = 0
<1>1. RunningText(u) \in Entries
  BY RunningTextIs
<1>2. CASE /\ Runs(w) /\ u.turn = w.turn /\ o.closed = m.closed
           /\ ~m.ended => ~o.ended
           /\ m.started => o.started /\ o.id = m.id
  BY <1>1, <1>2 DEF RunningText
<1>3. CASE u.turn = w.turn + 1 /\ ~o.ended /\ o.started /\ RunningText(u) \in Held(o)
  <2>1. \A v \in Versions : Within(w, v) => v[RunningText(u)] = 0
    BY <1>3, NothingOfIt
  <2>2. n.stored[RunningText(u)] = 0
    BY <2>1, VersionNat DEF Based
  <2>3. n.sealed[RunningText(u)] = None
    BY <1>1, <2>2 DEF OnDisk
  <2>. QED
    BY <1>1, <1>3, <2>1, <2>2, <2>3
<1>. QED
  BY <1>2, <1>3 DEF Passes

\* The record after an event that asks for a seal or not,
Handed(q, p, o, seals) ==
  /\ p.interrupted = q.interrupted /\ p.terminal = q.terminal
  /\ seals => p.sealing /\ p.sealId = o.id
  /\ ~seals => p.sealing = q.sealing /\ p.sealId = q.sealId

\* and the recovery s: the one under way, or the first.
Joins(r, s, c) ==
  s # None =>
    \/ r # None /\ s.at = r.at /\ s.tail = r.tail /\ s.seal = r.seal
    \/ r = None /\ s.at = "load" /\ ~s.seal /\ ~c.recovered

\* What was loaded comes as before in an event.
LEMMA BeforePasses ==
  ASSUME NEW w, Timely(w), NEW u, Timely(u), NEW m, Shaped(m), NEW o,
         NEW seals \in BOOLEAN, Moves(w, u, m, o), Passes(w, u, m, o, seals),
         NEW q, NEW p, Handed(q, p, o, seals), NEW n \in Stores,
         Lined(w, m, n), Based(w, m, n), OnDisk(n),
         NEW x \in Tails, Known(w, m, x), Before(w, m, q, x)
  PROVE  Before(u, o, p, x)
<1>1. x.id \in Names /\ x.version \in Versions /\ Spent(w, x.id) /\ Within(w, x.version)
  BY DEF Known, Tails
<1>2. Runs(u) => x.version[RunningText(u)] = 0
  BY <1>1, RunningOrNew DEF Before
<1>3. x.id = o.id /\ p.sealing => p.sealId = x.id
  <2> SUFFICES ASSUME x.id = o.id, p.sealing PROVE p.sealId = x.id
    OBVIOUS
  <2>1. o.id = m.id
    BY <1>1, GivenStays
  <2>2. CASE seals
    BY <2>2 DEF Handed
  <2>3. CASE ~seals
    BY <2>1, <2>3 DEF Before, Handed
  <2>. QED
    BY <2>2, <2>3
<1>. QED
  BY <1>2, <1>3 DEF Before

\* A text that is sealed is held after an event if it was before, and its name
\* is not one that comes with the event.
LEMMA SealedStays ==
  ASSUME NEW w, NEW u, NEW m, Shaped(m), NEW o, NEW seals, Moves(w, u, m, o),
         Passes(w, u, m, o, seals), o.closed = m.closed, NEW n \in Stores, Closes(w, n),
         NEW e \in Present(m.version), e[2] = "text", n.sealed[e] # None
  PROVE  /\ e \in Present(o.version)
         /\ o.id # m.id => n.sealed[e] # o.id
<1>1. e \in Entries /\ o.version[e] > 0
  BY DEF Passes, Carries, Held, Present
<1>2. n.sealed[e] \in Names /\ Spent(w, n.sealed[e])
  BY <1>1 DEF Stores, Closes
<1>. QED
  BY <1>1, <1>2 DEF Present, Moves

\* An event keeps all but the request under way.
LEMMA PassesOpens ==
  ASSUME NEW w, NEW u, Timely(u), NEW m, Shaped(m), NEW o, Shaped(o), NEW seals \in BOOLEAN,
         Moves(w, u, m, o), Passes(w, u, m, o, seals),
         NEW q \in Queues, NEW p, Handed(q, p, o, seals), NEW r, NEW s, NEW n \in Stores,
         NEW c, NEW d, d.recovered = c.recovered, d.live, Joins(r, s, c),
         Rests(w, m, q, r, n), Opens(w, m, q, r, n, c),
         q.interrupted \in Tails \union {None}, q.terminal \in Tails \union {None},
         r # None /\ r.at # "load" => r.tail \in Tails
  PROVE  Opens(u, o, p, s, n, d)
<1>1. /\ Timely(w) /\ Lined(w, m, n) /\ Based(w, m, n) /\ OnDisk(n)
      /\ LoadedFirst(w, m, q, r, n)
      /\ Closes(w, n) /\ Wanted(w, m, q) /\ Named(m, n) /\ EndsOver(w, m, n)
      /\ Running(w, m, n, c) /\ Loads(w, m, q, r, n, c)
  BY DEF Rests, Opens
<1>2. /\ m.id \in Names \union {None} /\ o.id \in Names \union {None}
      /\ q.sealId \in Names \union {None}
      /\ n.tail # None => n.tail.id \in Names
      /\ m.version \in Versions
      /\ \A e \in Entries : n.sealed[e] \in Names \union {None}
      /\ \A i \in DOMAIN m.closed : m.closed[i].version \in Versions
  BY ClosedTypes DEF Shaped, LiveTails, Queues, Stores, StoredTails
<1>3. m.id # None => o.id # None
  BY <1>2, Apart DEF Moves
<1>4. Closes(u, n)
  <2>1. \A e \in Entries : n.sealed[e] # None => Spent(u, n.sealed[e])
    BY <1>1, <1>2, GivenStays DEF Closes
  <2>. QED
    BY <1>1, <2>1 DEF Closes
<1>5. Wanted(u, o, p)
  <2>1. CASE seals
    <3>1. o.id # None => Spent(u, o.id)
      BY <1>1, <1>2, GivenStays DEF Lined, Moves
    <3>. QED
      BY <2>1, <3>1 DEF Wanted, Handed, Passes
  <2>2. CASE ~seals
    <3> SUFFICES ASSUME p.sealing, p.sealId # None
                 PROVE  Spent(u, p.sealId) /\ o.id # None /\ (p.sealId = o.id => Over(u, o))
      BY DEF Wanted
    <3>1. /\ p.sealId = q.sealId /\ p.sealId \in Names /\ Spent(w, p.sealId) /\ m.id # None
          /\ p.sealId = m.id => Over(w, m)
      BY <1>1, <1>2, <2>2 DEF Wanted, Handed
    <3>2. Spent(u, p.sealId) /\ (p.sealId = o.id => o.id = m.id)
      BY <1>1, <3>1, GivenStays
    <3>. QED
      BY <1>3, <3>1, <3>2, OverPasses
  <2>. QED
    BY <2>1, <2>2
<1>6. n.tail # None /\ n.tail.id = o.id => o.id = m.id /\ o.closed = m.closed
  BY <1>1, <1>2, GivenStays DEF Based
<1>7. o.closed = m.closed /\ SomeSealed(m.version, n) => SomeSealed(o.version, n)
  <2> SUFFICES ASSUME o.closed = m.closed, NEW e \in Present(m.version), e[2] = "text",
                      n.sealed[e] # None
               PROVE  SomeSealed(o.version, n)
    BY DEF SomeSealed
  <2>1. e \in Present(o.version)
    BY <1>1, SealedStays
  <2>. QED
    BY <2>1 DEF SomeSealed
<1>8. Named(o, n)
  <2>1. o.started => Held(o) # {}
    BY DEF Passes
  <2>2. o.id = None => Held(o) = {}
    BY <1>1, <1>2, Apart DEF Named, Moves, Passes
  <2>3. ~o.started /\ Held(o) # {} => SomeSealed(o.version, n)
    BY <1>1, <1>7 DEF Named, Passes
  <2>4. n.tail # None /\ n.tail.id = o.id /\ n.tail.entries = {} /\ Held(o) # {} =>
          SomeSealed(o.version, n)
    BY <1>1, <1>6, <1>7 DEF Named, Passes
  <2>. QED
    BY <2>1, <2>2, <2>3, <2>4 DEF Named
<1>9. EndsOver(u, o, n)
  BY <1>1, <1>6, OverPasses DEF EndsOver
<1>10. Running(u, o, n, d)
  <2> SUFFICES ASSUME Runs(u) PROVE Running(u, o, n, d)
    BY DEF Running
  <2> DEFINE t == RunningText(u)
  <2>1. CASE /\ Runs(w) /\ t = RunningText(w) /\ o.closed = m.closed
             /\ ~m.ended => ~o.ended
             /\ m.started => o.started /\ o.id = m.id
    <3>1. t \in Held(m) /\ t[2] = "text" /\ t \in Entries
      BY <1>1, <2>1, RunningTextIs DEF Running
    <3>2. t \in Held(o)
      BY <2>1, <3>1 DEF Passes, Carries, Held, Present
    <3>. QED
      BY <1>1, <2>1, <3>2 DEF Running
  <2>2. CASE /\ ~o.ended /\ o.started /\ t \in Held(o)
             /\ n.stored[t] = 0 /\ n.sealed[t] = None
             /\ \A v \in Versions : Within(w, v) => v[t] = 0
    <3>1. \A i \in DOMAIN m.closed : m.closed[i].version[t] = 0
      BY <1>1, <1>2, <2>2 DEF Lined
    <3>2. m.version[t] = 0
      BY <1>1, <1>2, <2>2 DEF Lined
    <3>3. \A i \in DOMAIN o.closed : o.closed[i].version[t] = 0
      <4>1. /\ \A k \in DOMAIN m.closed : o.closed[k] = m.closed[k]
            /\ \A k \in DOMAIN o.closed \ DOMAIN m.closed : o.closed[k].version = m.version
        BY ClosedMoves
      <4>. QED
        BY <3>1, <3>2, <4>1
    <3>4. n.tail # None => t \notin n.tail.entries
      BY <1>1, <2>2 DEF OnDisk
    <3>. QED
      BY <2>2, <3>3, <3>4 DEF Running
  <2>3. \/ /\ Runs(w) /\ t = RunningText(w) /\ o.closed = m.closed
           /\ ~m.ended => ~o.ended
           /\ m.started => o.started /\ o.id = m.id
        \/ /\ ~o.ended /\ o.started /\ t \in Held(o)
           /\ n.stored[t] = 0 /\ n.sealed[t] = None
           /\ \A v \in Versions : Within(w, v) => v[t] = 0
    BY <1>1, RunningOrNew
  <2>. QED
    BY <2>1, <2>2, <2>3
<1>11. Loads(u, o, p, s, n, d)
  <2>1. \A x \in Tails : Known(w, m, x) /\ Before(w, m, q, x) => Before(u, o, p, x)
    BY <1>1, BeforePasses
  <2>2. /\ p.interrupted # None => Before(u, o, p, p.interrupted)
        /\ p.terminal # None => Before(u, o, p, p.terminal)
    BY <1>1, <2>1 DEF Loads, LoadedFirst, Handed
  <2>3. s # None /\ s.at # "load" => Before(u, o, p, s.tail)
    BY <1>1, <2>1 DEF Loads, LoadedFirst, Joins
  <2>4. s # None /\ ~s.seal => ~d.recovered
    BY <1>1 DEF Loads, Joins
  <2>5. s # None /\ s.seal => r # None /\ r.seal /\ s.at = r.at
    BY DEF Joins
  <2>6. s # None /\ s.seal /\ Runs(u) => n.stored[RunningText(u)] = 0
    BY <1>1, <2>5, RunningOrNew DEF Loads
  <2>7. s # None /\ s.seal /\ s.at = "load" /\ n.tail # None /\ n.tail.id = o.id
          /\ n.tail.entries = {} => ~o.started \/ o.ended
    BY <1>1, <1>6, <2>5 DEF Loads, Passes
  <2>. QED
    BY <2>2, <2>3, <2>4, <2>6, <2>7 DEF Loads
<1>12. Quiet(u, o, n, d)
  BY DEF Quiet
<1>. QED
  BY <1>4, <1>5, <1>8, <1>9, <1>10, <1>11, <1>12 DEF Opens

\* The request under way is asked for as before.
LEMMA PassesAsked ==
  ASSUME NEW w, NEW u, Timely(u), NEW m, Shaped(m), NEW o, Shaped(o), NEW seals \in BOOLEAN,
         Moves(w, u, m, o), Passes(w, u, m, o, seals),
         NEW q, NEW p, Handed(q, p, o, seals), NEW r, NEW n \in Stores,
         NEW c, NEW d, d.recovered = c.recovered, d.live,
         Rests(w, m, q, r, n), Opens(w, m, q, r, n, c),
         NEW f, Waits(w, m, q, f, n), Asked(w, m, q, f, n, c)
  PROVE  Asked(u, o, p, f, n, d)
<1> SUFFICES ASSUME f \in Requests PROVE Asked(u, o, p, f, n, d)
  BY DEF Asked
<1> DEFINE x == f.tail
           t == RunningText(u)
<1>1. /\ Timely(w) /\ Lined(w, m, n) /\ Based(w, m, n) /\ OnDisk(n)
      /\ Closes(w, n) /\ Named(m, n) /\ Running(w, m, n, c)
  BY DEF Rests, Opens
<1>2. /\ x \in Tails /\ x.id \in Names /\ x.version \in Versions
      /\ Spent(w, x.id) /\ Within(w, x.version)
  BY DEF Waits, Known, Requests, Tails
<1>3. x.id = o.id => o.id = m.id
  BY <1>1, <1>2, GivenStays
<1>4. Runs(u) => t \in Entries
        /\ \/ /\ Runs(w) /\ t = RunningText(w) /\ o.closed = m.closed
              /\ ~m.ended => ~o.ended
              /\ m.started => o.started /\ o.id = m.id
           \/ x.version[t] = 0 /\ n.stored[t] = 0
  BY <1>1, <1>2, RunningOrNew
<1>5. f.at = "checkpoint" => Written(u, o, p, f, n, d)
  <2> SUFFICES ASSUME f.at = "checkpoint" PROVE Written(u, o, p, f, n, d)
    OBVIOUS
  <2>1. Written(w, m, q, f, n, c)
    BY DEF Asked
  <2>2. x.ended /\ x.id = o.id => Over(u, o)
    BY <1>3, <2>1, OverPasses DEF Written
  <2>3. p.sealing /\ p.sealId = x.id /\ x.id # o.id /\ o.closed = << >> =>
          Foreign(o.version, o.id, n)
    <3> SUFFICES ASSUME p.sealing, p.sealId = x.id, x.id # o.id, o.closed = << >>
                 PROVE  Foreign(o.version, o.id, n)
      OBVIOUS
    <3>1. ~seals /\ q.sealing /\ q.sealId = x.id
      BY DEF Handed
    <3>2. o.closed = m.closed /\ m.closed = << >>
      <4>1. CASE o.closed = m.closed
        BY <4>1
      <4>2. CASE o.closed = Append(m.closed, Snapshot(m))
        <5>1. m.closed \in Seq(Tails)
          BY ClosedTypes
        <5>. QED
          BY <4>2, <5>1
      <4>. QED
        BY <4>1, <4>2 DEF Moves
    <3>2a. \A b \in Present(m.version) : b[2] = "text" /\ n.sealed[b] # None =>
            b \in Present(o.version) /\ (o.id # m.id => n.sealed[b] # o.id)
      BY <1>1, <3>2, SealedStays
    <3>3. CASE x.id # m.id
      <4>1. PICK e \in Present(m.version) : e[2] = "text" /\ n.sealed[e] # None /\ n.sealed[e] # m.id
        BY <2>1, <3>1, <3>2, <3>3 DEF Written, Foreign
      <4>2. e \in Present(o.version) /\ n.sealed[e] # o.id
        BY <3>2a, <4>1
      <4>. QED
        BY <4>1, <4>2 DEF Foreign
    <3>4. CASE x.id = m.id
      <4>1. Paired(Present(x.version)) /\ Carries(Present(x.version), m.version)
        BY <3>4 DEF Waits, Sent, Leads
      <4>2. PICK e \in Present(x.version) : TRUE
        BY <2>1 DEF Written
      <4>3. e \in Entries
        BY <4>2 DEF Present
      <4>4. TextOf(e) \in Held(m)
        BY <4>1, <4>2, <4>3, TextIsEntry DEF Paired, Carries, Held, Present
      <4>5. ~m.started
        BY <3>1, <3>2, <3>4, <4>4 DEF Passes
      <4>6. PICK b \in Present(m.version) : b[2] = "text" /\ n.sealed[b] # None
        BY <1>1, <4>4, <4>5 DEF Named, SomeSealed
      <4>7. o.id # m.id
        BY <3>4
      <4>8. b \in Present(o.version) /\ n.sealed[b] # o.id
        BY <3>2a, <4>6, <4>7
      <4>. QED
        BY <4>6, <4>8 DEF Foreign
    <3>. QED
      BY <3>3, <3>4
  <2>4. Runs(u) /\ ~d.recovered /\ t \in Present(x.version) => x.id = o.id
    BY <1>1, <1>4, <2>1 DEF Written, Running, Present
  <2>. QED
    BY <2>1, <2>2, <2>3, <2>4 DEF Written
<1>6. Runs(u) /\ f.at \in {"checkpoint", "seal"} /\ t \in Present(x.version) => o.closed = << >>
  BY <1>4 DEF Asked, Present
<1>7. Runs(u) /\ f.at = "seal" /\ t \in Present(x.version) => Foreign(x.version, x.id, n)
  BY <1>4 DEF Asked, Present
<1>8. Runs(u) /\ f.at \in {"checkpoint", "closing", "seal", "closed"} /\ x.version[t] = 0 =>
        n.stored[t] = 0
  BY <1>4 DEF Asked
<1>. QED
  BY <1>5, <1>6, <1>7, <1>8 DEF Asked

\* A turn of another name begins in three ways: in the tail of a turn that has
\* not ended, under its own name in a tail that holds nothing of a turn, or in
\* the place of one that ended.
LEMMA BegunTurns ==
  ASSUME NEW m, Shaped(m), NEW id, m.id # id, NEW n, n = Begun(m, id)
  PROVE  \/ n = m /\ m.started /\ Held(m) # {} /\ ~m.ended
         \/ /\ ~m.started \/ Held(m) = {}
            /\ n.id = id /\ n.started /\ ~n.ended /\ n.closed = m.closed /\ n.version = m.version
         \/ /\ n.id = id /\ n.started /\ ~n.ended /\ n.closed = Append(m.closed, Snapshot(m))
<1>1. m \in LiveTails
  BY DEF Shaped
<1>2. CASE m.started /\ Held(m) # {} /\ ~m.ended
  BY <1>2 DEF Begun
<1>3. CASE ~m.started \/ Held(m) = {}
  <2>1. n = [m EXCEPT !.id = id, !.started = TRUE, !.ended = FALSE, !.revision = @ + 1]
    BY <1>3 DEF Begun
  <2>. QED
    BY <1>1, <1>3, <2>1 DEF LiveTails
<1>4. CASE m.started /\ Held(m) # {} /\ m.ended
  <2> DEFINE x == Append(m.closed, Snapshot(m))
             a == [Emptied(m) EXCEPT !.closed = x]
  <2>1. a = [Emptied(m) EXCEPT !.closed = Append(@, Snapshot(m))]
    BY <1>1 DEF Emptied, LiveTails
  <2>2. n = [a EXCEPT !.id = id, !.started = TRUE, !.ended = FALSE, !.revision = @ + 1]
    BY <1>4, <2>1 DEF Begun
  <2> HIDE DEF x
  <2>3. n.id = id /\ n.started /\ ~n.ended /\ n.closed = x
    BY <1>1, <2>2 DEF Emptied, LiveTails
  <2>. QED
    BY <2>3 DEF x
<1>. QED
  BY <1>1, <1>2, <1>3, <1>4 DEF LiveTails

\* A turn that is put aside makes the turns that wait more.
LEMMA AsideIsMore ==
  ASSUME NEW m, Shaped(m)
  PROVE  Append(m.closed, Snapshot(m)) # m.closed
<1>1. m.closed \in Seq(Tails)
  BY ClosedTypes
<1>2. Len(Append(m.closed, Snapshot(m))) = Len(m.closed) + 1 /\ Len(m.closed) \in Nat
  BY <1>1
<1>. QED
  BY <1>2

\* What an upsert of e in the version v holds and keeps.
LEMMA UpsertedHolds ==
  ASSUME NEW m, Shaped(m), NEW e \in Entries, NEW v \in 1 .. MaxVersion,
         NEW o, o = Upserted(m, e, v)
  PROVE  /\ Shaped(o) /\ o.id = m.id /\ o.started = m.started /\ o.ended = m.ended
         /\ o.closed = m.closed
         /\ e \in Held(o) /\ Held(m) \subseteq Held(o)
<1>1. LET n == Upserted(m, e, v)
      IN  /\ Shaped(n)
          /\ n.id = m.id /\ n.started = m.started /\ n.ended = m.ended
          /\ n.closed = m.closed
          /\ n.version = [m.version EXCEPT ![e] = Larger(@, v)]
  BY UpsertedFields
<1>2. m.version \in [Entries -> 0 .. MaxVersion] /\ v \in Nat /\ v > 0
      /\ \A b \in Entries : m.version[b] \in Nat
  BY ClosedTypes, VersionNat, TranscriptBounds DEF Versions
<1>3. o.version = [m.version EXCEPT ![e] = Larger(@, v)]
  BY <1>1
<1>4. \A b \in Entries : b # e => o.version[b] = m.version[b]
  BY <1>2, <1>3
<1>5. o.version[e] > 0
  BY <1>2, <1>3 DEF Larger
<1>6. e \in Held(o) /\ Held(m) \subseteq Held(o)
  BY <1>4, <1>5 DEF Held, Present
<1>. QED
  BY <1>1, <1>6

\* A turn begins.
LEMMA TurnBeginsPasses ==
  ASSUME IInv, TurnBegins, Named(mem, native)
  PROVE  Passes(Now, Now', mem, Beginning(turn + 1), FALSE)
<1> DEFINE k == turn + 1
           n == Begun(mem, StartOf(k))
           p == Upserted(n, <<k, "status">>, 1)
           o == Beginning(k)
<1>1. /\ TypeOK /\ Shaped(mem) /\ Lined(Now, mem, native)
  BY Typed DEF IInv, Rests
<1>2. /\ turn \in Nat /\ k \in Turns /\ phase = "idle" /\ turn' = k /\ phase' = "running"
  <2>1. turn < MaxTurns /\ turn \in 0 .. MaxTurns
    BY <1>1, Typed DEF TurnBegins
  <2>2. turn \in Nat /\ k \in Turns
    BY <2>1, TranscriptBounds DEF Turns
  <2>. QED
    BY <2>2 DEF TurnBegins
<1>3. /\ <<k, "status">> \in Entries /\ <<k, "text">> \in Entries
      /\ StartOf(k) \in Names /\ 1 \in 1 .. MaxVersion
  BY <1>2, EntryTypes, TranscriptBounds
<1>4. mem.id # StartOf(k)
  <2>1. ~Spent(Now, StartOf(k))
    BY <1>2, NowFields, NameParts DEF Spent
  <2>. QED
    BY <1>1, <1>3, <2>1, Apart DEF Lined
<1>5. Shaped(n)
  BY <1>1, <1>2, MemShaped
<1>6. \/ n = mem /\ mem.started /\ Held(mem) # {} /\ ~mem.ended
      \/ /\ ~mem.started \/ Held(mem) = {}
         /\ n.id = StartOf(k) /\ n.started /\ ~n.ended
         /\ n.closed = mem.closed /\ n.version = mem.version
      \/ /\ n.id = StartOf(k) /\ n.started /\ ~n.ended
         /\ n.closed = Append(mem.closed, Snapshot(mem))
  BY <1>1, <1>4, BegunTurns
<1>7. o = Upserted(p, <<k, "text">>, 1) /\ RunningText(Now') = <<k, "text">>
  BY <1>2, NowFields DEF Beginning, RunningText
<1> HIDE DEF n, o
<1>8. /\ Shaped(p) /\ p.id = n.id /\ p.started = n.started /\ p.ended = n.ended
      /\ p.closed = n.closed /\ Held(n) \subseteq Held(p)
  BY <1>3, <1>5, UpsertedHolds
<1> HIDE DEF p
<1>9. /\ o.id = n.id /\ o.started = n.started /\ o.ended = n.ended
      /\ o.closed = n.closed /\ <<k, "text">> \in Held(o) /\ Held(p) \subseteq Held(o)
  BY <1>3, <1>7, <1>8, UpsertedHolds
<1>10. o.started /\ ~o.ended /\ Held(n) \subseteq Held(o)
  BY <1>6, <1>8, <1>9
<1>11. o.closed = mem.closed => Held(mem) \subseteq Held(o)
  <2>1. o.closed = mem.closed => Held(n) = Held(mem)
    BY <1>1, <1>6, <1>9, AsideIsMore DEF Held
  <2>. QED
    BY <1>10, <2>1
<1>12. o.closed = mem.closed => Carries(Held(mem), o.version)
  BY <1>11 DEF Carries, Held, Present
<1>13. o.id = mem.id => Held(mem) # {} /\ mem.started /\ ~mem.ended
  BY <1>4, <1>6, <1>9
<1>14. o.closed = mem.closed /\ o.id # mem.id => ~mem.started \/ Held(mem) = {}
  BY <1>1, <1>6, <1>9, AsideIsMore
<1>15. Runs(Now') => Now'.turn = Now.turn + 1 /\ RunningText(Now') \in Held(o)
  BY <1>2, <1>7, <1>9, NowFields
<1>16. Now.phase = "idle"
  BY <1>2, NowFields
<1>. QED
  BY <1>9, <1>10, <1>12, <1>13, <1>14, <1>15, <1>16 DEF Passes, o

\* The text of a turn grows.
LEMMA AddsPasses ==
  ASSUME IInv, NEW k \in Turns, k \in Own(Now), NEW reached, Adds(k, reached),
         NEW v, v = seen[<<k, "text">>] + 1, Named(mem, native)
  PROVE  Passes(Now, Now', mem, Adding(k, v), FALSE)
<1> DEFINE a == <<k, "text">>
           n == Provisional(mem, LateIn(k, v))
           o == Adding(k, v)
<1>1. /\ TypeOK /\ Shaped(mem) /\ Lined(Now, mem, native) /\ a \in Entries
  BY Typed, EntryTypes DEF IInv, Rests
<1>2. v \in 1 .. MaxVersion /\ LateIn(k, v) \in Names /\ seen[a] \in Nat
  <2>1. seen[a] \in Nat /\ seen[a] + 1 <= MaxVersion
    BY <1>1, Typed, VersionNat DEF Adds
  <2>2. v \in 1 .. MaxVersion /\ v \in 0 .. MaxVersion
    BY <2>1, TranscriptBounds
  <2>. QED
    BY <2>1, <2>2, EntryTypes
<1>3. mem.id # LateIn(k, v)
  <2>1. ~(v <= seen[a])
    BY <1>2
  <2>2. ~Spent(Now, LateIn(k, v))
    BY <2>1, NowFields, NameParts DEF Spent
  <2>. QED
    BY <1>1, <1>2, <2>2, Apart DEF Lined
<1>4. Shaped(n) /\ (  \/ n = mem /\ mem.started
                      \/ /\ ~mem.started /\ n.id = LateIn(k, v) /\ n.started /\ ~n.ended
                         /\ n.closed = mem.closed /\ n.version = mem.version)
  <2>1. Shaped(n)
    BY <1>1, <1>2, ProvisionalFields
  <2>2. mem \in LiveTails
    BY <1>1 DEF Shaped
  <2>3. CASE mem.started
    BY <2>1, <2>3 DEF Provisional
  <2>4. CASE ~mem.started
    <3>1. n = [mem EXCEPT !.id = LateIn(k, v), !.started = TRUE, !.ended = FALSE,
                          !.revision = @ + 1]
      BY <2>4 DEF Provisional
    <3> HIDE DEF n
    <3>2. n.id = LateIn(k, v) /\ n.started /\ ~n.ended
          /\ n.closed = mem.closed /\ n.version = mem.version
      BY <2>2, <3>1 DEF LiveTails
    <3>. QED
      BY <2>1, <2>4, <3>2
  <2>. QED
    BY <2>3, <2>4
<1>5. o = Upserted(n, a, v)
  BY DEF Adding
<1> HIDE DEF n, o
<1>6. /\ o.id = n.id /\ o.started = n.started /\ o.ended = n.ended
      /\ o.closed = n.closed /\ a \in Held(o) /\ Held(n) \subseteq Held(o)
  BY <1>1, <1>2, <1>4, <1>5, UpsertedHolds
<1>7. Held(n) = Held(mem) /\ o.closed = mem.closed /\ o.started
  BY <1>4, <1>6 DEF Held
<1>8. Carries(Held(mem), o.version)
  BY <1>6, <1>7 DEF Carries, Held, Present
<1>9. o.id = mem.id => mem.started /\ Held(mem) # {} /\ o.ended = mem.ended
  BY <1>3, <1>4, <1>6 DEF Named
<1>10. o.id # mem.id => ~mem.started
  BY <1>4, <1>6
<1>11. /\ ~mem.ended => ~o.ended
       /\ mem.started => o.started /\ o.id = mem.id
  BY <1>4, <1>6
<1>12. Now'.phase = Now.phase /\ Now'.turn = Now.turn
  BY NowFields DEF Adds, turnVars
<1>. QED
  BY <1>6, <1>7, <1>8, <1>9, <1>10, <1>11, <1>12 DEF Passes, Runs, o

\* The status of the turn goes.
LEMMA TurnSettlesPasses ==
  ASSUME IInv, TurnSettles, NEW S, S = {e \in Held(mem) : e[2] = "status"},
         Named(mem, native)
  PROVE  Passes(Now, Now', mem, Removed(mem, S), FALSE)
<1> DEFINE o == Removed(mem, S)
<1>1. /\ TypeOK /\ Shaped(mem) /\ Whole(mem, native) /\ mem.version \in Versions
  BY Typed, ClosedTypes DEF IInv, Rests
<1>2. /\ o.id = mem.id /\ o.started = mem.started /\ o.ended = mem.ended
      /\ o.closed = mem.closed
      /\ o.version = [e \in Entries |-> IF e \in S THEN 0 ELSE mem.version[e]]
  BY <1>1, RemovedFields
<1> HIDE DEF o
<1>3. Held(o) \subseteq Held(mem) /\ Carries(Held(mem), o.version)
  BY <1>2 DEF Carries, Held, Present
<1>4. Held(mem) # {} => Held(o) # {}
  <2> SUFFICES ASSUME NEW e \in Held(mem) PROVE Held(o) # {}
    OBVIOUS
  <2>1. e \in Entries /\ TextOf(e) \in Held(mem)
    BY <1>1 DEF Whole, Paired, Held, Present
  <2>2. TextOf(e) \in Entries /\ TextOf(e)[2] = "text"
    BY <2>1, TextIsEntry
  <2>3. TextOf(e) \notin S
    BY <2>2
  <2>. QED
    BY <1>2, <2>1, <2>2, <2>3 DEF Held, Present
<1>5. Now'.phase = "settled"
  BY NowFields DEF TurnSettles
<1>. QED
  BY <1>2, <1>3, <1>4, <1>5 DEF Passes, Runs, Named, o

\* The turn ends.
LEMMA TurnEndsPasses ==
  ASSUME IInv, TurnEnds, Named(mem, native)
  PROVE  Passes(Now, Now', mem, Ended(mem, MessageOf(turn)), TRUE)
<1> DEFINE o == Ended(mem, MessageOf(turn))
<1>1. /\ TypeOK /\ Shaped(mem) /\ MessageOf(turn) \in Names
  <2>1. TypeOK
    BY DEF IInv
  <2>2. turn \in Turns
    BY <2>1, TranscriptBounds DEF TypeOK, TurnEnds, Turns
  <2>. QED
    BY <2>1, <2>2, Typed, EntryTypes
<1>2. /\ o.ended /\ o.started = mem.started
      /\ o.version = mem.version /\ o.closed = mem.closed
  BY <1>1, EndedFields
<1> HIDE DEF o
<1>3. Now'.phase = "idle" /\ Held(o) = Held(mem) /\ Carries(Held(mem), o.version)
  BY <1>2, NowFields DEF TurnEnds, Held, Carries, Present
<1>. QED
  BY <1>2, <1>3 DEF Passes, Runs, Over, Named, o

\* The turn is stopped.
LEMMA StopsPasses ==
  ASSUME IInv, phase = "running", phase' = "stopped", Named(mem, native)
  PROVE  Passes(Now, Now', mem, mem, TRUE)
<1>1. Carries(Held(mem), mem.version)
  BY DEF Held, Carries, Present
<1>2. Now.phase = "running" /\ Now'.phase = "stopped"
  BY NowFields
<1>. QED
  BY <1>1, <1>2 DEF Passes, Runs, Over, Named

\* An event that moves the live tail.
LEMMA EventOpens ==
  ASSUME IInv, OpenInv, IInv', NEW o, Shaped(o), Moves(Now, Now', mem, o), Timely(Now'),
         NEW seals \in BOOLEAN, NEW reached, Handled(o, seals, reached),
         Passes(Now, Now', mem, o, seals)
  PROVE  OpenInv'
<1> DEFINE p == Handling(o, seals)
<1>1. /\ TypeOK /\ Rests(Now, mem, queue, recovery, native)
      /\ Waits(Now, mem, queue, flight, native)
      /\ Opens(Now, mem, queue, recovery, native, Here)
      /\ Asked(Now, mem, queue, flight, native, Here)
  BY DEF IInv, OpenInv
<1>2. /\ mem' = o /\ native' = native /\ Eased(p, queue') /\ Joined
      /\ recovered' = recovered /\ live' = TRUE
      /\ \/ flight' = flight
         \/ Begins(o, p, flight')
  BY <1>1, HandledRel
<1>3. /\ p.interrupted = queue.interrupted /\ p.terminal = queue.terminal
      /\ seals => p.sealing /\ p.sealId = o.id
      /\ ~seals => p.sealing = queue.sealing /\ p.sealId = queue.sealId
  BY <1>1, HandlingFields
<1>4. Handed(queue, p, o, seals)
  BY <1>3 DEF Handed
<1> HIDE DEF p
<1>5. Here'.recovered = Here.recovered /\ Here'.live
  BY <1>2, HereFields
<1>6. Joins(recovery, recovery', Here)
  <2>1. CASE recovery # None
    BY <1>1, <1>2, <2>1, JoinedType DEF Joins
  <2>2. CASE recovery = None
    <3>1. recovered => recovery' = recovery
      BY <2>2 DEF Handled
    <3>2. recovery' = None \/ recovery' = Recovering(FALSE, TRUE)
      BY <1>2, <2>2 DEF Joined
    <3>3. Recovering(FALSE, TRUE).at = "load" /\ ~Recovering(FALSE, TRUE).seal
      BY DEF Recovering
    <3>4. recovery' # None => ~Here.recovered
      BY <2>2, <3>1, HereFields
    <3>. QED
      BY <2>2, <3>2, <3>3, <3>4 DEF Joins
  <2>. QED
    BY <2>1, <2>2
<1>7. /\ Shaped(mem) /\ queue \in Queues /\ native \in Stores
      /\ queue.interrupted \in Tails \union {None} /\ queue.terminal \in Tails \union {None}
      /\ recovery # None /\ recovery.at # "load" => recovery.tail \in Tails
  <2>1. recovery # None => recovery.tail \in Tails \union {None}
    BY <1>1, Typed DEF Recoveries
  <2>. QED
    BY <1>1, <2>1, Typed DEF Queues
<1>8. Opens(Now', o, p, recovery', native, Here')
  BY <1>1, <1>4, <1>5, <1>6, <1>7, PassesOpens
<1>9. Asked(Now', o, p, flight, native, Here')
  BY <1>1, <1>4, <1>5, <1>7, PassesAsked
<1>10. Whole(o, native)
  BY <1>2 DEF IInv, Rests
<1>11. /\ Opens(Now', o, queue', recovery', native, Here')
       /\ Asked(Now', o, queue', flight', native, Here')
  BY <1>2, <1>8, <1>9, <1>10, PumpOpens
<1>. QED
  BY <1>2, <1>11 DEF OpenInv

\* The turn is stopped, and its seal is asked for.
LEMMA StopsOpen ==
  ASSUME IInv, OpenInv, IInv', Stops
  PROVE  OpenInv'
<1> DEFINE p == Asking(mem, queue)
<1>1. /\ TypeOK /\ Rests(Now, mem, queue, recovery, native)
      /\ Waits(Now, mem, queue, flight, native)
      /\ Opens(Now, mem, queue, recovery, native, Here)
      /\ Asked(Now, mem, queue, flight, native, Here)
      /\ Named(mem, native)
  BY DEF IInv, OpenInv, Opens
<1>2. /\ Eased(p, queue') /\ phase = "running" /\ phase' = "stopped"
      /\ \/ flight' = flight
         \/ Begins(mem, p, flight')
      /\ UNCHANGED <<turn, ended, mem, recovery, recovered, live, native, seen>>
  BY <1>1, StopsRel
<1>3. Handed(queue, p, mem, TRUE)
  <2>1. queue \in Queues
    BY <1>1, Typed
  <2>2. p.interrupted = queue.interrupted /\ p.terminal = queue.terminal
        /\ p.sealing /\ p.sealId = mem.id
    BY <2>1 DEF Asking, MadeDue, Queues
  <2>. QED
    BY <2>2 DEF Handed
<1> HIDE DEF p
<1>4. Here' = Here /\ Here.live
  <2>1. ~Here.live => phase = "idle"
    BY <1>1, NowFields DEF Opens, Quiet
  <2>2. Here.live \in BOOLEAN
    BY <1>1, HereFields DEF TypeOK
  <2>. QED
    BY <1>2, <2>1, <2>2 DEF Here
<1>5. Joins(recovery, recovery', Here)
  BY <1>2 DEF Joins
<1>6. /\ Shaped(mem) /\ queue \in Queues /\ native \in Stores
      /\ queue.interrupted \in Tails \union {None} /\ queue.terminal \in Tails \union {None}
      /\ recovery # None /\ recovery.at # "load" => recovery.tail \in Tails
  <2>1. recovery # None => recovery.tail \in Tails \union {None}
    BY <1>1, Typed DEF Recoveries
  <2>. QED
    BY <1>1, <2>1, Typed DEF Queues
<1>7. Moves(Now, Now', mem, mem) /\ Timely(Now')
  BY <1>1, <1>2, StaysMoves
<1>8. Passes(Now, Now', mem, mem, TRUE)
  BY <1>1, <1>2, StopsPasses
<1>9. Opens(Now', mem, p, recovery', native, Here')
  BY <1>1, <1>3, <1>4, <1>5, <1>6, <1>7, <1>8, PassesOpens
<1>10. Asked(Now', mem, p, flight, native, Here')
  BY <1>1, <1>3, <1>4, <1>6, <1>7, <1>8, PassesAsked
<1>11. Whole(mem, native)
  BY <1>1 DEF Rests
<1>12. /\ Opens(Now', mem, queue', recovery', native, Here')
       /\ Asked(Now', mem, queue', flight', native, Here')
  BY <1>2, <1>6, <1>9, <1>10, <1>11, PumpOpens
<1>. QED
  BY <1>2, <1>12 DEF OpenInv

\* Every event keeps the invariant.
LEMMA EventsOpen ==
  ASSUME IInv, OpenInv, IInv', Events
  PROVE  OpenInv'
<1>1. TypeOK /\ Named(mem, native)
  BY DEF IInv, OpenInv, Opens
<1>2. CASE TurnBegins
  <2> DEFINE o == Beginning(turn + 1)
  <2>1. /\ Shaped(o) /\ Handled(o, FALSE, FALSE)
        /\ Moves(Now, Now', mem, o) /\ Timely(Now')
    BY <1>2, TurnBeginsMoves
  <2>2. Passes(Now, Now', mem, o, FALSE)
    BY <1>1, <1>2, TurnBeginsPasses
  <2> HIDE DEF o
  <2>. QED
    BY <2>1, <2>2, EventOpens
<1>3. ASSUME NEW k \in Turns, k \in Own(Now), NEW reached, Adds(k, reached) PROVE OpenInv'
  <2> DEFINE v == seen[<<k, "text">>] + 1
             o == Adding(k, v)
  <2>1. /\ Shaped(o) /\ Handled(o, FALSE, reached)
        /\ Moves(Now, Now', mem, o) /\ Timely(Now')
    BY <1>3, AddsMoves
  <2>2. Passes(Now, Now', mem, o, FALSE)
    BY <1>1, <1>3, AddsPasses
  <2> HIDE DEF o
  <2>. QED
    BY <2>1, <2>2, EventOpens
<1>4. CASE \E reached \in BOOLEAN : Streams(reached)
  <2>1. phase = "running" => turn \in Turns /\ turn \in Own(Now)
    BY <1>1, NowFields, TranscriptBounds DEF TypeOK, Turns, Own
  <2>. QED
    BY <1>3, <1>4, <2>1 DEF Streams
<1>5. CASE \E k \in Turns : LateDelta(k)
  <2>1. \A k \in Turns : LateDelta(k) => k \in Own(Now) /\ Adds(k, FALSE)
    BY NowFields DEF LateDelta, Own
  <2>. QED
    BY <1>3, <1>5, <2>1
<1>6. CASE Stops
  BY <1>6, StopsOpen
<1>7. CASE TurnSettles
  <2> DEFINE S == {e \in Held(mem) : e[2] = "status"}
             o == Removed(mem, S)
  <2>1. /\ Shaped(o) /\ Handled(o, FALSE, FALSE)
        /\ Moves(Now, Now', mem, o) /\ Timely(Now')
    BY <1>7, TurnSettlesMoves
  <2>2. Passes(Now, Now', mem, o, FALSE)
    BY <1>1, <1>7, TurnSettlesPasses
  <2> HIDE DEF o
  <2>. QED
    BY <2>1, <2>2, EventOpens
<1>8. CASE TurnEnds
  <2> DEFINE o == Ended(mem, MessageOf(turn))
  <2>1. /\ Shaped(o) /\ Handled(o, TRUE, FALSE)
        /\ Moves(Now, Now', mem, o) /\ Timely(Now')
    BY <1>8, TurnEndsMoves
  <2>2. Passes(Now, Now', mem, o, TRUE)
    BY <1>1, <1>8, TurnEndsPasses
  <2> HIDE DEF o
  <2>. QED
    BY <2>1, <2>2, EventOpens
<1>9. CASE \E seal \in BOOLEAN : OpenHistory(seal)
  BY <1>9, OpenHistoryOpens
<1>. QED
  BY <1>2, <1>4, <1>5, <1>6, <1>7, <1>8, <1>9 DEF Events

-----------------------------------------------------------------------------
(* The application starts. *)

\* With nothing in memory the invariant speaks of the store alone.
LEMMA EmptyOpens ==
  ASSUME NEW w, w.phase = "idle", NEW n \in Stores, Closes(w, n), NEW c
  PROVE  /\ Opens(w, EmptyTail, EmptyQueue, None, n, c)
         /\ Asked(w, EmptyTail, EmptyQueue, None, n, c)
<1> DEFINE m == EmptyTail
           q == EmptyQueue
<1>1. /\ ~m.started /\ m.id = None /\ m.removed = {} /\ Held(m) = {}
      /\ ~q.sealing /\ q.interrupted = None /\ q.terminal = None
  BY NothingYet DEF EmptyTail, EmptyQueue, Held
<1>2. ~Runs(w) /\ (n.tail # None => n.tail.id # None)
  BY Apart DEF Runs, Stores, StoredTails
<1> HIDE DEF m, q
<1>3. Asked(w, m, q, None, n, c)
  BY Apart DEF Asked
<1>4. Wanted(w, m, q) /\ Running(w, m, n, c) /\ Loads(w, m, q, None, n, c)
      /\ Quiet(w, m, n, c)
  BY <1>1, <1>2 DEF Wanted, Running, Loads, Quiet
<1>5. Named(m, n) /\ EndsOver(w, m, n)
  BY <1>1, <1>2 DEF Named, EndsOver
<1>. QED
  BY <1>3, <1>4, <1>5 DEF Opens, m, q

\* The first process finds nothing, or the session of an earlier one.
LEMMA InitOpens ==
  ASSUME Init
  PROVE  OpenInv
<1>1. /\ phase = "idle" /\ mem = EmptyTail /\ queue = EmptyQueue
      /\ flight = None /\ recovery = None
      /\ native \in {EmptyStore} \union {PastStore(over) : over \in BOOLEAN}
  BY DEF Init
<1>2. native \in Stores
  BY InitType DEF TypeOK
<1>3. Closes(Now, native)
  <2>1. CASE native = EmptyStore
    <3>1. \A e \in Entries : native.sealed[e] = None /\ native.stored[e] = 0
      BY <2>1, NothingYet DEF EmptyStore
    <3>2. Present(native.stored) = {}
      BY <2>1, NothingYet DEF EmptyStore
    <3>. QED
      BY <3>1, <3>2 DEF Closes, Paired
  <2>2. ASSUME NEW over \in BOOLEAN, native = PastStore(over) PROVE Closes(Now, native)
    <3>1. /\ native.stored = [e \in Entries |-> IF e \in PastEntries(over) THEN 1 ELSE 0]
          /\ native.tail.entries = PastEntries(over) /\ native.tail # None
          /\ native.sealed = [e \in Entries |-> None]
      BY <1>2, <2>2, PastTailIsThere DEF PastStore, EmptyStore
    <3>2. \A e \in Entries : native.sealed[e] = None
      BY <3>1
    <3>3. \A e \in Entries : native.stored[e] > 0 <=> e \in PastEntries(over)
      BY <3>1
    <3>4. \A e \in PastEntries(over) : TextOf(e) \in PastEntries(over)
      BY DEF PastEntries, TextOf
    <3>5. Paired(Present(native.stored))
      BY <3>3, <3>4, TextIsEntry DEF Paired, Present
    <3>. QED
      BY <3>1, <3>2, <3>3, <3>5 DEF Closes
  <2>. QED
    BY <1>1, <2>1, <2>2
<1>. QED
  BY <1>1, <1>2, <1>3, NowFields, EmptyOpens DEF OpenInv

\* The application stops, and starts.
LEMMA CrashOpens ==
  ASSUME IInv, OpenInv, IInv', NEW carried \in BOOLEAN, Crash(carried)
  PROVE  OpenInv'
<1>1. /\ TypeOK /\ Rests(Now, mem, queue, recovery, native)
      /\ Waits(Now, mem, queue, flight, native)
      /\ native \in Stores /\ flight \in Requests \union {Spin, None}
      /\ Closes(Now, native)
  BY Typed DEF IInv, OpenInv, Opens
<1>2. /\ carried => flight # None /\ flight # Spin /\ Takes(native, flight)
      /\ native' = (IF carried THEN Made(native, flight) ELSE native)
      /\ phase' = "idle" /\ ended' = {} /\ turn' = turn
      /\ mem' = EmptyTail /\ queue' = EmptyQueue
      /\ flight' = None /\ recovery' = None
  BY DEF Crash
<1>3. Closes(Now, native')
  <2>1. CASE carried
    <3>1. flight \in Requests
      BY <1>1, <1>2, <2>1
    <3>2. Writes(Now, mem, queue, flight, native)
      BY <1>1, <3>1, WaitsWrites
    <3>. QED
      BY <1>1, <1>2, <2>1, <3>1, <3>2, ClosesMade
  <2>2. CASE ~carried
    BY <1>1, <1>2, <2>2
  <2>. QED
    BY <2>1, <2>2
<1>4. Closes(Now', native')
  <2>1. \A id : Spent(Now, id) => Spent(Now', id)
    BY <1>2, NowFields DEF Spent, Own
  <2>. QED
    BY <1>3, <2>1 DEF Closes
<1>5. native' \in Stores /\ Now'.phase = "idle"
  BY <1>2, NowFields DEF IInv, TypeOK
<1>6. /\ Opens(Now', EmptyTail, EmptyQueue, None, native', Here')
      /\ Asked(Now', EmptyTail, EmptyQueue, None, native', Here')
  BY <1>4, <1>5, EmptyOpens
<1>. QED
  BY <1>2, <1>6 DEF OpenInv

-----------------------------------------------------------------------------
(* Every step. *)

\* Every step keeps the invariant, as long as no recovery begins while a
\* request is under way.
LEMMA NextOpens ==
  ASSUME IInv, OpenInv, IInv', RecoversAlone, [Next]_vars
  PROVE  OpenInv'
<1>1. CASE Awake /\ Events
  BY <1>1, EventsOpen
<1>2. CASE Awake /\ Faults
  BY <1>2, RequestFailsOpens, RecoveryFailsOpen, LoadFailsOpen DEF Faults
<1>3. CASE Awake /\ Progress
  BY <1>3, TimersOpen, AnsweredOpens, TailLoadedOpens, RecoversOpen DEF Progress
<1>4. ASSUME NEW carried \in BOOLEAN, Crash(carried) PROVE OpenInv'
  BY <1>4, CrashOpens
<1>5. CASE UNCHANGED vars
  BY <1>5 DEF vars, OpenInv, Now, Here
<1>. QED
  BY <1>1, <1>2, <1>3, <1>4, <1>5 DEF Next

\* The request by which a step changes the store is of what is there.
LEMMA ChangesReady ==
  ASSUME IInv, OpenInv, [Next]_vars
  PROVE  \/ native' = native
         \/ \E f \in Requests :
              /\ native' = Made(native, f)
              /\ Ready(Now, mem, queue, f, native, Here)
<1>1. TypeOK
  BY DEF IInv
<1>2. \/ native' = native
      \/ /\ flight \in Requests /\ Takes(native, flight)
         /\ native' = Made(native, flight)
      \/ /\ recovery # None /\ recovery.at # "load" /\ Takes(native, RecoveryFlight)
         /\ native' = Made(native, RecoveryFlight)
  BY <1>1, StoreSteps
<1>3. CASE /\ flight \in Requests /\ Takes(native, flight)
           /\ native' = Made(native, flight)
  BY <1>3, FlightReady
<1>4. CASE /\ recovery # None /\ recovery.at # "load" /\ Takes(native, RecoveryFlight)
           /\ native' = Made(native, RecoveryFlight)
  BY <1>1, <1>4, RecoveryReady, RecoveryFlightType
<1>. QED
  BY <1>2, <1>3, <1>4

\* No step seals anything of the turn that runs.
LEMMA StepLeavesOpen ==
  ASSUME IInv, OpenInv, [Next]_vars
  PROVE  RunningIsOpen
<1> SUFFICES ASSUME NEW e \in Entries, native'.sealed[e] # native.sealed[e],
                    phase = "running", e[1] = turn
             PROVE  FALSE
  BY DEF RunningIsOpen
<1>1. /\ native \in Stores /\ Shaped(mem) /\ Timely(Now) /\ Runs(Now) /\ e[1] = Now.turn
      /\ Running(Now, mem, native, Here) /\ Closes(Now, native)
  BY Typed, NowFields DEF IInv, Rests, OpenInv, Opens, Runs
<1>2. PICK f \in Requests :
        /\ native' = Made(native, f)
        /\ Ready(Now, mem, queue, f, native, Here)
  BY ChangesReady
<1>. QED
  BY <1>1, <1>2, LeavesOpen

\* Turns are sealed one by one: the tail on disk gives way only when all it
\* held is sealed, and nothing of the turn that runs is sealed, be it by an
\* old request, a recovery or the seal of its predecessor; whatever fails or is
\* lost meanwhile and whenever the application stops, as long as no recovery
\* begins while a request is under way.
THEOREM SealsInTurn == Spec /\ []RecoversAlone => SealedInTurn
<1>1. Init => IInv /\ OpenInv
  BY InitKeeps, InitOpens
<1>2. TypeOK /\ [Next]_vars => TypeOK'
  BY NextType
<1>3. IInv /\ TypeOK' /\ RecoversAlone /\ [Next]_vars => IInv'
  BY NextKeeps
<1>4. IInv /\ OpenInv /\ IInv' /\ RecoversAlone /\ [Next]_vars => OpenInv'
  BY NextOpens
<1>5. IInv => TypeOK
  BY DEF IInv
<1>6. IInv /\ [Next]_vars => GivesWaySealed
  BY StepGivesWay
<1>7. IInv /\ OpenInv /\ [Next]_vars => RunningIsOpen
  BY StepLeavesOpen
<1>. QED
  BY <1>1, <1>2, <1>3, <1>4, <1>5, <1>6, <1>7, PTL DEF Spec, SealedInTurn
=============================================================================
