--------------------------- MODULE TranscriptTail ---------------------------
(***************************************************************************)
(* How the transcript of one session reaches the disk.  The main process   *)
(* keeps the entries of the turn that runs in a live tail, and a           *)
(* coordinator writes them behind: it checkpoints what changed into the    *)
(* one open tail the native store keeps per session, and seals a turn that *)
(* ended into blocks.  A turn may begin while the one before it is still   *)
(* being written; requests fail, or lose their answers; the application    *)
(* may stop at any point and recovers the open tail afterwards.            *)
(*                                                                         *)
(* A turn is known under several names.  While it runs it bears the time   *)
(* at which it began; the status that ends it names the prompt's message;  *)
(* an entry that comes when no turn is open opens one named by its time.   *)
(*                                                                         *)
(* Left out: the contents of entries (their versions count), their order   *)
(* and sequence numbers, and with them the rewriting of renumbered ones;   *)
(* which blocks the windows are shown; subagents' breadcrumbs; blocks that *)
(* are full; the removal of sessions; that a status may be cancelled,      *)
(* completed or failed.  A session that is closed is not opened again.     *)
(***************************************************************************)
EXTENDS Integers, Sequences, FiniteSets

CONSTANTS
  MaxTurns,    \* turns of the session
  MaxVersion,  \* versions of the text of one turn
  MaxFaults,   \* requests that fail or lose their answer
  MaxCrashes,  \* times the application stops and is started again
  MaxRevision, \* up to which the store's count of a tail's writes is told apart
  LateDeltas,  \* whether the agent may add to a turn that was stopped or over
  None

ASSUME TranscriptBounds ==
  /\ MaxTurns \in Nat \ {0}
  /\ MaxVersion \in Nat \ {0}
  /\ MaxFaults \in Nat
  /\ MaxCrashes \in Nat
  /\ MaxRevision \in Nat \ {0}
  /\ LateDeltas \in BOOLEAN

Turns == 1 .. MaxTurns

(* The status entry of a turn is there while it runs; the text remains.    *)
Entries == Turns \X {"status", "text"}
Names == Turns \X {"start", "message", "late"} \X (0 .. MaxVersion)
StartOf(k) == <<k, "start", 0>>
MessageOf(k) == <<k, "message", 0>>
LateIn(k, v) == <<k, "late", v>>
NoVersions == [e \in Entries |-> 0]

(* The shapes of what is read of the live tail, of the open tail on disk,  *)
(* of the live tail itself, the coordinator's record and the store, and of *)
(* requests and recoveries.                                                *)
Versions == [Entries -> 0 .. MaxVersion]
Tails == [id : Names, ended : BOOLEAN, revision : Nat, version : Versions]
StoredTails ==
  [id : Names, ended : BOOLEAN, entries : SUBSET Entries, revision : Nat]
LiveTails ==
  [id : Names \union {None}, started : BOOLEAN, ended : BOOLEAN, revision : Nat,
   version : Versions, pending : SUBSET Entries, removed : SUBSET Entries,
   closed : Seq(Tails)]
Queues ==
  [saved : Nat, due : BOOLEAN, timer : BOOLEAN, retry : BOOLEAN,
   recovering : BOOLEAN, interrupted : Tails \union {None},
   terminal : Tails \union {None}, sealing : BOOLEAN, sealId : Names \union {None}]
Stores ==
  [tail : StoredTails \union {None}, stored : Versions,
   sealed : [Entries -> Names \union {None}]]
Requests ==
  [at : {"checkpoint", "closing", "seal", "closed", "reconcile", "displaced"},
   tail : Tails, pending : SUBSET Entries, removed : SUBSET Entries]
Recoveries ==
  [at : {"load", "seal", "reconcile"}, tail : Tails \union {None},
   seal : BOOLEAN, displaced : BOOLEAN, wanted : BOOLEAN]

ASSUME NoneIsApart ==
  None \notin Names \union Tails \union StoredTails \union Requests \union Recoveries

VARIABLES
  turn,       \* how many turns have begun
  phase,      \* what the running turn is at
  ended,      \* the turns whose end this process was told
  mem,        \* the live tail, and the ended turns before it
  queue,      \* the coordinator's record of the session
  flight,     \* the request the pump waits for
  recovery,   \* the recovery under way
  recovered,  \* whether this process has recovered the session
  live,       \* whether this process has heard of the session
  native,     \* the store on disk
  faults, crashes,
  seen        \* history: the versions shown, less those a crash lost

turnVars == <<turn, phase, ended>>
bounds == <<faults, crashes>>
vars == <<turn, phase, ended, mem, queue, flight, recovery, recovered, live,
          native, faults, crashes, seen>>

Larger(i, j) == IF i > j THEN i ELSE j
Smaller(i, j) == IF i < j THEN i ELSE j
Present(version) == {e \in Entries : version[e] > 0}

-----------------------------------------------------------------------------
(* The live tail.                                                          *)

EmptyTail ==
  [id |-> None, started |-> FALSE, ended |-> FALSE, revision |-> 0,
   version |-> NoVersions, pending |-> {}, removed |-> {}, closed |-> << >>]

Held(m) == Present(m.version)
ClosedTails == {mem.closed[i] : i \in DOMAIN mem.closed}

Snapshot(m) ==
  [id |-> m.id, ended |-> m.ended, revision |-> m.revision, version |-> m.version]

Emptied(m) == [m EXCEPT !.version = NoVersions, !.pending = {}, !.removed = {}]

(* A turn of another name begins, unless the tail holds entries of a turn  *)
(* that has not ended; an ended one is put aside to be sealed first.       *)
Begun(m, id) ==
  LET holds == m.started /\ Held(m) # {}
      room == IF holds
                THEN [Emptied(m) EXCEPT !.closed = Append(@, Snapshot(m))]
                ELSE m
  IN  IF m.id = id \/ (holds /\ ~m.ended)
        THEN m
        ELSE [room EXCEPT !.id = id, !.started = TRUE, !.ended = FALSE,
                          !.revision = @ + 1]

(* An entry that comes when no turn is open opens one.                     *)
Provisional(m, id) ==
  IF m.started
    THEN m
    ELSE [m EXCEPT !.id = id, !.started = TRUE, !.ended = FALSE, !.revision = @ + 1]

Upserted(m, e, v) ==
  IF m.version[e] >= v
    THEN [m EXCEPT !.removed = @ \ {e}]
    ELSE [m EXCEPT !.version[e] = v, !.pending = @ \union {e},
                   !.removed = @ \ {e}, !.revision = @ + 1]

(* Mutant: what was to be written of a removed entry stays to be written.  *)
RemovedButPending(m, S) ==
  LET gone == S \intersect Held(m)
  IN  [m EXCEPT !.version = [e \in Entries |-> IF e \in gone THEN 0 ELSE @[e]],
                !.removed = @ \union gone,
                !.revision = @ + Cardinality(gone)]

Removed(m, S) ==
  LET gone == S \intersect Held(m)
  IN  [m EXCEPT !.version = [e \in Entries |-> IF e \in gone THEN 0 ELSE @[e]],
                !.pending = @ \ gone,
                !.removed = @ \union gone,
                !.revision = @ + Cardinality(gone)]

Ended(m, id) ==
  [m EXCEPT !.id = id, !.ended = TRUE,
            !.revision = IF m.ended THEN @ ELSE @ + 1]

(* Mutant: whatever version was written.                                   *)
AcknowledgedAnyVersion(m, written, pending, removed) ==
  [m EXCEPT !.pending = @ \ pending, !.removed = @ \ (removed \ Held(m))]

(* A write is acknowledged for the entries it wrote in their last version. *)
Acknowledged(m, written, pending, removed) ==
  [m EXCEPT !.pending = @ \ {e \in pending : m.version[e] = written[e]},
            !.removed = @ \ (removed \ Held(m))]

(* A sealed turn leaves the tail if nothing has changed since it was read. *)
Unchanged(m, tail) == m.id = tail.id /\ m.revision = tail.revision

Cleared(m) ==
  [Emptied(m) EXCEPT !.id = None, !.started = FALSE, !.ended = FALSE,
                     !.revision = @ + 1]

SealAcknowledged(m, tail) == IF Unchanged(m, tail) THEN Cleared(m) ELSE m

(* A tail read from disk becomes the live one, with what has come since on *)
(* top; but not in place of another turn.                                  *)
CanRestore(m, tail) == m.id \in {None, tail.id}

Restored(m, tail) ==
  LET newer == {e \in Entries : m.version[e] > tail.version[e]}
      merged == [m EXCEPT
        !.id = tail.id,
        !.started = Present(tail.version) # {},
        !.ended = m.ended \/ tail.ended,
        !.revision = Larger(@, tail.revision) + Cardinality(newer)
                       + (IF m.ended /\ ~tail.ended THEN 1 ELSE 0),
        !.version = [e \in Entries |-> Larger(@[e], tail.version[e])],
        !.pending = Present(tail.version) \union Held(m),
        !.removed = {},
        !.closed = << >>]
  IN  Removed(merged, m.removed)

-----------------------------------------------------------------------------
(* The store on disk: the open tail, the last version stored of each entry *)
(* and the name of the turn its block is sealed by.                        *)

EmptyStore ==
  [tail |-> None, stored |-> NoVersions, sealed |-> [e \in Entries |-> None]]

(* A checkpoint writes something, and never into another turn's tail.      *)
TakesCheckpoint(n, tail, pending, removed) ==
  /\ pending # {} \/ removed # {} \/ tail.ended
  /\ n.tail # None => n.tail.id = tail.id

Checkpointed(n, tail, pending, removed) ==
  LET before == IF n.tail = None THEN [entries |-> {}, revision |-> 0] ELSE n.tail
  IN  [n EXCEPT
        !.stored = [e \in Entries |-> IF e \in pending THEN tail.version[e] ELSE @[e]],
        !.tail = [id |-> tail.id, ended |-> tail.ended,
                  entries |-> (before.entries \ removed) \union pending,
                  revision |-> Smaller(before.revision + 1, MaxRevision)]]

(* A seal stores the entries and closes the blocks they are in.            *)
SealedBefore(n, id, S) == \A e \in S : n.sealed[e] \in {None, id}

TakesSeal(n, tail) ==
  /\ Present(tail.version) # {}
  /\ SealedBefore(n, tail.id, Present(tail.version))

Closed(n, id, S) ==
  [n EXCEPT
    !.sealed = [e \in Entries |->
      IF n.stored[e] > 0 /\ @[e] = None /\ \E s \in S : @[s] = None THEN id ELSE @[e]],
    !.tail = IF n.tail # None /\ n.tail.id = id THEN None ELSE n.tail]

Sealed(n, tail) ==
  LET S == Present(tail.version)
      written == [n EXCEPT
        !.stored = [e \in Entries |-> IF e \in S THEN tail.version[e] ELSE @[e]]]
  IN  Closed(written, tail.id, S)

(* An ended tail can be sealed from what is stored; no tail is no error.   *)
TakesReconcile(n, tail) ==
  n.tail # None =>
    /\ n.tail.id = tail.id
    /\ n.tail.ended
    /\ SealedBefore(n, tail.id, n.tail.entries)

Reconciled(n) ==
  IF n.tail = None THEN n ELSE Closed(n, n.tail.id, n.tail.entries)

Loaded(n) ==
  [id |-> n.tail.id, ended |-> n.tail.ended, revision |-> n.tail.revision,
   version |-> [e \in Entries |-> IF e \in n.tail.entries THEN n.stored[e] ELSE 0]]

-----------------------------------------------------------------------------
(* The coordinator.                                                        *)

EmptyQueue ==
  [saved |-> 0, due |-> FALSE, timer |-> FALSE, retry |-> FALSE,
   recovering |-> FALSE, interrupted |-> None, terminal |-> None,
   sealing |-> FALSE, sealId |-> None]

Dirty(m, q) == m.pending # {} \/ m.removed # {} \/ m.revision > q.saved

HasWork(m, q) ==
  \/ q.recovering
  \/ q.interrupted # None
  \/ q.terminal # None
  \/ m.closed # << >>
  \/ q.due /\ Dirty(m, q)
  \/ q.sealing

Flight(at, tail, pending, removed) ==
  [at |-> at, tail |-> tail, pending |-> pending, removed |-> removed]

(* Mutant: a seal asked for one turn is taken for the one at hand.         *)
SealPartOfAny(m, q, id) ==
  IF ~q.sealing THEN [q |-> q, flight |-> None]
  ELSE IF m.id = None \/ Held(m) = {}
    THEN [q |-> [q EXCEPT !.sealing = FALSE, !.sealId = None], flight |-> None]
  ELSE [q |-> q, flight |-> Flight("seal", Snapshot(m), {}, {})]

(* What a pass of the coordinator waits for: None when it comes to its end *)
(* without a request.                                                      *)
SealPart(m, q, id) ==
  IF ~(q.sealing /\ q.sealId = id) THEN [q |-> q, flight |-> None]
  ELSE IF m.id = None \/ Held(m) = {}
    THEN [q |-> [q EXCEPT !.sealing = FALSE, !.sealId = None], flight |-> None]
  ELSE [q |-> q, flight |-> Flight("seal", Snapshot(m), {}, {})]

(* The status a checkpoint records is the one a seal was asked with, too.  *)
CheckpointTail(m, q) ==
  [Snapshot(m) EXCEPT !.ended = @ \/ (q.sealing /\ q.sealId = m.id)]

LivePart(m, q) ==
  IF m.id = None \/ (Held(m) = {} /\ m.removed = {})
    THEN [q |-> [q EXCEPT !.saved = Larger(@, m.revision), !.sealing = FALSE],
          flight |-> None]
  ELSE IF Dirty(m, q)
    THEN [q |-> [q EXCEPT !.due = FALSE],
          flight |-> Flight("checkpoint", CheckpointTail(m, q), m.pending, m.removed)]
  ELSE SealPart(m, q, m.id)

Pass(m, q) ==
  IF q.terminal # None
    THEN [q |-> q, flight |-> Flight("reconcile", q.terminal, {}, {})]
  ELSE IF q.interrupted # None
    THEN [q |-> q, flight |-> Flight("displaced", q.interrupted, {}, {})]
  ELSE IF m.closed # << >>
    THEN [q |-> q, flight |-> Flight("closing", Head(m.closed),
                                     Present(Head(m.closed).version), {})]
  ELSE LivePart(m, q)

(* A pass that waited for nothing and left work is followed by one that    *)
(* finds the same: the process never comes to its next event.              *)
Spin == Flight("spin", None, {}, {})

Pumped(m, q, f) ==
  LET pass == Pass(m, q)
  IN  IF f # None \/ q.recovering \/ q.retry THEN [q |-> q, flight |-> f]
      ELSE IF pass.flight = None /\ HasWork(m, pass.q)
        THEN [pass EXCEPT !.flight = Spin]
      ELSE pass

(* After the end of a pass the next one begins only if there is work.      *)
Resumed(m, q) ==
  IF HasWork(m, q) THEN Pumped(m, q, None) ELSE [q |-> q, flight |-> None]

MadeDue(q) == [q EXCEPT !.due = TRUE, !.timer = FALSE]

Scheduled(m, p, reached) ==
  IF p.q.saved = 0 \/ reached
    THEN Pumped(m, MadeDue(p.q), p.flight)
    ELSE [p EXCEPT !.q.timer = @ \/ ~p.q.due]

SealRequested(m, q, f) ==
  Pumped(m, [MadeDue(q) EXCEPT !.sealing = TRUE, !.sealId = m.id], f)

(* Once the seal of a turn is done, none is wanted any more.               *)
SealServed(q, id) ==
  IF q.sealId = id THEN [q EXCEPT !.sealing = FALSE, !.sealId = None] ELSE q

(* Mutant: a failed request is not tried again by itself.                  *)
FailedForGood(q) == [q EXCEPT !.due = TRUE]

Failed(q) == [q EXCEPT !.due = TRUE, !.retry = TRUE]

-----------------------------------------------------------------------------
(* The state has its shape: among others, what waits to be written is in   *)
(* the tail, what waits to be taken out is not, and the coordinator rests  *)
(* while a recovery is under way and only then.                            *)
TypeOK ==
  /\ turn \in 0 .. MaxTurns
  /\ phase \in {"idle", "running", "stopped", "settled"}
  /\ phase # "idle" => turn # 0
  /\ ended \subseteq Turns
  /\ mem \in LiveTails
  /\ mem.pending \subseteq Held(mem) /\ mem.removed \intersect Held(mem) = {}
  /\ mem.started => mem.id # None
  /\ queue \in Queues
  /\ queue.recovering <=> recovery # None
  /\ flight \in Requests \union {Spin, None}
  /\ recovery \in Recoveries \union {None}
  /\ recovery # None /\ recovery.at # "load" => recovery.tail # None
  /\ recovered \in BOOLEAN /\ live \in BOOLEAN
  /\ native \in Stores
  /\ faults \in 0 .. MaxFaults /\ crashes \in 0 .. MaxCrashes
  /\ seen \in Versions

(* A session of the past: its first turn was under way, or had just ended, *)
(* when an earlier process stopped.                                        *)
PastEntries(over) == {<<1, "text">>} \union (IF over THEN {} ELSE {<<1, "status">>})

PastStore(over) ==
  [EmptyStore EXCEPT
    !.stored = [e \in Entries |-> IF e \in PastEntries(over) THEN 1 ELSE 0],
    !.tail = [id |-> StartOf(1), ended |-> over, entries |-> PastEntries(over),
              revision |-> 1]]

Init ==
  /\ native \in {EmptyStore} \union {PastStore(over) : over \in BOOLEAN}
  /\ turn = (IF native.tail = None THEN 0 ELSE 1)
  /\ seen = [e \in Entries |-> IF e[2] = "text" THEN native.stored[e] ELSE 0]
  /\ phase = "idle" /\ ended = {}
  /\ mem = EmptyTail
  /\ queue = EmptyQueue
  /\ flight = None
  /\ recovery = None
  /\ recovered = FALSE
  /\ live = FALSE
  /\ faults = 0 /\ crashes = 0

-----------------------------------------------------------------------------
(* Events of the session.  The first one of a process starts the recovery, *)
(* and checkpoints are scheduled only when it is done.                     *)

Recovering(seal, wanted) ==
  [at |-> "load", tail |-> None, seal |-> seal, displaced |-> FALSE, wanted |-> wanted]

Handled(m, seals, reached) ==
  LET starts == ~recovered /\ recovery = None
      q == IF starts THEN [queue EXCEPT !.recovering = TRUE] ELSE queue
      asked == IF seals THEN SealRequested(m, q, flight) ELSE [q |-> q, flight |-> flight]
      done == IF recovered THEN Scheduled(m, asked, reached) ELSE asked
  IN  /\ mem' = m
      /\ queue' = done.q
      /\ flight' = done.flight
      /\ recovery' = IF recovered THEN recovery
                     ELSE IF starts THEN Recovering(FALSE, TRUE)
                     ELSE [recovery EXCEPT !.wanted = TRUE]
      /\ live' = TRUE
      /\ UNCHANGED <<recovered, native, faults, crashes>>

TurnBegins ==
  LET k == turn + 1
  IN  /\ phase = "idle" /\ turn < MaxTurns
      /\ turn' = k /\ phase' = "running"
      /\ Handled(Upserted(Upserted(Begun(mem, StartOf(k)), <<k, "status">>, 1),
                          <<k, "text">>, 1), FALSE, FALSE)
      /\ seen' = [seen EXCEPT ![<<k, "status">>] = 1, ![<<k, "text">>] = 1]
      /\ UNCHANGED ended

(* The agent adds to the text of a turn k.                                 *)
Adds(k, reached) ==
  LET e == <<k, "text">>
      v == seen[e] + 1
  IN  /\ v <= MaxVersion
      /\ Handled(Upserted(Provisional(mem, LateIn(k, v)), e, v), FALSE, reached)
      /\ seen' = [seen EXCEPT ![e] = v]
      /\ UNCHANGED turnVars

Streams(reached) == phase = "running" /\ Adds(turn, reached)

LateDelta(k) ==
  /\ LateDeltas
  /\ k \in ended \/ (k = turn /\ phase \in {"stopped", "settled"})
  /\ Adds(k, FALSE)

(* Stop: the cancellation is answered, and a seal is asked for.            *)
Stops ==
  LET p == SealRequested(mem, queue, flight)
  IN  /\ phase = "running" /\ phase' = "stopped"
      /\ queue' = p.q /\ flight' = p.flight
      /\ UNCHANGED <<turn, ended, mem, recovery, recovered, live, native, bounds, seen>>

(* The session's status is idle again: the status entry goes.              *)
TurnSettles ==
  LET S == {e \in Held(mem) : e[2] = "status"}
  IN  /\ phase \in {"running", "stopped"} /\ phase' = "settled"
      /\ Handled(Removed(mem, S), FALSE, FALSE)
      /\ seen' = [e \in Entries |-> IF e[2] = "status" THEN 0 ELSE seen[e]]
      /\ UNCHANGED <<turn, ended>>

TurnEnds ==
  /\ phase = "settled" /\ phase' = "idle"
  /\ ended' = ended \union {turn}
  /\ Handled(Ended(mem, MessageOf(turn)), TRUE, FALSE)
  /\ UNCHANGED <<turn, seen>>

-----------------------------------------------------------------------------
(* Timers and the answers the pump waits for.                              *)

Timers == <<turn, phase, ended, mem, recovery, recovered, live, native, bounds, seen>>

CheckpointTimer ==
  LET p == Pumped(mem, MadeDue(queue), flight)
  IN  /\ queue.timer
      /\ queue' = p.q /\ flight' = p.flight
      /\ UNCHANGED Timers

RetryTimer ==
  LET p == Pumped(mem, [queue EXCEPT !.retry = FALSE, !.due = TRUE], flight)
  IN  /\ queue.retry
      /\ queue' = p.q /\ flight' = p.flight
      /\ UNCHANGED Timers

(* What the store makes of a request.                                      *)
Takes(n, f) ==
  CASE f.at \in {"checkpoint", "closing"} -> TakesCheckpoint(n, f.tail, f.pending, f.removed)
    [] f.at \in {"seal", "closed", "displaced"} -> TakesSeal(n, f.tail)
    [] f.at = "reconcile" -> TakesReconcile(n, f.tail)

Made(n, f) ==
  CASE f.at \in {"checkpoint", "closing"} -> Checkpointed(n, f.tail, f.pending, f.removed)
    [] f.at \in {"seal", "closed", "displaced"} -> Sealed(n, f.tail)
    [] f.at = "reconcile" -> Reconciled(n)

(* How the pass goes on after each of its requests.                        *)
CheckpointDone(f) ==
  LET m == Acknowledged(mem, f.tail.version, f.pending, f.removed)
      q == [queue EXCEPT !.saved = Larger(@, f.tail.revision)]
      rest == SealPart(m, q, f.tail.id)
  IN  [m |-> m, p |-> IF m.closed = << >> /\ rest.flight # None
                        THEN rest
                        ELSE Resumed(m, IF m.closed = << >> THEN rest.q ELSE q)]

SealDone(f) ==
  LET m == SealAcknowledged(mem, f.tail)
  IN  [m |-> m, p |-> Resumed(m, [queue EXCEPT !.sealing = @ /\ ~Unchanged(mem, f.tail)])]

ClosedSealDone(f) ==
  LET m == [mem EXCEPT !.closed = Tail(@)]
  IN  IF mem.closed # << >> /\ Unchanged(Head(mem.closed), f.tail)
        THEN [m |-> m, p |-> Resumed(m, SealServed(queue, f.tail.id))]
        ELSE [m |-> mem, p |-> Resumed(mem, queue)]

RecoveredDone(f, q) ==
  LET m == SealAcknowledged(mem, f.tail)
  IN  [m |-> m, p |-> Resumed(m, SealServed(q, f.tail.id))]

Done(f) ==
  CASE f.at = "checkpoint" -> CheckpointDone(f)
    [] f.at = "closing" -> [m |-> mem, p |-> [q |-> queue, flight |-> [f EXCEPT !.at = "closed"]]]
    [] f.at = "seal" -> SealDone(f)
    [] f.at = "closed" -> ClosedSealDone(f)
    [] f.at = "reconcile" -> RecoveredDone(f, [queue EXCEPT !.terminal = None])
    [] f.at = "displaced" -> RecoveredDone(f, [queue EXCEPT !.interrupted = None])

Answered ==
  /\ flight # None
  /\ IF Takes(native, flight)
       THEN LET d == Done(flight)
            IN  /\ native' = Made(native, flight)
                /\ mem' = d.m /\ queue' = d.p.q /\ flight' = d.p.flight
       ELSE /\ queue' = Failed(queue) /\ flight' = None
            /\ UNCHANGED <<mem, native>>
  /\ UNCHANGED <<turnVars, recovery, recovered, live, bounds, seen>>

(* A request fails; the store may have carried it out all the same.        *)
RequestFails(lost) ==
  /\ flight # None
  /\ faults < MaxFaults /\ faults' = faults + 1
  /\ lost => Takes(native, flight)
  /\ native' = IF lost THEN Made(native, flight) ELSE native
  /\ queue' = Failed(queue) /\ flight' = None
  /\ UNCHANGED <<turnVars, mem, recovery, recovered, live, crashes, seen>>

-----------------------------------------------------------------------------
(* Recovery: by the first event, or when a session of the past is opened.  *)

OpenHistory(seal) ==
  /\ ~live /\ recovery = None
  /\ seal \/ ~recovered
  /\ native.tail # None
  /\ recovery' = Recovering(seal, FALSE)
  /\ queue' = [queue EXCEPT !.recovering = TRUE]
  /\ UNCHANGED <<turnVars, mem, flight, recovered, live, native, bounds, seen>>

(* The end of a recovery: whoever waited schedules a checkpoint, unless it *)
(* failed; the pump goes on.                                               *)
RecoveryEnds(m, q, ok) ==
  LET p == Pumped(m, [q EXCEPT !.recovering = FALSE], flight)
      done == IF ok /\ recovery.wanted THEN Scheduled(m, p, FALSE) ELSE p
  IN  /\ mem' = m
      /\ queue' = done.q
      /\ flight' = done.flight
      /\ recovery' = None
      /\ recovered' = (recovered \/ ok)
      /\ UNCHANGED <<turnVars, live, crashes, seen>>

Goes(m, q, at, tail, displaced) ==
  /\ mem' = m
  /\ queue' = q
  /\ recovery' = [recovery EXCEPT !.at = at, !.tail = tail, !.displaced = displaced]
  /\ UNCHANGED <<turnVars, flight, recovered, live, crashes, seen>>

RestoredQueue(tail) ==
  LET keeps == queue.sealing /\ queue.sealId = tail.id
  IN  [queue EXCEPT !.saved = tail.revision,
                    !.sealing = keeps \/ tail.ended,
                    !.sealId = IF keeps \/ tail.ended THEN tail.id ELSE None]

TailLoaded ==
  /\ recovery # None /\ recovery.at = "load"
  /\ IF native.tail = None
       THEN RecoveryEnds(mem, queue, TRUE)
       ELSE LET tail == Loaded(native)
                sealAt == IF tail.ended THEN "reconcile" ELSE "seal"
            IN  IF ~CanRestore(mem, tail)
                  THEN Goes(mem, queue, sealAt, tail, TRUE)
                ELSE IF tail.ended \/ recovery.seal
                  THEN Goes(Restored(mem, tail), RestoredQueue(tail), sealAt, tail, FALSE)
                ELSE RecoveryEnds(Restored(mem, tail), RestoredQueue(tail), TRUE)
  /\ UNCHANGED <<native, faults>>

LoadFails ==
  /\ recovery # None /\ recovery.at = "load"
  /\ faults < MaxFaults /\ faults' = faults + 1
  /\ RecoveryEnds(mem, queue, FALSE)
  /\ UNCHANGED native

(* The request of the recovery itself, as the pump's.                      *)
RecoveryFlight ==
  Flight(IF recovery.at = "seal" THEN "displaced" ELSE "reconcile", recovery.tail, {}, {})

(* A predecessor that could not be sealed stays ahead of its successor.    *)
KeptForRetry ==
  IF recovery.at = "reconcile" THEN [queue EXCEPT !.terminal = recovery.tail]
  ELSE IF recovery.displaced THEN [queue EXCEPT !.interrupted = recovery.tail]
  ELSE queue

Recovers ==
  /\ recovery # None /\ recovery.at # "load"
  /\ IF Takes(native, RecoveryFlight)
       THEN /\ native' = Made(native, RecoveryFlight)
            /\ LET q == SealServed(queue, recovery.tail.id)
               IN  RecoveryEnds(SealAcknowledged(mem, recovery.tail),
                     IF recovery.displaced /\ recovery.at = "seal"
                       THEN [q EXCEPT !.interrupted = None] ELSE q, TRUE)
       ELSE /\ RecoveryEnds(mem, KeptForRetry, FALSE)
            /\ UNCHANGED native
  /\ UNCHANGED faults

RecoveryFails(lost) ==
  /\ recovery # None /\ recovery.at # "load"
  /\ faults < MaxFaults /\ faults' = faults + 1
  /\ lost => Takes(native, RecoveryFlight)
  /\ native' = IF lost THEN Made(native, RecoveryFlight) ELSE native
  /\ RecoveryEnds(mem, KeptForRetry, FALSE)

-----------------------------------------------------------------------------
(* The application stops, and is started again.  A request under way may   *)
(* still be carried out.                                                   *)
Crash(carried) ==
  /\ faults < MaxFaults /\ crashes < MaxCrashes /\ crashes' = crashes + 1
  /\ carried => flight # None /\ flight # Spin /\ Takes(native, flight)
  /\ native' = IF carried THEN Made(native, flight) ELSE native
  /\ seen' = [e \in Entries |->
       IF e[2] = "text" /\ native'.stored[e] < seen[e] THEN native'.stored[e]
       ELSE IF e[2] = "text" THEN seen[e] ELSE 0]
  /\ phase' = "idle" /\ ended' = {}
  /\ mem' = EmptyTail /\ queue' = EmptyQueue
  /\ flight' = None /\ recovery' = None /\ recovered' = FALSE /\ live' = FALSE
  /\ faults' = faults + 1 /\ UNCHANGED turn

Awake == flight # Spin

Events ==
  \/ TurnBegins
  \/ \E reached \in BOOLEAN : Streams(reached)
  \/ \E k \in Turns : LateDelta(k)
  \/ Stops
  \/ TurnSettles
  \/ TurnEnds
  \/ \E seal \in BOOLEAN : OpenHistory(seal)

Faults ==
  \/ \E lost \in BOOLEAN : RequestFails(lost) \/ RecoveryFails(lost)
  \/ LoadFails

(* What happens of itself: timers fire, requests are answered.             *)
Progress == CheckpointTimer \/ RetryTimer \/ Answered \/ TailLoaded \/ Recovers

Next ==
  \/ Awake /\ (Events \/ Faults \/ Progress)
  \/ \E carried \in BOOLEAN : Crash(carried)

(* The weakest fairness that says so: of all that is due, something is     *)
(* done.  The pump rests while a recovery runs, so neither keeps the other *)
(* from going on.                                                          *)
Fairness == WF_vars(Awake /\ Progress)

Spec == Init /\ [][Next]_vars /\ Fairness
-----------------------------------------------------------------------------
(* Properties.                                                             *)

(* What was shown is in the live tail, waits among the ended turns, or is  *)
(* on disk: whatever fails or is answered late, nothing falls between the  *)
(* tail and the store.                                                     *)
NothingIsForgotten ==
  \A e \in Entries : seen[e] > 0 =>
    \/ mem.version[e] >= seen[e]
    \/ native.stored[e] >= seen[e]
    \/ \E tail \in ClosedTails : tail.version[e] >= seen[e]

(* An entry counts as written only when the disk has the version the tail  *)
(* holds, not an older one that was written meanwhile.                     *)
SavedIsStored ==
  \A e \in Held(mem) \ mem.pending : native.stored[e] >= mem.version[e]

(* Nothing that was shown is lost between the live tail and the disk,      *)
(* whatever is changed while a checkpoint of it is under way.              *)
NothingIsDropped == NothingIsForgotten /\ SavedIsStored

(* The tail on disk gives way to another turn's, or to none, only when all *)
(* it held is sealed,                                                      *)
GivesWaySealed ==
  native.tail # None /\ (native'.tail = None \/ native'.tail.id # native.tail.id)
    => \A e \in native.tail.entries : native'.sealed[e] # None

(* and nothing of the turn that runs is sealed, be it by an old request, a *)
(* recovery or the seal of its predecessor.                                *)
RunningIsOpen ==
  \A e \in Entries :
    native'.sealed[e] # native.sealed[e] /\ phase = "running" => e[1] # turn

(* Turns are sealed one by one: whole, and none that still runs.           *)
SealedInTurn == [][GivesWaySealed /\ RunningIsOpen]_vars

EndedAreSealed == \A k \in ended : native.sealed[<<k, "text">>] # None

(* A turn that ended is sealed in the end: the code names the tail anew    *)
(* when the turn ends, and the store refuses the new name.                 *)
EndedIsSealed == []<>EndedAreSealed

(* What this takes: that the process knows the turn of the tail on disk by *)
(* the name it has there,                                                  *)
TailIsKnown ==
  native.tail # None /\ live =>
    \/ recovery # None
    \/ queue.interrupted # None \/ queue.terminal # None
    \/ native.tail.id \in {mem.id} \union {tail.id : tail \in ClosedTails}

(* that the tail is not empty, that no turn holds an entry another one was *)
(* sealed with, and that the pump comes to its end.                        *)
Orderly ==
  /\ TailIsKnown
  /\ native.tail # None =>
       /\ native.tail.entries # {}
       /\ SealedBefore(native, native.tail.id, native.tail.entries)
  /\ SealedBefore(native, mem.id, Held(mem))
  /\ \A tail \in ClosedTails : SealedBefore(native, tail.id, Present(tail.version))
  /\ Awake

(* Whatever fails and whenever the application stops: if the tail is       *)
(* orderly from some time on, every turn that ended is sealed in the end.  *)
OrderlyEndedIsSealed == []<>(EndedAreSealed \/ ~Orderly)
=============================================================================
