---------------------------- MODULE PromptQueue ----------------------------
(***************************************************************************)
(* The prompt queue of one AI session, as the main process keeps it        *)
(* (src/main/ai/prompt-queue.ts) with the wiring of src/main/ai/service.ts *)
(* around it.  The queue holds prompts the user typed while the agent was  *)
(* busy; it dispatches them one at a time, and the runtime answers through *)
(* four independent paths: the promise of the dispatch, turn-status        *)
(* events, status events and prepared-session snapshots.                   *)
(*                                                                         *)
(* The runtime is left as general as the queue's interface allows: any     *)
(* event may arrive at any time.  PromptTurns closes the system with the   *)
(* sidecar that really produces them.                                      *)
(*                                                                         *)
(* Abstracted: the text of a prompt (an id stands for it), the revision    *)
(* counter of the snapshots, the windows' names.  In a live snapshot,      *)
(* starting, streaming and the two waiting statuses are one "busy", idle   *)
(* and error are one "idle".                                               *)
(***************************************************************************)
EXTENDS Naturals, Sequences, FiniteSets, SequenceFilters

CONSTANTS
    Prompts,     \* ids of the prompts a user may ever type (crypto.randomUUID)
    None,        \* no prompt, no item, no position
    StaleEdits,  \* may a window submit an edit the queue no longer holds open?
    MaxFlight,   \* bound: unsettled dispatches of one prompt, unsettled steers
    MaxLag       \* bound: steps whose snapshots a crash may lose

ASSUME NoneAssumption == None \notin Prompts
ASSUME StaleEditsAssumption == StaleEdits \in BOOLEAN
ASSUME MaxFlightAssumption == MaxFlight \in Nat \ {0}
ASSUME MaxLagAssumption == MaxLag \in Nat

VARIABLES
    queue,   \* the PromptQueueRecord of the session
    live,    \* what #liveSnapshots says of the session
    flight,  \* per prompt, the #dispatch continuations not yet resumed
    steers,  \* steer() continuations awaiting cancelSession
    disk,    \* the last queue snapshot that reached the native store
    lag,     \* steps with a commit since disk last matched the queue
    used,    \* ids already given to a prompt
    gone,    \* the session was deleted (#deletedSessionIds)
    hold     \* history: what made the queue wait for the user, if anything

vars == <<queue, live, flight, steers, disk, lag, used, gone, hold>>

-----------------------------------------------------------------------------
(* Items and records *)

Statuses == {"queued", "pending_dispatch", "sending", "running", "editing",
             "failed"}

\* closed: the item's error is CLOSED_SESSION_QUEUE_ERROR.
Items == [id : Prompts, st : Statuses, closed : BOOLEAN]

ASSUME NoItemAssumption == None \notin Items

Positions == [next : Prompts \cup {None}, prev : Prompts \cup {None},
              index : Nat]

ASSUME NoPositionAssumption == None \notin Positions

New(p) == [id |-> p, st |-> "queued", closed |-> FALSE]

Failed(item) == [item EXCEPT !.st = "failed", !.closed = FALSE]

\* failedQueuedPrompt(item, CLOSED_SESSION_QUEUE_ERROR)
ClosedItem(item) == [item EXCEPT !.st = "failed", !.closed = TRUE]

Requeued(item) == [item EXCEPT !.st = "queued"]

Dispatchable(item) == item.st \in {"queued", "pending_dispatch"}

Record(known, terminal) ==
    [known |-> known, active |-> None, editing |-> None, pos |-> None,
     items |-> <<>>, owned |-> FALSE, paused |-> FALSE, resume |-> FALSE,
     terminal |-> terminal]

\* The session has no entry in #records.
Absent == Record(FALSE, FALSE)

OptSeq(x) == IF x = None THEN <<>> ELSE <<x>>

\* The spread [...active, ...editing, ...items] of the code.
AllItems(q) == OptSeq(q.active) \o OptSeq(q.editing) \o q.items

-----------------------------------------------------------------------------
(* Finding, filtering and inserting items. *)

Without(s, p) == Select(s, {i \in DOMAIN s : s[i].id # p})

\* deduplicateItems: the first item of each id stays.
Deduplicated(s) ==
    Select(s, {i \in DOMAIN s : \A j \in 1..(i - 1) : s[j].id # s[i].id})

IndicesOf(s, p) == {i \in DOMAIN s : s[i].id = p}

Holds(s, p) == IndicesOf(s, p) # {}

ItemAt(s, p) == s[LeastIn(IndicesOf(s, p))]

IdAt(s, i) == IF i \in DOMAIN s THEN s[i].id ELSE None

\* queueIndex counts from 0.
PositionOf(s, i) ==
    [next |-> IdAt(s, i + 1), prev |-> IdAt(s, i - 1), index |-> i - 1]

\* How many items stay before the one put back: next to a neighbour it had,
\* if one is still queued, and otherwise at the index it had.
InsertionPoint(s, pos) ==
    IF pos = None THEN Len(s)
    ELSE IF Holds(s, pos.next) THEN LeastIn(IndicesOf(s, pos.next)) - 1
    ELSE IF Holds(s, pos.prev) THEN LeastIn(IndicesOf(s, pos.prev))
    ELSE IF pos.index <= Len(s) THEN pos.index ELSE Len(s)

InsertAtPosition(s, item, pos) ==
    LET rest == Without(s, item.id)
    IN  Splice(rest, InsertionPoint(rest, pos), item)

-----------------------------------------------------------------------------
(* What the private methods of the class make of a record.  l is the live   *)
(* status they read through getSessionSnapshot.                              *)

\* #getRecord
Opened(q, l) == IF q.known THEN q ELSE Record(TRUE, l = "closed")

\* #terminalize
Inert(q) ==
    /\ q.active = None
    /\ q.editing = None
    /\ \A i \in DOMAIN q.items : q.items[i].st = "failed"

\* Mutant: the prompt open for editing stays open.
TerminalizedKeepingEdit(q) ==
    LET all == OptSeq(q.active) \o q.items IN
    [q EXCEPT
       !.active = None,
       !.items = Deduplicated([i \in DOMAIN all |-> ClosedItem(all[i])]),
       !.paused = TRUE, !.resume = FALSE, !.terminal = TRUE]

Terminalized(q) ==
    IF q.terminal /\ Inert(q) THEN q
    ELSE LET all == AllItems(q) IN
         [q EXCEPT
            !.active = None, !.editing = None, !.pos = None,
            !.items = Deduplicated([i \in DOMAIN all |-> ClosedItem(all[i])]),
            !.paused = TRUE, !.resume = FALSE, !.terminal = TRUE]

\* #isTerminal: asking terminalizes the record of a session found closed.
Checked(q, l) == IF q.terminal \/ l # "closed" THEN q ELSE Terminalized(q)

\* #drain: the record after it, the same one when nothing can be sent.
Waiting(q) == {i \in DOMAIN q.items : Dispatchable(q.items[i])}

\* Mutant: a queue that resumes does not wait for the prompt in progress.
CanDrainWhileActive(q, l) ==
    /\ ~q.paused
    /\ ~q.terminal
    /\ l \notin {"busy", "closed"}
    /\ q.owned
    /\ Waiting(q) # {}

\* Mutant: only a live session is sent a prompt.
CanDrainWhenLive(q, l) ==
    /\ q.active = None
    /\ ~q.paused
    /\ ~q.terminal
    /\ l = "idle"
    /\ q.owned
    /\ Waiting(q) # {}

CanDrain(q, l) ==
    /\ q.active = None
    /\ ~q.paused
    /\ ~q.terminal
    /\ l \notin {"busy", "closed"}
    /\ q.owned
    /\ Waiting(q) # {}

SentItem(q) ==
    [q.items[LeastIn(Waiting(q))] EXCEPT !.st = "sending", !.closed = FALSE]

Drained(q, l) ==
    IF CanDrain(q, l)
    THEN [q EXCEPT !.items  = Without(@, SentItem(q).id),
                   !.active = SentItem(q)]
    ELSE IF q.active = None /\ ~q.paused THEN Checked(q, l) ELSE q

\* #resumeAfterActiveSettles up to its drain.
Resumed(q) == [q EXCEPT !.paused = FALSE, !.resume = FALSE]

-----------------------------------------------------------------------------
(* #commit and #persist.  saveNow writes the snapshots of one key in order,  *)
(* each may fail, and the store is read only at startup: what it holds then  *)
(* is some snapshot committed so far, and never an older one than before.    *)
(* MaxLag bounds how far it falls behind.                                    *)

NothingSaved == [active |-> None, editing |-> None, items |-> <<>>]

Saved(q) == [active |-> q.active, editing |-> q.editing, items |-> q.items]

Persist(versions) ==
    /\ disk' \in {disk} \cup {Saved(q) : q \in versions}
    /\ lag' = IF disk' = Saved(queue') THEN 0 ELSE lag + 1
    /\ lag' <= MaxLag

NoCommit == UNCHANGED <<disk, lag>>

Commit(q) ==
    /\ queue' = q
    /\ Persist({q})
    /\ flight' = flight

\* A commit, then #drain with its own commit and its dispatch.
CommitAndDrain(q, l) ==
    LET d == Drained(q, l) IN
    /\ queue' = d
    /\ Persist({q, d})
    /\ IF CanDrain(q, l)
       THEN /\ flight[d.active.id] < MaxFlight
            /\ flight' = [flight EXCEPT ![d.active.id] = @ + 1]
       ELSE flight' = flight

\* An operation that ends early: only #isTerminal may have committed.
Touch(q) ==
    /\ queue' = q
    /\ IF q.terminal = queue.terminal THEN NoCommit ELSE Persist({q})
    /\ flight' = flight

NothingQueued == queue' = queue /\ NoCommit /\ flight' = flight

-----------------------------------------------------------------------------
(* What the user does, through the IPC handlers of the session's window.     *)

\* Every operation opens the record, binds the window that asks, and asks
\* #isTerminal.
Bound(l) == [Opened(queue, l) EXCEPT !.owned = TRUE]

Asked == Checked(Bound(live), live)

\* The user has told the queue to go on.
Release == hold' = "none"

KeepHold == hold' = hold

UserKeeps == UNCHANGED <<live, steers, used, gone>>

\* bindSession and getSnapshot
GetSnapshot ==
    /\ ~gone
    /\ Touch(Asked)
    /\ KeepHold
    /\ UserKeeps

Enqueued(q, p) ==
    IF q.paused
    THEN [q EXCEPT !.items = <<New(p)>> \o @, !.paused = FALSE]
    ELSE [q EXCEPT !.items = Append(@, New(p))]

\* The body of enqueue, which update shares for a prompt it cannot find.
EnqueueInto(q, p) ==
    IF q.terminal
    THEN Commit([q EXCEPT !.items = Append(@, ClosedItem(New(p))),
                          !.paused = TRUE])
    ELSE CommitAndDrain(Enqueued(q, p), live)

Enqueue(p) ==
    /\ ~gone
    /\ p \notin used
    /\ used' = used \cup {p}
    /\ EnqueueInto(Asked, p)
    /\ Release
    /\ UNCHANGED <<live, steers, gone>>

\* The items with the prompt being edited put back where it was.
\* Mutant: the prompt put back is still marked as being edited.
EditRestoredAsIs(q) ==
    IF q.editing = None THEN q.items
    ELSE InsertAtPosition(q.items, q.editing, q.pos)

\* Mutant: opening another prompt for editing forgets the one open before.
EditForgotten(q) == q.items

EditRestored(q) ==
    IF q.editing = None THEN q.items
    ELSE InsertAtPosition(q.items, Requeued(q.editing), q.pos)

BeginEdit(p) ==
    /\ ~gone
    /\ p \in used
    /\ LET q == Asked
            items == EditRestored(q)
            at == LeastIn(IndicesOf(items, p))
       IN  IF \/ q.terminal
              \/ q.editing # None /\ q.editing.id = p
              \/ ~Holds(items, p)
           THEN Touch(q)
           ELSE Commit([q EXCEPT
                          !.pos = PositionOf(items, at),
                          !.editing = [items[at] EXCEPT !.st = "editing"],
                          !.items = Without(items, p)])
    /\ KeepHold
    /\ UserKeeps

CancelEdit ==
    /\ ~gone
    /\ LET q == Asked IN
       IF q.terminal \/ q.editing = None
       THEN Touch(q)
       ELSE CommitAndDrain([q EXCEPT !.items = EditRestored(q),
                                     !.editing = None, !.pos = None], live)
    /\ KeepHold
    /\ UserKeeps

\* The window submits the text of p.  Its view may be behind the queue: then
\* p is not, or no longer, the prompt that the queue holds open for editing.
Update(p) ==
    /\ ~gone
    /\ p \in used
    /\ LET q == Asked
            edits == q.editing # None /\ q.editing.id = p
       IN  /\ StaleEdits \/ edits
           /\ IF q.terminal
              THEN Touch(q)
              ELSE IF ~edits /\ ~Holds(q.items, p)
              THEN EnqueueInto(q, p)
              ELSE CommitAndDrain(
                     [q EXCEPT !.items = InsertAtPosition(@, New(p), q.pos),
                               !.editing = None, !.pos = None,
                               !.paused = FALSE], live)
    /\ Release
    /\ UserKeeps

Remove(p) ==
    /\ ~gone
    /\ p \in used
    /\ LET q == Bound(live)
            edits == q.editing # None /\ q.editing.id = p
       IN  IF ~Holds(q.items, p) /\ ~edits
           THEN Touch(q)
           ELSE CommitAndDrain(
                  [q EXCEPT !.items = Without(@, p),
                            !.editing = IF edits THEN None ELSE @,
                            !.pos = IF edits THEN None ELSE @], live)
    /\ KeepHold
    /\ UserKeeps

Clear ==
    /\ ~gone
    /\ LET q == Asked IN
       Commit([q EXCEPT !.items = <<>>, !.editing = None, !.pos = None,
                        !.paused = q.terminal, !.resume = FALSE])
    /\ Release
    /\ UserKeeps

\* "Send now": p goes to the front; a busy session is cancelled first.
Steer(p) ==
    /\ ~gone
    /\ p \in used
    /\ LET q == Asked
            first == [ItemAt(q.items, p) EXCEPT !.st = "queued",
                                                !.closed = FALSE]
            r == [q EXCEPT !.items = <<first>> \o Without(@, p)]
       IN  IF q.terminal \/ ~Holds(q.items, p)
           THEN Touch(q) /\ steers' = steers /\ KeepHold
           ELSE IF q.active # None \/ live = "busy"
           THEN /\ steers < MaxFlight
                /\ Commit([r EXCEPT !.paused = TRUE, !.resume = TRUE])
                /\ steers' = steers + 1
                /\ Release
           ELSE /\ CommitAndDrain([r EXCEPT !.paused = FALSE], live)
                /\ steers' = steers
                /\ Release
    /\ UNCHANGED <<live, used, gone>>

\* The promise of cancelSession settles; a failure takes back the resumption.
SteerSettles(ok) ==
    /\ steers > 0
    /\ steers' = steers - 1
    /\ IF ok
       THEN NothingQueued
       ELSE Commit([queue EXCEPT !.resume = FALSE])
    /\ KeepHold
    /\ UNCHANGED <<live, used, gone>>

\* The Stop button: service.cancelSession pauses before it cancels.
\* Mutant: a queue with a prompt in progress is not paused.
PausedUnlessActive(q) ==
    IF q.paused \/ q.active # None THEN q
    ELSE [q EXCEPT !.paused = TRUE, !.resume = FALSE]

Paused(q) == IF q.paused THEN q
             ELSE [q EXCEPT !.paused = TRUE, !.resume = FALSE]

Stop ==
    /\ ~gone
    /\ LET q == Opened(queue, live) IN
       IF q.paused THEN Touch(q) ELSE Commit(Paused(q))
    /\ hold' = IF queue.resume THEN "steered" ELSE "stopped"
    /\ UserKeeps

Delete ==
    /\ ~gone
    /\ gone' = TRUE
    /\ queue' = Absent
    /\ live' = "none"
    /\ disk' \in {disk, NothingSaved}
    /\ lag' = 0
    /\ flight' = [p \in Prompts |-> 0]
    /\ steers' = 0
    /\ hold' = "none"
    /\ used' = used
-----------------------------------------------------------------------------
(* What the runtime and the service do.  An event for a session without a    *)
(* record changes the live snapshot only; one for a deleted session nothing. *)

RuntimeKeeps == UNCHANGED <<steers, used, gone, hold>>

\* #resumeAfterActiveSettles
ResumeAfterActiveSettles(l) ==
    LET q == Checked(queue, l) IN
    IF q.terminal THEN Touch(q) ELSE CommitAndDrain(Resumed(q), l)

\* handleSessionSnapshot, with the snapshot of a session just prepared.
SessionSnapshot(l) ==
    /\ ~gone
    /\ l \in {"idle", "busy", "closed"}
    /\ live' = l
    /\ LET closed == Terminalized(queue)
            open ==
              IF ~queue.terminal THEN queue
              ELSE [queue EXCEPT
                      !.active = None, !.editing = None, !.pos = None,
                      !.items = Select(@, {i \in DOMAIN @ : ~@[i].closed}),
                      !.paused = FALSE, !.resume = FALSE, !.terminal = FALSE]
       IN  IF ~queue.known THEN NothingQueued
           ELSE IF l = "closed" THEN Touch(closed)
           ELSE IF open.active # None \/ l = "busy"
                   \/ (open.paused /\ ~open.resume)
           THEN Touch(open)
           ELSE IF open.resume THEN CommitAndDrain(Resumed(open), l)
           ELSE CommitAndDrain(open, l)
    /\ RuntimeKeeps

\* handleSessionEvent: the service applies the event to the live snapshot, if
\* it has one, before the queue sees it; closedAt survives a status.  A session
\* in error is not busy, but only an idle event resumes the queue.
StatusEvent(status) ==
    /\ ~gone
    /\ live' = IF live \in {"none", "closed"} THEN live
               ELSE IF status = "busy" THEN "busy" ELSE "idle"
    /\ IF queue.known /\ status = "idle" /\ queue.active = None /\ queue.resume
       THEN ResumeAfterActiveSettles(live')
       ELSE NothingQueued
    /\ RuntimeKeeps

\* A turn that is completed or cancelled has settled.  Mutant: a queue waiting
\* to resume is left waiting.
SettledStillPaused(q, result) ==
    [q EXCEPT
       !.active = None,
       !.items = IF result = "failed" THEN <<Failed(q.active)>> \o @ ELSE @]

Settled(q, result) ==
    [q EXCEPT
       !.active = None,
       !.items = IF result = "failed" THEN <<Failed(q.active)>> \o @ ELSE @,
       !.paused = @ /\ ~q.resume,
       !.resume = FALSE]

\* t is the id of the turn: of a prompt, or None for a turn of other origin.
TurnStatus(t, result) ==
    /\ ~gone
    /\ queue.known
    /\ IF queue.active = None
       THEN IF queue.resume THEN ResumeAfterActiveSettles(live)
            ELSE NothingQueued
       ELSE IF queue.active.id # t THEN NothingQueued
       ELSE IF result = "failed" THEN Commit(Settled(queue, result))
       ELSE CommitAndDrain(Settled(queue, result), live)
    /\ live' = live
    /\ RuntimeKeeps

UserMessage(p) ==
    /\ ~gone
    /\ queue.known
    /\ queue.active # None
    /\ queue.active.id = p
    /\ queue.active.st # "running"
    /\ Commit([queue EXCEPT !.active.st = "running"])
    /\ live' = live
    /\ RuntimeKeeps

SessionClosed ==
    /\ ~gone
    /\ live' = IF live = "none" THEN live ELSE "closed"
    /\ IF queue.known THEN Touch(Terminalized(queue)) ELSE NothingQueued
    /\ RuntimeKeeps

\* A subagent's persisted snapshot is adopted: the queue is not told.
AdoptSnapshot(l) ==
    /\ ~gone
    /\ l \in {"idle", "busy", "closed"}
    /\ live' = l
    /\ NothingQueued
    /\ RuntimeKeeps

\* #clearLiveSession, #detachLiveSession: the live snapshot is forgotten.
ForgetLive ==
    /\ live # "none"
    /\ live' = "none"
    /\ NothingQueued
    /\ RuntimeKeeps

\* #dispatch resumes with what sendPrompt answered: it was accepted, it failed
\* (an error, or a refusal), or the runtime said that the session is busy.
PutBack(q, p, status) ==
    [q EXCEPT !.active = None, !.items = <<[New(p) EXCEPT !.st = status]>> \o @]

\* Mutant: an answer is taken for the prompt now in progress, whichever it is.
AnsweredUncorrelated(q, p, outcome) ==
    IF q.active = None THEN q
    ELSE IF outcome = "accepted" THEN [q EXCEPT !.active.st = "running"]
    ELSE PutBack(q, p, IF outcome = "busy" THEN "pending_dispatch" ELSE "failed")

\* Mutant: a prompt that was accepted is done with.
AnsweredAsDone(q, p, outcome) ==
    IF q.active = None \/ q.active.id # p THEN q
    ELSE IF outcome = "accepted" THEN [q EXCEPT !.active = None]
    ELSE PutBack(q, p, IF outcome = "busy" THEN "pending_dispatch" ELSE "failed")

\* Mutant: a busy session leaves the prompt as it is, to be sent again later.
AnsweredBusyIgnored(q, p, outcome) ==
    IF q.active = None \/ q.active.id # p \/ outcome = "busy" THEN q
    ELSE IF outcome = "accepted" THEN [q EXCEPT !.active.st = "running"]
    ELSE PutBack(q, p, "failed")

Answered(q, p, outcome) ==
    IF q.active = None \/ q.active.id # p THEN q
    ELSE IF outcome = "accepted" THEN [q EXCEPT !.active.st = "running"]
    ELSE PutBack(q, p, IF outcome = "busy" THEN "pending_dispatch" ELSE "failed")

DispatchSettles(p, outcome) ==
    /\ flight[p] > 0
    /\ flight' = [flight EXCEPT ![p] = @ - 1]
    /\ queue' = Answered(queue, p, outcome)
    /\ IF queue' = queue THEN NoCommit ELSE Persist({queue'})
    /\ live' = live
    /\ RuntimeKeeps

\* The application stops, by a crash or by the user, and starts again.  The
\* constructor runs when no session is live yet.
RestoredItems(d) ==
    LET active == IF d.active = None THEN <<>>
                  ELSE <<[d.active EXCEPT !.st = "pending_dispatch",
                                          !.closed = FALSE]>>
        editing == IF d.editing = None THEN <<>>
                   ELSE <<[d.editing EXCEPT !.st = "queued",
                                            !.closed = FALSE]>>
        kept == [i \in DOMAIN d.items |->
                   IF d.items[i].st \in {"running", "sending"}
                   THEN [d.items[i] EXCEPT !.st = "pending_dispatch"]
                   ELSE d.items[i]]
    IN  Deduplicated(active \o editing \o kept)

\* Mutant: the restored queue goes on by itself.
RestoredUnpaused(d) ==
    IF d = NothingSaved THEN Absent
    ELSE [Record(TRUE, FALSE) EXCEPT !.items = RestoredItems(d)]

Restored(d) ==
    IF d = NothingSaved THEN Absent
    ELSE [Record(TRUE, FALSE) EXCEPT !.items = RestoredItems(d),
                                     !.paused = TRUE]

Restart ==
    /\ queue' = Restored(disk)
    /\ live' = "none"
    /\ flight' = [p \in Prompts |-> 0]
    /\ steers' = 0
    /\ hold' = IF queue'.known THEN "restored" ELSE "none"
    /\ lag' = 0
    /\ UNCHANGED <<disk, used, gone>>

-----------------------------------------------------------------------------
Init ==
    /\ queue = Absent
    /\ live = "none"
    /\ flight = [p \in Prompts |-> 0]
    /\ steers = 0
    /\ disk = NothingSaved
    /\ lag = 0
    /\ used = {}
    /\ gone = FALSE
    /\ hold = "none"

UserStep ==
    \/ GetSnapshot
    \/ CancelEdit
    \/ Clear
    \/ Stop
    \/ Delete
    \/ \E p \in Prompts :
         Enqueue(p) \/ BeginEdit(p) \/ Update(p) \/ Remove(p) \/ Steer(p)

RuntimeStep ==
    \/ \E l \in {"idle", "busy", "closed"} :
         SessionSnapshot(l) \/ AdoptSnapshot(l)
    \/ \E status \in {"idle", "error", "busy"} : StatusEvent(status)
    \/ \E t \in Prompts \cup {None}, r \in {"settled", "failed"} :
         TurnStatus(t, r)
    \/ \E p \in Prompts, o \in {"accepted", "failed", "busy"} :
         DispatchSettles(p, o)
    \/ \E p \in Prompts : UserMessage(p)
    \/ \E ok \in BOOLEAN : SteerSettles(ok)
    \/ SessionClosed
    \/ ForgetLive

Next == UserStep \/ RuntimeStep \/ Restart

Spec == Init /\ [][Next]_vars

-----------------------------------------------------------------------------
(* Properties *)

ActiveItems == {item \in Items : item.st \in {"sending", "running"}}

EditingItems == {item \in Items : item.st = "editing"}

WaitingItems ==
    {item \in Items : item.st \in {"queued", "pending_dispatch", "failed"}}

Records ==
    [known : BOOLEAN,
     active : ActiveItems \cup {None},
     editing : EditingItems \cup {None},
     pos : Positions \cup {None},
     items : Seq(WaitingItems),
     owned : BOOLEAN, paused : BOOLEAN, resume : BOOLEAN, terminal : BOOLEAN]

Snapshots ==
    [active : ActiveItems \cup {None},
     editing : EditingItems \cup {None},
     items : Seq(WaitingItems)]

\* Types; an item's status always agrees with the place that holds it.
TypeOK ==
    /\ queue \in Records
    /\ live \in {"none", "idle", "busy", "closed"}
    /\ flight \in [Prompts -> 0..MaxFlight]
    /\ steers \in 0..MaxFlight
    /\ disk \in Snapshots
    /\ lag \in 0..MaxLag
    /\ used \in SUBSET Prompts
    /\ gone \in BOOLEAN
    /\ hold \in {"none", "restored", "stopped", "steered"}

QueuedIds == LET all == AllItems(queue) IN {all[i].id : i \in DOMAIN all}

\* The queue of a closed session is inert: nothing active, nothing open for
\* editing, every prompt failed.  Nothing can then be dispatched into it,
\* whatever answers, events and edits were still on their way.
TerminalIsInert == queue.terminal => Inert(queue)

\* No prompt is in two places of the queue, so none can be sent twice: not
\* while it is dispatched, edited, put back, restored or failed.
NoPromptTwice ==
    LET all == AllItems(queue) IN
    \A i, j \in DOMAIN all : all[i].id = all[j].id => i = j

\* A prompt shown as being sent has a dispatch whose answer will settle it:
\* no order of answers, closings and retries leaves the queue waiting behind
\* a prompt that nobody is sending.
SendingHasDispatch ==
    queue.active # None /\ queue.active.st = "sending"
        => flight[queue.active.id] > 0

\* A prompt the user queued leaves the queue only when its turn ends, when
\* the user discards it, when the session that failed it is prepared again or
\* deleted, or when the application stops.
PromptsAreKept ==
    [][\A p \in QueuedIds \ QueuedIds' :
            \/ TurnStatus(p, "settled")
            \/ Remove(p)
            \/ Clear
            \/ queue.terminal /\ \E l \in {"idle", "busy"} : SessionSnapshot(l)
            \/ Delete
            \/ Restart]_vars

Sends == \E p \in Prompts : flight'[p] > flight[p]

\* What was queued or in progress when the application stopped is not sent
\* again before the user asks for it: by a new prompt, a submitted edit, or
\* "send now".
RestoredWorkWaits ==
    [][hold = "restored" /\ hold' = "restored" => ~Sends]_vars

\* After Stop nothing more is sent before the user says so, whatever events
\* the cancelled turn still causes.  Stop marks with "steered" the case in which
\* a steering still waits to resume the queue; here none does.
StopHolds ==
    [][hold = "stopped" /\ hold' = "stopped" => ~Sends]_vars
=============================================================================
