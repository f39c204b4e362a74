------------------------- MODULE WorkspaceSurfaces -------------------------
(***************************************************************************)
(* The workspaces of one window.  Each opened workspace has a renderer of  *)
(* its own, its surface; one of them is shown.  The activation coordinator *)
(* takes a workspace from cold to shown and from shown to cold over a pool *)
(* of entries; the surface manager holds the renderers, what is shown and  *)
(* a write-behind that records it, so that the next start opens the same   *)
(* workspace.                                                              *)
(*                                                                         *)
(* Activations and closings of different workspaces run at once and wait   *)
(* for renderers, for flushes and for the store.  Between two waits the    *)
(* main process runs to completion: what a settled promise lets go on goes *)
(* on before the next event (Calm).  #operation only tells whether a call  *)
(* is the last one that began, so latest names that call instead.          *)
(*                                                                         *)
(* Left out: bounds, visibility and focus, which follow from what is       *)
(* shown; the actions and leases of a renderer beyond their effect on a    *)
(* preparation; a workspace leaving the registry, which is a closing; the  *)
(* refusals of calls that a running call of the same kind answers.         *)
(***************************************************************************)
CONSTANTS
  Scopes,       \* the workspaces of the window
  Generations,  \* the ids of surfaces, which may be used again
  None,
  LateRefusals, \* whether a renderer may refuse after a newer call began
  Overlaps      \* whether the user may activate while a clearing is recorded

ASSUME SurfaceConstants ==
  /\ None \notin Scopes \cup Generations /\ Generations # {}
  /\ LateRefusals \in BOOLEAN /\ Overlaps \in BOOLEAN

VARIABLES
  (* the surface manager *)
  surface,     \* a workspace's renderer, or None
  restore,     \* what it reported: "none", "loading", "ready", "failed"
  shown,       \* the workspace the window shows (activeScopeKey), or None
  quit,        \* the window's closing: "open", "queued", "writing", "flushed"
  (* the coordinator and its pool *)
  pool,
  committed,   \* committedScopeKey
  latest,      \* the call that began last
  activation,  \* "none", or whether the surface was "created" or "reused"
  closing,
  (* the record of what is shown *)
  durable,     \* what the store holds
  loop,        \* the write under way, and whether it is of the present epoch
  next,        \* what the loop has to write after it, or None
  retry,       \* what the retry timer will write, or None
  lost         \* history: a flush failed, and nothing was shown since

record == <<loop, next, retry, lost>>
view == <<shown, committed>>
surfaces == <<surface, restore, pool, activation>>
vars == <<surfaces, view, quit, latest, closing, durable, record>>

Targets == Scopes \cup {None}

Cold == [state |-> "cold", gen |-> None, before |-> "none"]
NotClosing == [stage |-> "none", gen |-> None, was |-> "none"]
NoWrite == [key |-> None, fresh |-> FALSE]

Activating(s) == <<"activate", s>>
Closing(s) == <<"close", s>>

InState(e, state) == [e EXCEPT !.state = state, !.before = "none"]

(* Both ways to be waiting for a record of "nothing shown".                *)
Clearing(s) == closing[s].stage \in {"queued", "writing"}

-----------------------------------------------------------------------------
(* What has to go on before anything else happens: an activation whose     *)
(* surface has answered, a closing whose activation has ended.             *)

CanContinue(s) == activation[s] # "none" /\ restore[s] \in {"ready", "failed"}
CanStartClose(s) == closing[s].stage = "waiting" /\ activation[s] = "none"

Calm == \A s \in Scopes : ~CanContinue(s) /\ ~CanStartClose(s)

Quiet == /\ \A s \in Scopes : activation[s] = "none" /\ closing[s] = NotClosing
         /\ loop.key = None /\ retry = None /\ quit = "open"

-----------------------------------------------------------------------------
(* The record: a loop that writes the last thing asked for, retries after  *)
(* a failure, and steps back for a flush, which waits for the write under  *)
(* way and then writes on its own.                                         *)

Schedule(s) ==
  /\ retry' = None /\ lost' = FALSE
  /\ IF loop.key = None
       THEN loop' = [key |-> s, fresh |-> TRUE] /\ next' = None
       ELSE loop' = [loop EXCEPT !.fresh = FALSE] /\ next' = s

(* Mutant: the retry timer is left running.                                *)
FlushBesideTimer ==
  /\ UNCHANGED <<retry, lost>> /\ next' = None
  /\ loop' = [loop EXCEPT !.fresh = FALSE]

Flush ==
  /\ retry' = None /\ next' = None
  /\ loop' = [loop EXCEPT !.fresh = FALSE]
  /\ UNCHANGED lost

FlushStage == IF loop.key = None THEN "writing" ELSE "queued"

(* The loop's promise has resolved: who waited for it writes.              *)
Released(stage) == IF stage = "queued" THEN "writing" ELSE stage

Release ==
  /\ closing' = [s \in Scopes |-> [closing[s] EXCEPT !.stage = Released(@)]]
  /\ quit' = Released(quit)

LoopSettles ==
  /\ loop.key # None
  /\ \E landed \in BOOLEAN, d \in {durable, loop.key} :
       /\ landed => d = loop.key
       /\ durable' = d
       /\ IF next # None
            THEN /\ loop' = [key |-> next, fresh |-> TRUE] /\ next' = None
                 /\ UNCHANGED <<retry, closing, quit>>
            ELSE /\ loop' = NoWrite
                 /\ retry' = IF ~landed /\ loop.fresh THEN loop.key ELSE None
                 /\ Release /\ UNCHANGED next
  /\ UNCHANGED <<surfaces, view, latest, lost>>

RetryFires ==
  /\ retry # None
  /\ loop' = [key |-> retry, fresh |-> TRUE] /\ retry' = None
  /\ UNCHANGED <<surfaces, view, quit, latest, closing, durable, next, lost>>

-----------------------------------------------------------------------------
(* Activation.                                                             *)

(* Ids are compared within a workspace only, so one that the workspace no  *)
(* longer knows is as good as new.                                         *)
Known(s) == {surface[s], pool[s].gen, closing[s].gen}
Fresh(s) == CHOOSE g \in Generations : g \notin Known(s)

MayActivate(s) ==
  /\ activation[s] = "none"
  /\ ~(committed = s /\ pool[s].state = "active")
  /\ Overlaps \/ \A t \in Scopes : ~Clearing(t)

(* A pool entry that still holds another surface refuses the new one.      *)
ActivateCold(s) ==
  /\ MayActivate(s) /\ surface[s] = None
  /\ ~(Generations \subseteq Known(s))
  /\ latest' = Activating(s)
  /\ surface' = [surface EXCEPT ![s] = Fresh(s)]
  /\ restore' = [restore EXCEPT ![s] = "loading"]
  /\ IF pool[s].gen = None
       THEN /\ pool' = [pool EXCEPT ![s] =
                          [state |-> "warming", gen |-> Fresh(s), before |-> "none"]]
            /\ activation' = [activation EXCEPT ![s] = "created"]
       ELSE UNCHANGED <<pool, activation>>
  /\ UNCHANGED <<view, quit, closing, durable, record>>

ActivateResident(s) ==
  /\ MayActivate(s) /\ surface[s] # None
  /\ latest' = Activating(s)
  /\ pool' = IF pool[s].state = "error"
               THEN [pool EXCEPT ![s] = InState(@, "warming")] ELSE pool
  /\ activation' = [activation EXCEPT ![s] = "reused"]
  /\ UNCHANGED <<surface, restore, view, quit, closing, durable, record>>

(* The surface goes, and whoever waited for it with it.                    *)
Discard(s) ==
  /\ surface' = [surface EXCEPT ![s] = None]
  /\ restore' = [restore EXCEPT ![s] = "none"]
  /\ pool' = [pool EXCEPT ![s] = Cold]
  /\ activation' = [activation EXCEPT ![s] = "none"]

Leave(s, entry) ==
  /\ pool' = [pool EXCEPT ![s] = entry]
  /\ activation' = [activation EXCEPT ![s] = "none"]
  /\ UNCHANGED <<surface, restore>>

CanCommit(s) ==
  /\ pool[s].gen = surface[s]
  /\ pool[s].state \in {"warming", "warm", "active"}
  /\ quit = "open"

Commit(s) ==
  /\ pool' = [t \in Scopes |->
                CASE t = s -> InState(pool[s], "active")
                  [] t # s /\ pool[t].state = "active" -> InState(pool[t], "warm")
                  [] OTHER -> pool[t]]
  /\ activation' = [activation EXCEPT ![s] = "none"]
  /\ shown' = s /\ committed' = s
  /\ Schedule(s)
  /\ UNCHANGED <<surface, restore>>

(* Mutant: the entry goes cold and its renderer is left.                   *)
FailAndLeak(s) ==
  /\ Leave(s, IF activation[s] = "created" THEN Cold ELSE InState(pool[s], "error"))
  /\ UNCHANGED <<view, record>>

Fail(s) ==
  /\ IF pool[s].gen # surface[s] THEN Leave(s, pool[s])
     ELSE IF activation[s] = "created" THEN Discard(s)
     ELSE Leave(s, InState(pool[s], "error"))
  /\ UNCHANGED <<view, record>>

RollBack(s) ==
  /\ IF activation[s] = "created" THEN Discard(s)
     ELSE Leave(s, IF pool[s].state = "warming"
                     THEN InState(pool[s], "warm") ELSE pool[s])
  /\ UNCHANGED <<view, record>>

Continue(s) ==
  /\ CanContinue(s)
  /\ CASE restore[s] = "failed" -> Fail(s)
       [] restore[s] = "ready" /\ latest # Activating(s) -> RollBack(s)
       [] restore[s] = "ready" /\ latest = Activating(s) ->
            IF CanCommit(s) THEN Commit(s) ELSE Fail(s)
  /\ UNCHANGED <<quit, latest, closing, durable>>

TimesOut(s) ==
  /\ activation[s] # "none" /\ restore[s] = "loading"
  /\ Fail(s)
  /\ UNCHANGED <<quit, latest, closing, durable>>

-----------------------------------------------------------------------------
(* What a renderer does by itself.                                         *)

Reports(s, what) ==
  /\ surface[s] # None
  /\ restore' = [restore EXCEPT ![s] = what]
  /\ UNCHANGED <<surface, pool, activation, view, quit, latest, closing,
                 durable, record>>

SurfaceReady(s) == restore[s] = "loading" /\ Reports(s, "ready")
RestoreFails(s) == restore[s] = "loading" /\ Reports(s, "failed")
Reload(s) == restore[s] \in {"ready", "failed"} /\ Reports(s, "loading")

(* Mutant: whoever waits for the surface is not told.                      *)
CrashUnnoticed(s) ==
  /\ surface[s] # None
  /\ surface' = [surface EXCEPT ![s] = None]
  /\ restore' = [restore EXCEPT ![s] = "none"]
  /\ pool' = [pool EXCEPT ![s] = Cold]
  /\ UNCHANGED <<activation, view, quit, latest, closing, durable, record>>

Crash(s) ==
  /\ surface[s] # None
  /\ IF pool[s].gen = surface[s] THEN Discard(s)
     ELSE /\ surface' = [surface EXCEPT ![s] = None]
          /\ restore' = [restore EXCEPT ![s] = "none"]
          /\ activation' = [activation EXCEPT ![s] = "none"]
          /\ UNCHANGED pool
  /\ UNCHANGED <<view, quit, latest, closing, durable, record>>

-----------------------------------------------------------------------------
(* Closing a workspace.                                                    *)

CloseWorkspace(s) ==
  /\ closing[s].stage = "none"
  /\ closing' = [closing EXCEPT ![s].stage = "waiting"]
  /\ UNCHANGED <<surfaces, view, quit, latest, durable, record>>

Stage(s, stage) ==
  closing' = [closing EXCEPT ![s] =
                [stage |-> stage, gen |-> pool[s].gen, was |-> pool[s].state]]

Ended(s) == closing' = [closing EXCEPT ![s] = NotClosing]

(* commitActiveScope(null): nothing is shown from here on, and the store   *)
(* is told; while the window closes, it throws.                            *)
ShowNothing(s) ==
  /\ quit = "open"
  /\ shown' = None
  /\ Flush
  /\ closing' = [closing EXCEPT ![s].stage = FlushStage]

RefuseClose(s) ==
  /\ CanStartClose(s)
  /\ pool[s].state \notin {"active", "warm"}
  /\ Ended(s)
  /\ UNCHANGED <<surfaces, view, quit, latest, durable, record>>

CloseFailed(s) ==
  /\ CanStartClose(s) /\ pool[s].state = "error"
  /\ latest' = Closing(s)
  /\ IF committed = s
       THEN /\ IF quit = "open"
                 THEN /\ shown' = None /\ Flush /\ Stage(s, FlushStage)
                 ELSE /\ Ended(s) /\ UNCHANGED <<shown, record>>
            /\ UNCHANGED surfaces
       ELSE Discard(s) /\ Ended(s) /\ UNCHANGED <<shown, record>>
  /\ UNCHANGED <<committed, quit, durable>>

Prepare(s) ==
  /\ CanStartClose(s) /\ pool[s].state \in {"active", "warm"}
  /\ latest' = Closing(s)
  /\ pool' = [pool EXCEPT ![s].state = "suspending", ![s].before = pool[s].state]
  /\ Stage(s, "preparing")
  /\ UNCHANGED <<surface, restore, activation, view, quit, durable, record>>

(* Mutant: a call that began during the preparation is not looked for.     *)
NeverOvertaken(s) == FALSE

Overtaken(s) == latest # Closing(s)

(* Only an entry that still is what the closing made it goes back.         *)
Suspended(s) == pool[s].gen = closing[s].gen /\ pool[s].state = "suspending"

Resume(s, state) ==
  pool' = IF Suspended(s) THEN [pool EXCEPT ![s] = InState(@, state)] ELSE pool

PreparationFails(s) ==
  /\ closing[s].stage = "preparing"
  /\ surface[s] = closing[s].gen /\ Overtaken(s) => LateRefusals
  /\ Resume(s, pool[s].before)
  /\ Ended(s)
  /\ UNCHANGED <<surface, restore, activation, view, quit, latest, durable, record>>

Prepared(s) ==
  /\ closing[s].stage = "preparing" /\ surface[s] = closing[s].gen
  /\ \/ /\ Overtaken(s)
        /\ Resume(s, IF committed = s THEN "active" ELSE "warm")
        /\ Ended(s)
        /\ UNCHANGED <<surface, restore, activation, shown, record>>
     \/ /\ ~Overtaken(s) /\ closing[s].was = "warm"
        /\ Discard(s)
        /\ Ended(s)
        /\ UNCHANGED <<shown, record>>
     \/ /\ ~Overtaken(s) /\ closing[s].was = "active"
        /\ IF quit = "open"
             THEN ShowNothing(s) /\ UNCHANGED surfaces
             ELSE /\ Resume(s, pool[s].before)
                  /\ Ended(s)
                  /\ UNCHANGED <<surface, restore, activation, shown, record>>
  /\ UNCHANGED <<committed, quit, latest, durable>>

(* The states in which the pool lets the surface go: beginDisposing, or,   *)
(* for one that had failed, commitCold, which comes after the renderer is  *)
(* destroyed.                                                              *)
Disposable(s) ==
  /\ pool[s].gen = closing[s].gen
  /\ pool[s].state \in {"warming", "suspending", "error"}
                         \cup (IF closing[s].was = "error" THEN {} ELSE {"active", "warm"})

Cleared(s) ==
  /\ closing[s].stage = "writing"
  /\ durable' = None /\ committed' = None
  /\ IF surface[s] = closing[s].gen
       THEN IF Disposable(s) THEN Discard(s)
            ELSE /\ surface' = [surface EXCEPT ![s] = None]
                 /\ restore' = [restore EXCEPT ![s] = "none"]
                 /\ activation' = [activation EXCEPT ![s] = "none"]
                 /\ UNCHANGED pool
       ELSE UNCHANGED surfaces
  /\ Ended(s)
  /\ UNCHANGED <<shown, quit, latest, record>>

ClearingFails(s) ==
  /\ closing[s].stage = "writing"
  /\ durable' \in {durable, None} /\ lost' = TRUE
  /\ Resume(s, pool[s].before)
  /\ Ended(s)
  /\ UNCHANGED <<surface, restore, activation, view, quit, latest, loop, next, retry>>

-----------------------------------------------------------------------------
(* Closing the window, and its next start.                                 *)

CloseWindow ==
  /\ quit = "open"
  /\ Flush
  /\ quit' = FlushStage
  /\ UNCHANGED <<surfaces, view, latest, closing, durable>>

WindowFlushed ==
  /\ quit = "writing"
  /\ durable' = shown /\ quit' = "flushed"
  /\ UNCHANGED <<surfaces, view, latest, closing, record>>

WindowFlushFails ==
  /\ quit = "writing"
  /\ durable' \in {durable, shown} /\ quit' = "open" /\ lost' = TRUE
  /\ UNCHANGED <<surfaces, view, latest, closing, loop, next, retry>>

(* A renderer refused: the window stays.                                   *)
StayOpen ==
  /\ quit = "flushed" /\ quit' = "open"
  /\ UNCHANGED <<surfaces, view, latest, closing, durable, record>>

(* The first registry of a window: what was shown counts as committed, and *)
(* its activation begins at once.                                          *)
Started(target, sf, re, po, ac) ==
  /\ sf = [s \in Scopes |-> IF s = target THEN CHOOSE g \in Generations : TRUE ELSE None]
  /\ re = [s \in Scopes |-> IF s = target THEN "loading" ELSE "none"]
  /\ po = [s \in Scopes |->
             IF s = target THEN [state |-> "warming", before |-> "none",
                                 gen |-> CHOOSE g \in Generations : TRUE]
             ELSE Cold]
  /\ ac = [s \in Scopes |-> IF s = target THEN "created" ELSE "none"]

Reopen ==
  /\ quit = "flushed"
  /\ durable' \in {durable} \cup (IF \E s \in Scopes : closing[s].stage = "writing"
                                    THEN {None} ELSE {})
  /\ Started(durable', surface', restore', pool', activation')
  /\ shown' = durable' /\ committed' = durable'
  /\ latest' = IF durable' = None THEN Closing(None) ELSE Activating(durable')
  /\ closing' = [s \in Scopes |-> NotClosing]
  /\ quit' = "open"
  /\ loop' = NoWrite /\ next' = None /\ retry' = None /\ lost' = FALSE

Init ==
  /\ durable \in Targets
  /\ Started(durable, surface, restore, pool, activation)
  /\ shown = durable /\ committed = durable
  /\ latest = IF durable = None THEN Closing(None) ELSE Activating(durable)
  /\ closing = [s \in Scopes |-> NotClosing]
  /\ quit = "open"
  /\ loop = NoWrite /\ next = None /\ retry = None /\ lost = FALSE

-----------------------------------------------------------------------------
User ==
  \/ \E s \in Scopes : ActivateCold(s) \/ ActivateResident(s) \/ CloseWorkspace(s)
  \/ CloseWindow \/ StayOpen \/ Reopen

Renderer == \E s \in Scopes : Reload(s) \/ Crash(s)

GoesOn(s) == Continue(s) \/ RefuseClose(s) \/ CloseFailed(s) \/ Prepare(s)
Restores(s) == SurfaceReady(s) \/ RestoreFails(s) \/ TimesOut(s)
ClosesOn(s) == Prepared(s) \/ PreparationFails(s) \/ Cleared(s) \/ ClearingFails(s)
Writes == LoopSettles \/ RetryFires \/ WindowFlushed \/ WindowFlushFails

Next ==
  \/ \E s \in Scopes : GoesOn(s)
  \/ /\ Calm
     /\ \/ User \/ Renderer \/ Writes
        \/ \E s \in Scopes : Restores(s) \/ ClosesOn(s)

Spec == Init /\ [][Next]_vars

-----------------------------------------------------------------------------
PoolStates == {"cold", "warming", "warm", "active", "suspending", "error"}

(* What every variable holds; an entry remembers what it was only while it *)
(* is suspended, and an activation waits only where there is a renderer.   *)
TypeOK ==
  /\ surface \in [Scopes -> Generations \cup {None}]
  /\ restore \in [Scopes -> {"none", "loading", "ready", "failed"}]
  /\ pool \in [Scopes -> [state : PoolStates, gen : Generations \cup {None},
                          before : {"none", "active", "warm"}]]
  /\ activation \in [Scopes -> {"none", "created", "reused"}]
  /\ closing \in [Scopes -> [stage : {"none", "waiting", "preparing", "queued", "writing"},
                             gen : Generations \cup {None}, was : PoolStates \cup {"none"}]]
  /\ {shown, committed, durable, next, retry} \subseteq Targets
  /\ quit \in {"open", "queued", "writing", "flushed"}
  /\ latest \in {"activate", "close"} \X Targets
  /\ loop \in [key : Targets, fresh : BOOLEAN] /\ lost \in BOOLEAN
  /\ \A s \in Scopes : /\ pool[s].before # "none" <=> pool[s].state = "suspending"
                       /\ activation[s] # "none" => surface[s] # None

(* A workspace has a renderer exactly while its pool entry holds it: none  *)
(* is leaked, and none is missed by the next activation, whatever crashes, *)
(* reloads, times out or is closed in between.                             *)
RenderersAreTracked ==
  \A s \in Scopes : /\ surface[s] = pool[s].gen
                    /\ pool[s].state = "cold" <=> pool[s].gen = None

(* When every call has ended, at most one entry is active, the one the     *)
(* coordinator committed, and nothing else is shown.  The window and the   *)
(* store agree with it too, unless a flush failed since the last           *)
(* activation.                                                             *)
Agreement ==
  Quiet => /\ shown \in {None, committed}
           /\ \A s \in Scopes : pool[s].state = "active" => s = committed
           /\ ~lost => committed = shown /\ durable = shown

(* Only its own closing takes a workspace from the screen.                 *)
OnlyItsOwnClosing ==
  [][\A s \in Scopes : shown = s /\ shown' = None /\ quit = "open" =>
        closing[s].stage \in {"waiting", "preparing"}]_vars
=============================================================================
