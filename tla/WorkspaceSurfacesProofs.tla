---------------------- MODULE WorkspaceSurfacesProofs ----------------------
(***************************************************************************)
(* Theorems about WorkspaceSurfaces, for any workspaces and any ids of     *)
(* surfaces.  The types need no assumption.  The rest needs the two that   *)
(* the runs make: nobody activates while a record of "nothing shown" is    *)
(* awaited (Overlaps), and no renderer refuses a preparation that a newer  *)
(* call has overtaken (LateRefusals).                                      *)
(*                                                                         *)
(* The invariant is in two layers.  Inv is about the calls: a closing that *)
(* waits for its record is the one of the committed workspace, and a       *)
(* preparation that no call overtook still has its entry to itself; only   *)
(* so is what a closing puts back or throws away what it took.             *)
(* RecordHolds is about the write-behind: a flush has the record to        *)
(* itself, and what the loop and its timer are going to leave in the store *)
(* is what is shown.                                                       *)
(***************************************************************************)
EXTENDS WorkspaceSurfaces, TLAPS

-----------------------------------------------------------------------------
(* Types *)

Entries == [state : PoolStates, gen : Generations \cup {None},
            before : {"none", "active", "warm"}]

\* An entry remembers what it was only while it is suspended.
Sound(e) == e \in Entries /\ (e.before # "none" <=> e.state = "suspending")

SurfacesType ==
  /\ surface \in [Scopes -> Generations \cup {None}]
  /\ restore \in [Scopes -> {"none", "loading", "ready", "failed"}]
  /\ pool \in [Scopes -> Entries]
  /\ activation \in [Scopes -> {"none", "created", "reused"}]
  /\ \A s \in Scopes : Sound(pool[s]) /\ (activation[s] # "none" => surface[s] # None)

Closings == [stage : {"none", "waiting", "preparing", "queued", "writing"},
             gen : Generations \cup {None}, was : PoolStates \cup {"none"}]

ClosingType == closing \in [Scopes -> Closings]
QuitType == quit \in {"open", "queued", "writing", "flushed"}

ViewType ==
  /\ shown \in Targets /\ committed \in Targets /\ durable \in Targets
  /\ latest \in {"activate", "close"} \X Targets

RecordType ==
  /\ next \in Targets /\ retry \in Targets
  /\ loop \in [key : Targets, fresh : BOOLEAN] /\ lost \in BOOLEAN

LEMMA TypeParts ==
  TypeOK <=> SurfacesType /\ ClosingType /\ QuitType /\ ViewType /\ RecordType
BY DEF TypeOK, SurfacesType, ClosingType, QuitType, ViewType, RecordType,
       Sound, Entries, Closings

LEMMA TypePartsNext ==
  TypeOK' <=> SurfacesType' /\ ClosingType' /\ QuitType' /\ ViewType' /\ RecordType'
BY DEF TypeOK, SurfacesType, ClosingType, QuitType, ViewType, RecordType,
       Sound, Entries, Closings

LEMMA Kept ==
  /\ SurfacesType /\ UNCHANGED surfaces => SurfacesType'
  /\ ClosingType /\ UNCHANGED closing => ClosingType'
  /\ QuitType /\ UNCHANGED quit => QuitType'
  /\ RecordType /\ UNCHANGED record => RecordType'
BY DEF SurfacesType, ClosingType, QuitType, RecordType, surfaces, record

-----------------------------------------------------------------------------
(* The pieces the actions are made of. *)

LEMMA InStateSound ==
  ASSUME NEW e \in Entries, NEW state \in PoolStates \ {"suspending"}
  PROVE  Sound(InState(e, state))
BY DEF Sound, InState, Entries

LEMMA ColdSound == Sound(Cold)
BY DEF Sound, Cold, Entries, PoolStates

LEMMA WarmingSound ==
  \A g \in Generations : Sound([state |-> "warming", gen |-> g, before |-> "none"])
BY DEF Sound, Entries, PoolStates

Loops == [key : Targets, fresh : BOOLEAN]

LEMMA LoopSetAside ==
  ASSUME NEW l \in Loops
  PROVE  [l EXCEPT !.fresh = FALSE] \in Loops
BY DEF Loops

LEMMA LoopOf ==
  ASSUME NEW key \in Targets, NEW fresh \in BOOLEAN
  PROVE  [key |-> key, fresh |-> fresh] \in Loops
BY DEF Loops

LEMMA ScheduleType ==
  ASSUME RecordType, NEW s \in Scopes, Schedule(s)
  PROVE  RecordType'
<1>1. loop' \in Loops
  <2>1. s \in Targets /\ loop \in Loops
    BY DEF RecordType, Loops, Targets
  <2>. QED
    BY <2>1, LoopOf, LoopSetAside DEF Schedule
<1>2. next' \in Targets /\ retry' \in Targets /\ lost' \in BOOLEAN
  BY DEF RecordType, Schedule, Targets
<1>. QED
  BY <1>1, <1>2 DEF RecordType, Loops

LEMMA FlushType ==
  ASSUME RecordType, Flush
  PROVE  RecordType'
<1>1. loop' \in Loops
  BY LoopSetAside DEF RecordType, Flush, Loops
<1>2. next' \in Targets /\ retry' \in Targets /\ lost' \in BOOLEAN
  BY DEF RecordType, Flush, Targets
<1>. QED
  BY <1>1, <1>2 DEF RecordType, Loops

LEMMA DiscardType ==
  ASSUME SurfacesType, NEW s \in Scopes, Discard(s)
  PROVE  SurfacesType'
BY ColdSound DEF SurfacesType, Discard, Sound

LEMMA LeaveType ==
  ASSUME SurfacesType, NEW s \in Scopes, NEW e, Sound(e), Leave(s, e)
  PROVE  SurfacesType'
BY DEF SurfacesType, Leave, Sound

LEMMA PoolStepType ==
  ASSUME SurfacesType, NEW s \in Scopes, NEW e, Sound(e),
         pool' = [pool EXCEPT ![s] = e] \/ UNCHANGED pool,
         UNCHANGED <<surface, restore, activation>>
  PROVE  SurfacesType'
BY DEF SurfacesType, Sound

LEMMA GoneType ==
  ASSUME SurfacesType, NEW s \in Scopes,
         surface' = [surface EXCEPT ![s] = None],
         restore' = [restore EXCEPT ![s] = "none"],
         activation' = [activation EXCEPT ![s] = "none"], UNCHANGED pool
  PROVE  SurfacesType'
BY DEF SurfacesType

LEMMA ResumeType ==
  ASSUME SurfacesType, NEW s \in Scopes,
         NEW state, state \in {"active", "warm"} \/ state = pool[s].before,
         Resume(s, state), UNCHANGED <<surface, restore, activation>>
  PROVE  SurfacesType'
<1>1. CASE Suspended(s)
  <2>1. pool[s] \in Entries /\ state \in PoolStates \ {"suspending"}
    BY <1>1 DEF SurfacesType, Suspended, Sound, Entries, PoolStates
  <2>. QED
    BY <1>1, <2>1, InStateSound, PoolStepType DEF Resume
<1>2. CASE ~Suspended(s)
  BY <1>2, ColdSound, PoolStepType DEF Resume
<1>. QED
  BY <1>1, <1>2

LEMMA EndedType ==
  ASSUME ClosingType, NEW s \in Scopes, Ended(s)
  PROVE  ClosingType'
BY DEF ClosingType, Closings, Ended, NotClosing

LEMMA StageType ==
  ASSUME SurfacesType, ClosingType, NEW s \in Scopes,
         NEW stage \in {"preparing", "queued", "writing"}, Stage(s, stage)
  PROVE  ClosingType'
BY DEF SurfacesType, ClosingType, Closings, Entries, Stage

LEMMA MoveStageType ==
  ASSUME ClosingType, NEW s \in Scopes,
         NEW stage \in {"waiting", "queued", "writing"},
         closing' = [closing EXCEPT ![s].stage = stage]
  PROVE  ClosingType'
BY DEF ClosingType, Closings

LEMMA FlushStageType == FlushStage \in {"queued", "writing"}
BY DEF FlushStage

LEMMA ReleaseType ==
  ASSUME ClosingType, QuitType, Release
  PROVE  ClosingType' /\ QuitType'
BY DEF ClosingType, Closings, QuitType, Release, Released

-----------------------------------------------------------------------------
(* The actions keep the types. *)

LEMMA KnownFresh ==
  ASSUME NEW s \in Scopes, ~(Generations \subseteq Known(s))
  PROVE  Fresh(s) \in Generations \ Known(s)
BY DEF Fresh

LEMMA ActivateColdType ==
  ASSUME TypeOK, NEW s \in Scopes, ActivateCold(s)
  PROVE  TypeOK'
<1>. DEFINE g == Fresh(s)
            entry == [state |-> "warming", gen |-> g, before |-> "none"]
<1>1. g \in Generations /\ g # None /\ Sound(entry)
  BY KnownFresh, WarmingSound, SurfaceConstants DEF ActivateCold
<1>2. SurfacesType /\ MayActivate(s) /\ surface[s] = None
  BY TypeParts DEF ActivateCold
<1>3. surface' \in [Scopes -> Generations \cup {None}]
      /\ restore' \in [Scopes -> {"none", "loading", "ready", "failed"}]
  BY <1>1, <1>2 DEF SurfacesType, ActivateCold
<1>4. pool' \in [Scopes -> Entries] /\ \A t \in Scopes : Sound(pool'[t])
  BY <1>1, <1>2 DEF SurfacesType, ActivateCold, Sound
<1>5. activation' \in [Scopes -> {"none", "created", "reused"}]
      /\ \A t \in Scopes : activation'[t] # "none" => surface'[t] # None
  BY <1>1, <1>2 DEF SurfacesType, ActivateCold, MayActivate
<1>6. SurfacesType'
  BY <1>3, <1>4, <1>5 DEF SurfacesType
<1>7. latest' \in {"activate", "close"} \X Targets
  BY DEF ActivateCold, Activating, Targets
<1>. QED
  BY <1>6, <1>7, TypePartsNext, TypeParts, Kept DEF ActivateCold, ViewType, view

LEMMA ActivateResidentType ==
  ASSUME TypeOK, NEW s \in Scopes, ActivateResident(s)
  PROVE  TypeOK'
<1>1. SurfacesType /\ MayActivate(s) /\ surface[s] # None
  BY TypeParts DEF ActivateResident
<1>2. Sound(InState(pool[s], "warming"))
  BY <1>1, InStateSound DEF SurfacesType, PoolStates
<1>3. pool' \in [Scopes -> Entries] /\ \A t \in Scopes : Sound(pool'[t])
  BY <1>1, <1>2 DEF SurfacesType, ActivateResident, Sound
<1>4. activation' \in [Scopes -> {"none", "created", "reused"}]
      /\ \A t \in Scopes : activation'[t] # "none" => surface'[t] # None
  BY <1>1 DEF SurfacesType, ActivateResident
<1>5. SurfacesType'
  BY <1>1, <1>3, <1>4 DEF SurfacesType, ActivateResident
<1>6. latest' \in {"activate", "close"} \X Targets
  BY DEF ActivateResident, Activating, Targets
<1>. QED
  BY <1>5, <1>6, TypePartsNext, TypeParts, Kept DEF ActivateResident, ViewType, view

LEMMA FailType ==
  ASSUME SurfacesType, RecordType, NEW s \in Scopes, Fail(s)
  PROVE  SurfacesType' /\ RecordType' /\ UNCHANGED view
<1>1. Sound(pool[s]) /\ Sound(InState(pool[s], "error"))
  BY InStateSound DEF SurfacesType, PoolStates
<1>. QED
  BY <1>1, LeaveType, DiscardType, Kept DEF Fail

LEMMA RollBackType ==
  ASSUME SurfacesType, RecordType, NEW s \in Scopes, RollBack(s)
  PROVE  SurfacesType' /\ RecordType' /\ UNCHANGED view
<1>1. Sound(pool[s]) /\ Sound(InState(pool[s], "warm"))
  BY InStateSound DEF SurfacesType, PoolStates
<1>. QED
  BY <1>1, LeaveType, DiscardType, Kept DEF RollBack

LEMMA CommitType ==
  ASSUME SurfacesType, RecordType, NEW s \in Scopes, Commit(s)
  PROVE  SurfacesType' /\ RecordType' /\ shown' = s /\ committed' = s
<1>1. \A t \in Scopes : /\ Sound(pool[t]) /\ Sound(InState(pool[t], "active"))
                        /\ Sound(InState(pool[t], "warm"))
  BY InStateSound DEF SurfacesType, PoolStates
<1>2. \A t \in Scopes : Sound(pool'[t])
  BY <1>1 DEF Commit
<1>3. pool' \in [Scopes -> Entries]
  BY <1>1 DEF Commit, Sound
<1>4. activation' \in [Scopes -> {"none", "created", "reused"}]
      /\ \A t \in Scopes : activation'[t] # "none" => surface'[t] # None
  BY DEF SurfacesType, Commit
<1>5. SurfacesType'
  BY <1>2, <1>3, <1>4 DEF SurfacesType, Commit
<1>. QED
  BY <1>5, ScheduleType DEF Commit

LEMMA ContinueType ==
  ASSUME TypeOK, NEW s \in Scopes, Continue(s)
  PROVE  TypeOK'
<1>1. SurfacesType /\ RecordType /\ ViewType
  BY TypeParts
<1>2. Fail(s) \/ RollBack(s) \/ Commit(s)
  BY DEF Continue, CanContinue
<1>3. /\ SurfacesType' /\ RecordType'
      /\ UNCHANGED view \/ (shown' = s /\ committed' = s)
  BY <1>1, <1>2, FailType, RollBackType, CommitType
<1>4. ViewType'
  BY <1>1, <1>3 DEF ViewType, view, Continue, Targets
<1>. QED
  BY <1>3, <1>4, TypePartsNext, TypeParts, Kept DEF Continue

LEMMA TimesOutType ==
  ASSUME TypeOK, NEW s \in Scopes, TimesOut(s)
  PROVE  TypeOK'
<1>1. SurfacesType' /\ RecordType' /\ UNCHANGED view
  BY FailType, TypeParts DEF TimesOut
<1>. QED
  BY <1>1, TypePartsNext, TypeParts, Kept DEF TimesOut, ViewType, view

LEMMA ReportsType ==
  ASSUME TypeOK, NEW s \in Scopes, NEW what \in {"loading", "ready", "failed"},
         Reports(s, what)
  PROVE  TypeOK'
<1>1. SurfacesType'
  BY TypeParts DEF SurfacesType, Reports
<1>. QED
  BY <1>1, TypePartsNext, TypeParts, Kept DEF Reports, ViewType, view

LEMMA CrashType ==
  ASSUME TypeOK, NEW s \in Scopes, Crash(s)
  PROVE  TypeOK'
<1>1. SurfacesType'
  BY TypeParts, DiscardType, GoneType DEF Crash
<1>. QED
  BY <1>1, TypePartsNext, TypeParts, Kept DEF Crash, ViewType, view

LEMMA CloseWorkspaceType ==
  ASSUME TypeOK, NEW s \in Scopes, CloseWorkspace(s)
  PROVE  TypeOK'
<1>1. ClosingType'
  BY MoveStageType, TypeParts DEF CloseWorkspace
<1>. QED
  BY <1>1, TypePartsNext, TypeParts, Kept DEF CloseWorkspace, ViewType, view

LEMMA RefuseCloseType ==
  ASSUME TypeOK, NEW s \in Scopes, RefuseClose(s)
  PROVE  TypeOK'
<1>1. ClosingType'
  BY EndedType, TypeParts DEF RefuseClose
<1>. QED
  BY <1>1, TypePartsNext, TypeParts, Kept DEF RefuseClose, ViewType, view

LEMMA ClosingLatest ==
  ASSUME NEW s \in Targets
  PROVE  Closing(s) \in {"activate", "close"} \X Targets
BY DEF Closing

LEMMA CloseFailedType ==
  ASSUME TypeOK, NEW s \in Scopes, CloseFailed(s)
  PROVE  TypeOK'
<1>1. SurfacesType /\ RecordType /\ ClosingType /\ ViewType
  BY TypeParts
<1>2. SurfacesType'
  BY <1>1, DiscardType, Kept DEF CloseFailed
<1>3. ClosingType'
  BY <1>1, StageType, EndedType, FlushStageType DEF CloseFailed
<1>4. RecordType'
  BY <1>1, FlushType, Kept DEF CloseFailed
<1>5. ViewType'
  BY <1>1, ClosingLatest DEF CloseFailed, ViewType, Targets
<1>. QED
  BY <1>2, <1>3, <1>4, <1>5, TypePartsNext, TypeParts, Kept DEF CloseFailed

LEMMA PrepareType ==
  ASSUME TypeOK, NEW s \in Scopes, Prepare(s)
  PROVE  TypeOK'
<1>. DEFINE e == [pool[s] EXCEPT !.state = "suspending", !.before = pool[s].state]
<1>1. SurfacesType /\ ClosingType /\ ViewType
  BY TypeParts
<1>2. Sound(e)
  BY <1>1 DEF SurfacesType, Sound, Entries, PoolStates, Prepare
<1>3. pool' = [pool EXCEPT ![s] = e]
  BY <1>1 DEF Prepare, SurfacesType, Entries
<1>4. SurfacesType'
  BY <1>1, <1>2, <1>3, PoolStepType DEF Prepare
<1>5. ClosingType'
  BY <1>1, StageType DEF Prepare
<1>6. ViewType'
  BY <1>1, ClosingLatest DEF Prepare, ViewType, view, Targets
<1>. QED
  BY <1>4, <1>5, <1>6, TypePartsNext, TypeParts, Kept DEF Prepare

LEMMA PreparationFailsType ==
  ASSUME TypeOK, NEW s \in Scopes, PreparationFails(s)
  PROVE  TypeOK'
<1>1. SurfacesType' /\ ClosingType'
  BY ResumeType, EndedType, TypeParts DEF PreparationFails
<1>. QED
  BY <1>1, TypePartsNext, TypeParts, Kept DEF PreparationFails, ViewType, view

LEMMA PreparedType ==
  ASSUME TypeOK, NEW s \in Scopes, Prepared(s)
  PROVE  TypeOK'
<1>1. SurfacesType /\ RecordType /\ ClosingType /\ ViewType
  BY TypeParts
<1>2. \/ /\ Resume(s, "active") \/ Resume(s, "warm") \/ Resume(s, pool[s].before)
         /\ Ended(s) /\ UNCHANGED <<surface, restore, activation, shown, record>>
      \/ Discard(s) /\ Ended(s) /\ UNCHANGED <<shown, record>>
      \/ ShowNothing(s) /\ UNCHANGED surfaces
  BY DEF Prepared
<1>3. SurfacesType'
  BY <1>1, <1>2, ResumeType, DiscardType, Kept
<1>4. ClosingType'
  BY <1>1, <1>2, EndedType, MoveStageType, FlushStageType DEF ShowNothing
<1>5. RecordType'
  BY <1>1, <1>2, FlushType, Kept DEF ShowNothing
<1>6. shown' \in Targets
  BY <1>1, <1>2 DEF ShowNothing, ViewType, Targets
<1>. QED
  BY <1>3, <1>4, <1>5, <1>6, TypePartsNext, TypeParts, Kept DEF Prepared, ViewType

LEMMA ClearedType ==
  ASSUME TypeOK, NEW s \in Scopes, Cleared(s)
  PROVE  TypeOK'
<1>1. SurfacesType /\ ClosingType /\ ViewType
  BY TypeParts
<1>2. SurfacesType'
  BY <1>1, DiscardType, GoneType, Kept DEF Cleared
<1>3. ClosingType'
  BY <1>1, EndedType DEF Cleared
<1>4. ViewType'
  BY <1>1 DEF Cleared, ViewType, Targets
<1>. QED
  BY <1>2, <1>3, <1>4, TypePartsNext, TypeParts, Kept DEF Cleared

LEMMA ClearingFailsType ==
  ASSUME TypeOK, NEW s \in Scopes, ClearingFails(s)
  PROVE  TypeOK'
<1>1. SurfacesType' /\ ClosingType'
  BY ResumeType, EndedType, TypeParts DEF ClearingFails
<1>2. ViewType' /\ RecordType'
  BY TypeParts DEF ClearingFails, ViewType, RecordType, view, Targets
<1>. QED
  BY <1>1, <1>2, TypePartsNext, TypeParts, Kept DEF ClearingFails

LEMMA LoopSettlesType ==
  ASSUME TypeOK, LoopSettles
  PROVE  TypeOK'
<1>1. RecordType /\ ClosingType /\ QuitType /\ ViewType
  BY TypeParts
<1>2. loop.key \in Targets
  BY <1>1 DEF RecordType
<1>3. ViewType'
  BY <1>1, <1>2 DEF LoopSettles, ViewType, view
<1>4. loop' \in Loops
  BY <1>1, LoopOf DEF LoopSettles, RecordType, NoWrite, Targets
<1>5. next' \in Targets /\ retry' \in Targets /\ lost' \in BOOLEAN
  BY <1>1, <1>2 DEF LoopSettles, RecordType, Targets
<1>6. ClosingType' /\ QuitType'
  BY <1>1, ReleaseType, Kept DEF LoopSettles
<1>. QED
  BY <1>3, <1>4, <1>5, <1>6, TypePartsNext, TypeParts, Kept DEF LoopSettles, RecordType, Loops

LEMMA RetryFiresType ==
  ASSUME TypeOK, RetryFires
  PROVE  TypeOK'
<1>1. loop' \in Loops
  BY TypeParts, LoopOf DEF RetryFires, RecordType
<1>2. RecordType'
  BY <1>1, TypeParts DEF RetryFires, RecordType, Loops, Targets
<1>. QED
  BY <1>2, TypePartsNext, TypeParts, Kept DEF RetryFires, ViewType, view

LEMMA WindowType ==
  ASSUME TypeOK, CloseWindow \/ StayOpen \/ WindowFlushed \/ WindowFlushFails
  PROVE  TypeOK'
<1>1. RecordType'
  BY TypeParts, FlushType, Kept
     DEF CloseWindow, StayOpen, WindowFlushed, WindowFlushFails, RecordType
<1>2. QuitType'
  BY FlushStageType DEF CloseWindow, StayOpen, WindowFlushed, WindowFlushFails, QuitType
<1>3. ViewType'
  BY TypeParts DEF CloseWindow, StayOpen, WindowFlushed, WindowFlushFails, ViewType, view
<1>4. SurfacesType' /\ ClosingType'
  BY TypePartsNext, TypeParts, Kept DEF CloseWindow, StayOpen, WindowFlushed, WindowFlushFails
<1>. QED
  BY <1>1, <1>2, <1>3, <1>4, TypePartsNext

LEMMA StartedType ==
  ASSUME NEW target, NEW sf, NEW re, NEW po, NEW ac, Started(target, sf, re, po, ac)
  PROVE  /\ sf \in [Scopes -> Generations \cup {None}]
         /\ re \in [Scopes -> {"none", "loading", "ready", "failed"}]
         /\ po \in [Scopes -> Entries]
         /\ ac \in [Scopes -> {"none", "created", "reused"}]
         /\ \A s \in Scopes : Sound(po[s]) /\ (ac[s] # "none" => sf[s] # None)
<1>. DEFINE g == CHOOSE x \in Generations : TRUE
<1>1. g \in Generations /\ g # None
  BY SurfaceConstants
<1>. HIDE DEF g
<1>2. po = [s \in Scopes |-> IF s = target THEN [state |-> "warming", before |-> "none", gen |-> g]
                            ELSE Cold]
  BY DEF Started, g
<1>3. Sound([state |-> "warming", before |-> "none", gen |-> g])
  BY <1>1 DEF Sound, Entries, PoolStates
<1>4. po \in [Scopes -> Entries] /\ \A s \in Scopes : Sound(po[s])
  BY <1>2, <1>3, ColdSound DEF Sound
<1>5. /\ sf = [s \in Scopes |-> IF s = target THEN g ELSE None]
      /\ re = [s \in Scopes |-> IF s = target THEN "loading" ELSE "none"]
      /\ ac = [s \in Scopes |-> IF s = target THEN "created" ELSE "none"]
  BY DEF Started, g
<1>. QED
  BY <1>1, <1>4, <1>5

LEMMA NotClosingType == [s \in Scopes |-> NotClosing] \in [Scopes -> Closings]
BY DEF NotClosing, Closings

LEMMA StartLatest ==
  ASSUME NEW d \in Targets
  PROVE  (IF d = None THEN Closing(None) ELSE Activating(d)) \in {"activate", "close"} \X Targets
BY DEF Closing, Activating, Targets

LEMMA ReopenType ==
  ASSUME TypeOK, Reopen
  PROVE  TypeOK'
<1>1. durable' \in Targets
  BY TypeParts DEF Reopen, ViewType, Targets
<1>2. SurfacesType'
  BY StartedType DEF Reopen, SurfacesType
<1>3. ViewType'
  BY <1>1, StartLatest DEF Reopen, ViewType
<1>4. ClosingType' /\ QuitType'
  BY NotClosingType DEF Reopen, ClosingType, QuitType
<1>5. RecordType'
  BY LoopOf DEF Reopen, RecordType, NoWrite, Loops, Targets
<1>. QED
  BY <1>2, <1>3, <1>4, <1>5, TypePartsNext

LEMMA InitType == Init => TypeOK
<1>. SUFFICES ASSUME Init PROVE TypeOK
  OBVIOUS
<1>2. SurfacesType
  BY StartedType DEF Init, SurfacesType
<1>3. ViewType
  BY StartLatest DEF Init, ViewType
<1>4. ClosingType /\ QuitType
  BY NotClosingType DEF Init, ClosingType, QuitType
<1>5. RecordType
  BY LoopOf DEF Init, RecordType, NoWrite, Loops, Targets
<1>. QED
  BY <1>2, <1>3, <1>4, <1>5, TypeParts

LEMMA StutterType ==
  ASSUME TypeOK, UNCHANGED vars
  PROVE  TypeOK'
BY TypePartsNext, TypeParts, Kept DEF vars, view, ViewType

LEMMA ActionType ==
  ASSUME TypeOK, NEW s \in Scopes,
         \/ ActivateCold(s) \/ ActivateResident(s) \/ CloseWorkspace(s)
         \/ Reload(s) \/ Crash(s) \/ GoesOn(s) \/ Restores(s) \/ ClosesOn(s)
  PROVE  TypeOK'
<1>1. CASE ActivateCold(s) \/ ActivateResident(s) \/ CloseWorkspace(s) \/ Crash(s)
  BY <1>1, ActivateColdType, ActivateResidentType, CloseWorkspaceType, CrashType
<1>2. CASE Reload(s) \/ SurfaceReady(s) \/ RestoreFails(s)
  BY <1>2, ReportsType DEF Reload, SurfaceReady, RestoreFails
<1>3. CASE GoesOn(s)
  BY <1>3, ContinueType, RefuseCloseType, CloseFailedType, PrepareType DEF GoesOn
<1>4. CASE TimesOut(s)
  BY <1>4, TimesOutType
<1>5. CASE ClosesOn(s)
  BY <1>5, PreparedType, PreparationFailsType, ClearedType, ClearingFailsType DEF ClosesOn
<1>. QED
  BY <1>1, <1>2, <1>3, <1>4, <1>5 DEF Restores

LEMMA NextType == TypeOK /\ [Next]_vars => TypeOK'
<1>. SUFFICES ASSUME TypeOK, [Next]_vars PROVE TypeOK'
  OBVIOUS
<1>. QED
  BY ActionType, StutterType, ReopenType, WindowType, LoopSettlesType, RetryFiresType
     DEF Next, User, Renderer, Writes

(* Every variable keeps its type; an entry remembers what it was only      *)
(* while it is suspended, and no activation waits for a renderer that is   *)
(* gone.                                                                   *)
THEOREM TypeCorrect == Spec => []TypeOK
<1>. QED
  BY InitType, NextType, PTL DEF Spec
-----------------------------------------------------------------------------
(* What the steps of one workspace do to it and leave of the others. *)

TrackedAt(s) ==
  surface[s] = pool[s].gen /\ (pool[s].state = "cold" <=> pool[s].gen = None)

Alone(s) ==
  \A t \in Scopes \ {s} :
    surface'[t] = surface[t] /\ pool'[t] = pool[t] /\ activation'[t] = activation[t]

LEMMA AloneTracked ==
  ASSUME RenderersAreTracked, NEW s \in Scopes, Alone(s), TrackedAt(s)'
  PROVE  RenderersAreTracked'
BY DEF RenderersAreTracked, Alone, TrackedAt

LEMMA PoolEntry ==
  ASSUME SurfacesType, NEW s \in Scopes, NEW e, pool' = [pool EXCEPT ![s] = e]
  PROVE  pool'[s] = e /\ \A t \in Scopes \ {s} : pool'[t] = pool[t]
BY DEF SurfacesType

LEMMA DiscardEffect ==
  ASSUME SurfacesType, NEW s \in Scopes, Discard(s)
  PROVE  /\ Alone(s) /\ TrackedAt(s)'
         /\ surface'[s] = None /\ pool'[s] = Cold /\ activation'[s] = "none"
<1>1. /\ surface'[s] = None /\ pool'[s] = Cold /\ activation'[s] = "none"
      /\ Alone(s)
  BY DEF SurfacesType, Discard, Alone
<1>. QED
  BY <1>1 DEF TrackedAt, Cold

\* An entry leaves its state, keeping its surface.
LEMMA InStateFields ==
  ASSUME NEW e \in Entries, NEW state
  PROVE  /\ InState(e, state).state = state
         /\ InState(e, state).gen = e.gen /\ InState(e, state).before = "none"
BY DEF InState, Entries

LEMMA LeaveEffect ==
  ASSUME SurfacesType, NEW s \in Scopes, TrackedAt(s), surface[s] # None,
         NEW state \in PoolStates \ {"cold"},
         Leave(s, InState(pool[s], state))
  PROVE  /\ Alone(s) /\ TrackedAt(s)'
         /\ surface'[s] = surface[s] /\ pool'[s].state = state
         /\ activation'[s] = "none"
<1>1. pool'[s] = InState(pool[s], state) /\ Alone(s)
      /\ surface' = surface /\ activation'[s] = "none"
  BY DEF SurfacesType, Leave, Alone
<1>2. pool'[s].state = state /\ pool'[s].gen = pool[s].gen
  BY <1>1, InStateFields DEF SurfacesType
<1>. QED
  BY <1>1, <1>2 DEF TrackedAt

LEMMA LeaveAsItIs ==
  ASSUME SurfacesType, NEW s \in Scopes, TrackedAt(s), Leave(s, pool[s])
  PROVE  Alone(s) /\ TrackedAt(s)' /\ pool'[s] = pool[s] /\ activation'[s] = "none"
BY DEF SurfacesType, Leave, Alone, TrackedAt

\* A step after which an activation is over and nothing became active.
GivesUp(s) ==
  /\ Alone(s) /\ TrackedAt(s)' /\ activation'[s] = "none"
  /\ pool'[s].state = "active" => pool[s].state = "active"
  /\ UNCHANGED <<view, record>>

LEMMA FailEffect ==
  ASSUME SurfacesType, NEW s \in Scopes, TrackedAt(s), surface[s] # None, Fail(s)
  PROVE  GivesUp(s)
<1>1. CASE Discard(s)
  BY <1>1, DiscardEffect DEF GivesUp, Cold, Fail
<1>2. CASE Leave(s, InState(pool[s], "error"))
  BY <1>2, LeaveEffect DEF GivesUp, PoolStates, Fail
<1>. QED
  BY <1>1, <1>2 DEF Fail, TrackedAt

LEMMA RollBackEffect ==
  ASSUME SurfacesType, NEW s \in Scopes, TrackedAt(s), surface[s] # None, RollBack(s)
  PROVE  GivesUp(s)
<1>1. CASE Discard(s)
  BY <1>1, DiscardEffect DEF GivesUp, Cold, RollBack
<1>2. CASE Leave(s, InState(pool[s], "warm"))
  BY <1>2, LeaveEffect DEF GivesUp, PoolStates, RollBack
<1>3. CASE Leave(s, pool[s])
  BY <1>3, LeaveAsItIs DEF GivesUp, RollBack
<1>. QED
  BY <1>1, <1>2, <1>3 DEF RollBack

\* Only the call that began last commits; all others give up.
LEMMA ContinueEffect ==
  ASSUME SurfacesType, RenderersAreTracked, NEW s \in Scopes, Continue(s)
  PROVE  GivesUp(s) \/ (Commit(s) /\ latest = Activating(s) /\ quit = "open"
                         /\ pool[s].gen # None)
<1>1. TrackedAt(s) /\ surface[s] # None
  BY DEF RenderersAreTracked, TrackedAt, Continue, CanContinue, SurfacesType
<1>2. \/ Fail(s) \/ RollBack(s)
      \/ Commit(s) /\ latest = Activating(s) /\ CanCommit(s)
  BY DEF Continue, CanContinue
<1>. QED
  BY <1>1, <1>2, FailEffect, RollBackEffect DEF CanCommit, TrackedAt

LEMMA TimesOutEffect ==
  ASSUME SurfacesType, RenderersAreTracked, NEW s \in Scopes, TimesOut(s)
  PROVE  GivesUp(s)
<1>1. TrackedAt(s) /\ surface[s] # None
  BY DEF RenderersAreTracked, TrackedAt, TimesOut, SurfacesType
<1>. QED
  BY <1>1, FailEffect DEF TimesOut

LEMMA CommitEffect ==
  ASSUME SurfacesType, NEW s \in Scopes, Commit(s)
  PROVE  /\ surface' = surface /\ pool'[s].state = "active"
         /\ \A t \in Scopes :
              /\ pool'[t].gen = pool[t].gen
              /\ t # s => pool'[t].state # "active"
              /\ pool'[t].state = "cold" => t # s /\ pool[t].state = "cold"
              /\ t # s /\ pool[t].state = "cold" => pool'[t].state = "cold"
<1>1. \A t \in Scopes :
        /\ t = s => pool'[t] = InState(pool[t], "active")
        /\ t # s /\ pool[t].state = "active" => pool'[t] = InState(pool[t], "warm")
        /\ t # s /\ pool[t].state # "active" => pool'[t] = pool[t]
  BY DEF Commit
<1>2. \A t \in Scopes : pool[t] \in Entries
  BY DEF SurfacesType
<1>3. \A t \in Scopes : \A state \in {"active", "warm"} :
        InState(pool[t], state).state = state /\ InState(pool[t], state).gen = pool[t].gen
  BY <1>2, InStateFields
<1>. QED
  BY <1>1, <1>3 DEF Commit

LEMMA ResumeEffect ==
  ASSUME SurfacesType, NEW s \in Scopes, TrackedAt(s),
         NEW state \in {"active", "warm"} \cup {pool[s].before},
         Resume(s, state), UNCHANGED <<surface, restore, activation>>
  PROVE  /\ Alone(s) /\ TrackedAt(s)'
         /\ \/ pool'[s] = pool[s]
            \/ Suspended(s) /\ pool'[s].state = state /\ state \in {"active", "warm"}
<1>1. CASE Suspended(s)
  <2>1. pool[s] \in Entries /\ state \in {"active", "warm"}
    BY <1>1 DEF SurfacesType, Suspended, Sound, Entries
  <2>2. pool'[s] = InState(pool[s], state) /\ Alone(s)
    BY <1>1 DEF SurfacesType, Resume, Alone
  <2>3. pool'[s].state = state /\ pool'[s].gen = pool[s].gen
    BY <2>1, <2>2, InStateFields
  <2>. QED
    BY <1>1, <2>1, <2>2, <2>3 DEF TrackedAt, Suspended
<1>2. CASE ~Suspended(s)
  BY <1>2 DEF Resume, Alone, TrackedAt
<1>. QED
  BY <1>1, <1>2

-----------------------------------------------------------------------------
(* The invariants. *)

\* Whoever waits for a record of "nothing shown" is the one whose workspace is
\* committed; no call began since, and its entry cannot have become active.
ClearingHolds ==
  \A s \in Scopes : Clearing(s) =>
    /\ activation[s] = "none"
    /\ shown = None /\ committed = s
    /\ latest[1] = "close"
    /\ pool[s].state # "active"
    /\ closing[s].was = "error" /\ surface[s] = closing[s].gen /\ surface[s] # None
         => pool[s].state = "error"

\* A preparation that no call overtook still has its entry to itself.
PreparingHolds ==
  \A s \in Scopes : closing[s].stage = "preparing" /\ latest = Closing(s) =>
    /\ activation[s] = "none"
    /\ pool[s].state # "active"
    /\ "active" \in {closing[s].was, pool[s].before} => committed = s

ShownIsCommitted == shown \in {None, committed}
ActiveIsCommitted == \A s \in Scopes : pool[s].state = "active" => s = committed

CallsHold == ClearingHolds /\ PreparingHolds /\ ShownIsCommitted /\ ActiveIsCommitted

Inv == TypeOK /\ RenderersAreTracked /\ CallsHold

LEMMA InvParts ==
  Inv => /\ SurfacesType /\ ClosingType /\ QuitType /\ ViewType /\ RecordType
         /\ RenderersAreTracked /\ ClearingHolds /\ PreparingHolds
         /\ ShownIsCommitted /\ ActiveIsCommitted
         /\ \A s \in Scopes : TrackedAt(s)
BY TypeParts DEF Inv, CallsHold, RenderersAreTracked, TrackedAt

-----------------------------------------------------------------------------
(* Each action keeps them. *)

\* The closing of s is over; the others go on as they were.
ClosingOver(s) ==
  /\ closing'[s].stage = "none"
  /\ \A t \in Scopes \ {s} : closing'[t] = closing[t]

LEMMA EndedEffect ==
  ASSUME ClosingType, NEW s \in Scopes, Ended(s)
  PROVE  ClosingOver(s)
BY DEF ClosingType, Ended, NotClosing, ClosingOver

LEMMA GivesUpHolds ==
  ASSUME Inv, NEW s \in Scopes, activation[s] # "none", GivesUp(s),
         UNCHANGED <<latest, closing>>
  PROVE  RenderersAreTracked' /\ CallsHold'
<1>1. RenderersAreTracked'
  BY AloneTracked, InvParts DEF GivesUp
<1>2. ClearingHolds'
  BY InvParts DEF ClearingHolds, GivesUp, Alone, Clearing, view
<1>3. PreparingHolds'
  BY InvParts DEF PreparingHolds, GivesUp, Alone, view, Closing
<1>4. ShownIsCommitted' /\ ActiveIsCommitted'
  BY InvParts DEF ShownIsCommitted, ActiveIsCommitted, GivesUp, Alone, view
<1>. QED
  BY <1>1, <1>2, <1>3, <1>4 DEF CallsHold

LEMMA CommitHolds ==
  ASSUME Inv, NEW s \in Scopes, Commit(s), latest = Activating(s),
         pool[s].gen # None, UNCHANGED <<latest, closing>>
  PROVE  RenderersAreTracked' /\ CallsHold'
<1>0. SurfacesType /\ latest[1] # "close" /\ \A t : latest # Closing(t)
  BY InvParts DEF Activating, Closing
<1>1. RenderersAreTracked'
  BY <1>0, CommitEffect, InvParts DEF RenderersAreTracked
<1>2. ClearingHolds' /\ PreparingHolds'
  BY <1>0, InvParts DEF ClearingHolds, PreparingHolds, Clearing, Closing
<1>3. ShownIsCommitted' /\ ActiveIsCommitted'
  BY <1>0, CommitEffect DEF ShownIsCommitted, ActiveIsCommitted, Commit
<1>. QED
  BY <1>1, <1>2, <1>3 DEF CallsHold

\* While a record of "nothing shown" is awaited nobody activates.
LEMMA ActivateHolds ==
  ASSUME Inv, ~Overlaps, NEW s \in Scopes, ActivateCold(s) \/ ActivateResident(s)
  PROVE  RenderersAreTracked' /\ CallsHold'
<1>0. /\ SurfacesType /\ TrackedAt(s) /\ MayActivate(s)
      /\ latest' = Activating(s) /\ UNCHANGED <<view, closing>>
  BY InvParts DEF ActivateCold, ActivateResident
<1>1. /\ Alone(s) /\ TrackedAt(s)'
      /\ pool'[s].state = "active" => pool[s].state = "active"
  <2>1. CASE ActivateCold(s)
    <3>1. /\ Alone(s)
          /\ pool'[s] = [state |-> "warming", gen |-> Fresh(s), before |-> "none"]
          /\ surface'[s] = Fresh(s) /\ Fresh(s) # None
      <4>1. Fresh(s) # None /\ pool[s].gen = None
        BY <1>0, <2>1, KnownFresh, SurfaceConstants DEF ActivateCold, TrackedAt
      <4>. QED
        BY <1>0, <2>1, <4>1 DEF ActivateCold, SurfacesType, Alone
    <3>. QED
      BY <3>1 DEF TrackedAt
  <2>2. CASE ActivateResident(s)
    <3>1. InState(pool[s], "warming").state = "warming"
          /\ InState(pool[s], "warming").gen = pool[s].gen
      BY <1>0, InStateFields DEF SurfacesType
    <3>2. Alone(s) /\ surface' = surface
          /\ \/ pool' = pool
             \/ pool[s].state = "error" /\ pool'[s] = InState(pool[s], "warming")
      BY <1>0, <2>2 DEF ActivateResident, SurfacesType, Alone
    <3>. QED
      BY <1>0, <3>1, <3>2 DEF TrackedAt
  <2>. QED
    BY <2>1, <2>2
<1>2. RenderersAreTracked'
  BY <1>1, AloneTracked, InvParts
<1>3. \A t \in Scopes : ~Clearing(t)' /\ latest' # Closing(t)
  BY <1>0 DEF MayActivate, Clearing, Activating, Closing
<1>4. ClearingHolds' /\ PreparingHolds'
  BY <1>3 DEF ClearingHolds, PreparingHolds, Clearing, Closing
<1>5. ShownIsCommitted' /\ ActiveIsCommitted'
  BY <1>0, <1>1, InvParts DEF ShownIsCommitted, ActiveIsCommitted, Alone, view
<1>. QED
  BY <1>2, <1>4, <1>5 DEF CallsHold

\* The renderer dies with its entry: what is tracked dies with it.
LEMMA CrashHolds ==
  ASSUME Inv, NEW s \in Scopes, Crash(s)
  PROVE  RenderersAreTracked' /\ CallsHold'
<1>1. Discard(s) /\ UNCHANGED <<view, latest, closing>>
  BY InvParts DEF Crash, TrackedAt
<1>2. /\ Alone(s) /\ TrackedAt(s)' /\ surface'[s] = None /\ pool'[s] = Cold
      /\ activation'[s] = "none"
  BY <1>1, DiscardEffect, InvParts
<1>3. RenderersAreTracked'
  BY <1>2, AloneTracked, InvParts
<1>4. ClearingHolds'
  BY <1>1, <1>2, InvParts DEF ClearingHolds, Alone, Clearing, Cold, view
<1>5. PreparingHolds'
  BY <1>1, <1>2, InvParts DEF PreparingHolds, Alone, Cold, view, Closing
<1>6. ShownIsCommitted' /\ ActiveIsCommitted'
  BY <1>1, <1>2, InvParts DEF ShownIsCommitted, ActiveIsCommitted, Alone, Cold, view
<1>. QED
  BY <1>3, <1>4, <1>5, <1>6 DEF CallsHold

\* Steps that change neither a surface nor a call, or only end a closing.
LEMMA QuietHolds ==
  ASSUME Inv, UNCHANGED <<surface, pool, activation, view, latest>>,
         \A t \in Scopes : \/ closing'[t] = closing[t]
                           \/ closing'[t].stage \in {"none", "waiting"}
                           \/ Clearing(t) /\ closing'[t].gen = closing[t].gen
                              /\ closing'[t].was = closing[t].was
                              /\ closing'[t].stage = "writing"
  PROVE  RenderersAreTracked' /\ CallsHold'
<1>1. RenderersAreTracked'
  BY InvParts DEF RenderersAreTracked
<1>2. ClearingHolds'
  BY InvParts DEF ClearingHolds, Clearing, view
<1>3. PreparingHolds'
  BY InvParts DEF PreparingHolds, view, Closing
<1>4. ShownIsCommitted' /\ ActiveIsCommitted'
  BY InvParts DEF ShownIsCommitted, ActiveIsCommitted, view
<1>. QED
  BY <1>1, <1>2, <1>3, <1>4 DEF CallsHold

LEMMA CloseFailedHolds ==
  ASSUME Inv, NEW s \in Scopes, CloseFailed(s)
  PROVE  RenderersAreTracked' /\ CallsHold'
<1>0. /\ latest' = Closing(s) /\ latest'[1] = "close" /\ committed' = committed
      /\ activation[s] = "none" /\ pool[s].state = "error"
      /\ closing[s].stage = "waiting" /\ \A t \in Scopes : latest' = Closing(t) => t = s
  BY DEF CloseFailed, CanStartClose, Closing
<1>1. CASE committed = s /\ quit = "open"
  <2>1. /\ shown' = None /\ UNCHANGED surfaces
        /\ Stage(s, FlushStage)
    BY <1>1 DEF CloseFailed
  <2>2. /\ closing'[s].stage \in {"queued", "writing"}
        /\ \A t \in Scopes \ {s} : closing'[t] = closing[t]
    BY <2>1, FlushStageType, InvParts DEF Stage, ClosingType
  <2>3. \A t \in Scopes \ {s} : ~Clearing(t)
    BY <1>1, InvParts DEF ClearingHolds
  <2>4. ClearingHolds'
    BY <1>0, <1>1, <2>1, <2>2, <2>3 DEF ClearingHolds, Clearing, surfaces
  <2>5. PreparingHolds'
    BY <1>0, <2>1, <2>2 DEF PreparingHolds, Closing
  <2>6. ShownIsCommitted' /\ ActiveIsCommitted' /\ RenderersAreTracked'
    BY <1>0, <2>1, InvParts
       DEF ShownIsCommitted, ActiveIsCommitted, RenderersAreTracked, surfaces
  <2>. QED
    BY <2>4, <2>5, <2>6 DEF CallsHold
<1>2. CASE committed = s /\ quit # "open"
  <2>1. UNCHANGED <<surfaces, shown>> /\ ClosingOver(s)
    BY <1>2, EndedEffect, InvParts DEF CloseFailed
  <2>2. ClearingHolds'
    BY <1>0, <2>1, InvParts DEF ClearingHolds, Clearing, ClosingOver, surfaces
  <2>3. PreparingHolds'
    BY <1>0, <2>1 DEF PreparingHolds, ClosingOver, Closing
  <2>4. ShownIsCommitted' /\ ActiveIsCommitted' /\ RenderersAreTracked'
    BY <1>0, <2>1, InvParts
       DEF ShownIsCommitted, ActiveIsCommitted, RenderersAreTracked, surfaces
  <2>. QED
    BY <2>2, <2>3, <2>4 DEF CallsHold
<1>3. CASE committed # s
  <2>1. Discard(s) /\ shown' = shown /\ ClosingOver(s)
    BY <1>3, EndedEffect, InvParts DEF CloseFailed
  <2>2. Alone(s) /\ TrackedAt(s)' /\ pool'[s] = Cold
    BY <2>1, DiscardEffect, InvParts
  <2>3. ClearingHolds'
    BY <1>0, <2>1, <2>2, InvParts DEF ClearingHolds, Clearing, ClosingOver, Alone
  <2>4. PreparingHolds'
    BY <1>0, <2>1 DEF PreparingHolds, ClosingOver, Closing
  <2>5. ShownIsCommitted' /\ ActiveIsCommitted'
    BY <1>0, <2>1, <2>2, InvParts DEF ShownIsCommitted, ActiveIsCommitted, Alone, Cold
  <2>. QED
    BY <2>2, <2>3, <2>4, <2>5, AloneTracked, InvParts DEF CallsHold
<1>. QED
  BY <1>1, <1>2, <1>3

LEMMA PrepareHolds ==
  ASSUME Inv, NEW s \in Scopes, Prepare(s)
  PROVE  RenderersAreTracked' /\ CallsHold'
<1>0. /\ latest' = Closing(s) /\ latest'[1] = "close" /\ UNCHANGED <<view, surface, activation>>
      /\ activation[s] = "none" /\ pool[s].state \in {"active", "warm"}
      /\ \A t \in Scopes : latest' = Closing(t) => t = s
  BY DEF Prepare, CanStartClose, Closing
<1>1. /\ pool'[s].state = "suspending" /\ pool'[s].before = pool[s].state
      /\ pool'[s].gen = pool[s].gen
      /\ \A t \in Scopes \ {s} : pool'[t] = pool[t]
  BY InvParts DEF Prepare, SurfacesType, Entries
<1>2. /\ closing'[s].stage = "preparing" /\ closing'[s].was = pool[s].state
      /\ \A t \in Scopes \ {s} : closing'[t] = closing[t]
  BY InvParts DEF Prepare, Stage, ClosingType
<1>3. RenderersAreTracked'
  BY <1>0, <1>1, InvParts DEF RenderersAreTracked
<1>4. ClearingHolds'
  BY <1>0, <1>1, <1>2, InvParts DEF ClearingHolds, Clearing, view
<1>5. PreparingHolds'
  BY <1>0, <1>1, <1>2, InvParts DEF PreparingHolds, ActiveIsCommitted, view, Closing
<1>6. ShownIsCommitted' /\ ActiveIsCommitted'
  BY <1>0, <1>1, InvParts DEF ShownIsCommitted, ActiveIsCommitted, view
<1>. QED
  BY <1>3, <1>4, <1>5, <1>6 DEF CallsHold

\* A closing of s ends, and its entry is put back, or gone, or left: at most
\* the committed workspace is active again.
LEMMA PutBackHolds ==
  ASSUME Inv, NEW s \in Scopes, Alone(s), TrackedAt(s)', ClosingOver(s),
         pool'[s].state = "active" => committed = s, UNCHANGED <<view, latest>>
  PROVE  RenderersAreTracked' /\ CallsHold'
<1>1. RenderersAreTracked'
  BY AloneTracked, InvParts
<1>2. ClearingHolds'
  BY InvParts DEF ClearingHolds, Clearing, ClosingOver, Alone, view
<1>3. PreparingHolds'
  BY InvParts DEF PreparingHolds, ClosingOver, Alone, view, Closing
<1>4. ShownIsCommitted' /\ ActiveIsCommitted'
  BY InvParts DEF ShownIsCommitted, ActiveIsCommitted, Alone, view
<1>. QED
  BY <1>1, <1>2, <1>3, <1>4 DEF CallsHold

\* What a resumed entry becomes, it was before: if that is "active", it is the
\* committed one, for no call can have come between.
LEMMA PreparationFailsHolds ==
  ASSUME Inv, ~LateRefusals, NEW s \in Scopes, PreparationFails(s)
  PROVE  RenderersAreTracked' /\ CallsHold'
<1>1. /\ Alone(s) /\ TrackedAt(s)'
      /\ \/ pool'[s] = pool[s]
         \/ Suspended(s) /\ pool'[s].state = pool[s].before
  BY ResumeEffect, InvParts DEF PreparationFails
<1>2. ASSUME Suspended(s), pool[s].before = "active"
      PROVE  committed = s
  <2>1. latest = Closing(s)
    BY <1>2, InvParts DEF PreparationFails, Suspended, TrackedAt, Overtaken
  <2>. QED
    BY <1>2, <2>1, InvParts DEF PreparationFails, PreparingHolds
<1>3. pool'[s].state = "active" => committed = s
  BY <1>1, <1>2, InvParts DEF ActiveIsCommitted
<1>. QED
  BY <1>1, <1>3, PutBackHolds, EndedEffect, InvParts DEF PreparationFails, view

LEMMA PreparedHolds ==
  ASSUME Inv, NEW s \in Scopes, Prepared(s)
  PROVE  RenderersAreTracked' /\ CallsHold'
<1>0. /\ closing[s].stage = "preparing" /\ committed' = committed /\ latest' = latest
      /\ surface[s] = closing[s].gen
  BY DEF Prepared
<1>1. ASSUME NEW state \in {"active", "warm"} \cup {pool[s].before}, Resume(s, state),
             Ended(s), UNCHANGED <<surface, restore, activation, shown>>,
             Suspended(s) /\ state = "active" => committed = s
      PROVE  RenderersAreTracked' /\ CallsHold'
  <2>1. /\ Alone(s) /\ TrackedAt(s)'
        /\ pool'[s] = pool[s] \/ (Suspended(s) /\ pool'[s].state = state)
    BY <1>1, ResumeEffect, InvParts
  <2>2. pool'[s].state = "active" => committed = s
    BY <1>1, <2>1, InvParts DEF ActiveIsCommitted
  <2>. QED
    BY <1>0, <1>1, <2>1, <2>2, PutBackHolds, EndedEffect, InvParts DEF view
<1>2. CASE Overtaken(s)
  BY <1>1, <1>2 DEF Prepared
<1>3. CASE ~Overtaken(s) /\ closing[s].was = "warm"
  <2>1. Discard(s) /\ Ended(s) /\ shown' = shown
    BY <1>3 DEF Prepared
  <2>2. Alone(s) /\ TrackedAt(s)' /\ pool'[s].state # "active"
    BY <2>1, DiscardEffect, InvParts DEF Cold
  <2>. QED
    BY <1>0, <2>1, <2>2, PutBackHolds, EndedEffect, InvParts DEF view
<1>4. CASE ~Overtaken(s) /\ closing[s].was = "active" /\ quit = "open"
  <2>1. ShowNothing(s) /\ UNCHANGED surfaces
    BY <1>4 DEF Prepared
  <2>2. /\ closing'[s].stage \in {"queued", "writing"} /\ closing'[s].was = "active"
        /\ \A t \in Scopes \ {s} : closing'[t] = closing[t]
    BY <1>4, <2>1, FlushStageType, InvParts DEF ShowNothing, ClosingType, Closings
  <2>3. /\ latest = Closing(s) /\ latest[1] = "close" /\ committed = s
        /\ activation[s] = "none" /\ pool[s].state # "active"
    BY <1>0, <1>4, InvParts DEF PreparingHolds, Overtaken, Closing
  <2>4. shown' = None
    BY <2>1 DEF ShowNothing
  <2>5. ClearingHolds'
    BY <1>0, <2>1, <2>2, <2>3, <2>4, InvParts DEF ClearingHolds, Clearing, surfaces
  <2>6. PreparingHolds'
    BY <1>0, <2>1, <2>2, InvParts DEF PreparingHolds, surfaces, Closing
  <2>7. RenderersAreTracked' /\ ShownIsCommitted' /\ ActiveIsCommitted'
    BY <1>0, <2>1, <2>4, InvParts
       DEF RenderersAreTracked, ShownIsCommitted, ActiveIsCommitted, surfaces
  <2>. QED
    BY <2>5, <2>6, <2>7 DEF CallsHold
<1>5. CASE ~Overtaken(s) /\ closing[s].was = "active" /\ quit # "open"
  <2>1. committed = s
    BY <1>0, <1>5, InvParts DEF PreparingHolds, Overtaken
  <2>. QED
    BY <1>1, <1>5, <2>1 DEF Prepared
<1>. QED
  BY <1>2, <1>3, <1>4, <1>5 DEF Prepared

\* The record of "nothing shown" has landed: the one who waited was committed,
\* so nothing stays active.
LEMMA ClearedHolds ==
  ASSUME Inv, NEW s \in Scopes, Cleared(s)
  PROVE  RenderersAreTracked' /\ CallsHold'
<1>0. /\ Clearing(s) /\ committed = s /\ shown = None /\ pool[s].state # "active"
      /\ committed' = None /\ shown' = None /\ latest' = latest /\ ClosingOver(s)
  BY EndedEffect, InvParts DEF Cleared, Clearing, ClearingHolds
<1>1. /\ Alone(s) /\ TrackedAt(s)' /\ pool'[s].state # "active"
  <2>1. CASE Discard(s)
    BY <2>1, DiscardEffect, InvParts DEF Cold
  <2>2. CASE UNCHANGED surfaces
    BY <1>0, <2>2, InvParts DEF surfaces, Alone, TrackedAt
  <2>3. CASE /\ surface' = [surface EXCEPT ![s] = None] /\ UNCHANGED pool
             /\ activation' = [activation EXCEPT ![s] = "none"]
             /\ surface[s] = closing[s].gen /\ ~Disposable(s)
    <3>1. surface[s] = None
      <4>. SUFFICES ASSUME surface[s] # None PROVE FALSE
        OBVIOUS
      <4>1. pool[s].gen = closing[s].gen /\ pool[s].state # "cold" /\ pool[s].state \in PoolStates
        BY <2>3, InvParts DEF TrackedAt, SurfacesType, Entries
      <4>2. closing[s].was = "error" => pool[s].state = "error"
        BY <1>0, <2>3, InvParts DEF ClearingHolds
      <4>. QED
        BY <2>3, <4>1, <4>2 DEF Disposable, PoolStates
    <3>2. surface' = surface /\ pool' = pool
      BY <2>3, <3>1, InvParts DEF SurfacesType
    <3>3. Alone(s)
      BY <2>3, <3>2, InvParts DEF Alone, SurfacesType
    <3>. QED
      BY <1>0, <3>2, <3>3, InvParts DEF TrackedAt
  <2>. QED
    BY <2>1, <2>2, <2>3 DEF Cleared
<1>2. RenderersAreTracked'
  BY <1>1, AloneTracked, InvParts
<1>3. ClearingHolds'
  BY <1>0, InvParts DEF ClearingHolds, Clearing, ClosingOver
<1>4. PreparingHolds'
  BY <1>0, <1>1, InvParts DEF PreparingHolds, ClosingOver, Alone, Closing
<1>5. ShownIsCommitted' /\ ActiveIsCommitted'
  BY <1>0, <1>1, InvParts DEF ShownIsCommitted, ActiveIsCommitted, Alone
<1>. QED
  BY <1>2, <1>3, <1>4, <1>5 DEF CallsHold

LEMMA ClearingFailsHolds ==
  ASSUME Inv, NEW s \in Scopes, ClearingFails(s)
  PROVE  RenderersAreTracked' /\ CallsHold'
<1>1. Alone(s) /\ TrackedAt(s)'
  BY ResumeEffect, InvParts DEF ClearingFails
<1>2. committed = s
  BY InvParts DEF ClearingFails, ClearingHolds, Clearing
<1>. QED
  BY <1>1, <1>2, PutBackHolds, EndedEffect, InvParts DEF ClearingFails

LEMMA StartedHolds ==
  ASSUME NEW target, NEW sf, NEW re, NEW po, NEW ac, Started(target, sf, re, po, ac)
  PROVE  \A s \in Scopes : /\ sf[s] = po[s].gen
                           /\ po[s].state = "cold" <=> po[s].gen = None
                           /\ po[s].state # "active"
<1>. DEFINE g == CHOOSE x \in Generations : TRUE
<1>1. g # None
  BY SurfaceConstants
<1>2. \A s \in Scopes : /\ sf[s] = IF s = target THEN g ELSE None
                        /\ po[s] = IF s = target
                                     THEN [state |-> "warming", before |-> "none", gen |-> g]
                                     ELSE Cold
  BY DEF Started
<1>. HIDE DEF g
<1>3. \A s \in Scopes : s # target => sf[s] = None /\ po[s] = Cold
  BY <1>2
<1>4. Cold.gen = None /\ Cold.state = "cold"
  BY DEF Cold
<1>5. \A s \in Scopes : s = target => sf[s] = g /\ po[s].gen = g /\ po[s].state = "warming"
  BY <1>2
<1>. QED
  BY <1>1, <1>3, <1>4, <1>5

LEMMA ReopenHolds ==
  ASSUME Reopen
  PROVE  RenderersAreTracked' /\ CallsHold'
<1>1. /\ \A s \in Scopes : closing'[s].stage = "none" /\ pool'[s].state # "active"
      /\ shown' = committed' /\ RenderersAreTracked'
  BY StartedHolds DEF Reopen, NotClosing, RenderersAreTracked
<1>. QED
  BY <1>1 DEF CallsHold, ClearingHolds, PreparingHolds, ShownIsCommitted,
              ActiveIsCommitted, Clearing

LEMMA InitHolds == Init => Inv
<1>. SUFFICES ASSUME Init PROVE RenderersAreTracked /\ CallsHold
  BY InitType DEF Inv
<1>1. /\ \A s \in Scopes : closing[s].stage = "none" /\ pool[s].state # "active"
      /\ shown = committed /\ RenderersAreTracked
  BY StartedHolds DEF Init, NotClosing, RenderersAreTracked
<1>. QED
  BY <1>1 DEF CallsHold, ClearingHolds, PreparingHolds, ShownIsCommitted,
              ActiveIsCommitted, Clearing

LEMMA WritesHold ==
  ASSUME Inv, Writes \/ CloseWindow \/ StayOpen \/ UNCHANGED vars
  PROVE  RenderersAreTracked' /\ CallsHold'
<1>1. UNCHANGED <<surface, pool, activation, view, latest>>
  BY DEF Writes, LoopSettles, RetryFires, WindowFlushed, WindowFlushFails,
         CloseWindow, StayOpen, vars, surfaces
<1>2. closing' = closing \/ Release
  BY DEF Writes, LoopSettles, RetryFires, WindowFlushed, WindowFlushFails,
         CloseWindow, StayOpen, vars
<1>3. \A t \in Scopes : \/ closing'[t] = closing[t]
                        \/ Clearing(t) /\ closing'[t].gen = closing[t].gen
                           /\ closing'[t].was = closing[t].was
                           /\ closing'[t].stage = "writing"
  BY <1>2, InvParts DEF Release, Released, Clearing, ClosingType, Closings
<1>. QED
  BY <1>1, <1>3, QuietHolds

LEMMA CallHolds ==
  ASSUME Inv, NEW s \in Scopes,
         Reload(s) \/ SurfaceReady(s) \/ RestoreFails(s) \/ CloseWorkspace(s) \/ RefuseClose(s)
  PROVE  RenderersAreTracked' /\ CallsHold'
<1>1. UNCHANGED <<surface, pool, activation, view, latest>>
  BY DEF Reload, SurfaceReady, RestoreFails, Reports, CloseWorkspace, RefuseClose, surfaces
<1>2. \A t \in Scopes : closing'[t] = closing[t] \/ closing'[t].stage \in {"none", "waiting"}
  BY EndedEffect, InvParts
     DEF Reload, SurfaceReady, RestoreFails, Reports, CloseWorkspace, RefuseClose,
         ClosingType, Closings, ClosingOver
<1>. QED
  BY <1>1, <1>2, QuietHolds

LEMMA ContinueHolds ==
  ASSUME Inv, NEW s \in Scopes, Continue(s) \/ TimesOut(s)
  PROVE  RenderersAreTracked' /\ CallsHold'
<1>1. UNCHANGED <<latest, closing>> /\ activation[s] # "none"
  BY DEF Continue, CanContinue, TimesOut
<1>. QED
  BY <1>1, ContinueEffect, TimesOutEffect, GivesUpHolds, CommitHolds, InvParts

LEMMA NextHolds == ~Overlaps /\ ~LateRefusals /\ Inv /\ [Next]_vars => Inv'
<1>. SUFFICES ASSUME ~Overlaps, ~LateRefusals, Inv, [Next]_vars
              PROVE  RenderersAreTracked' /\ CallsHold'
  BY NextType DEF Inv
<1>1. CASE UNCHANGED vars \/ Writes \/ CloseWindow \/ StayOpen \/ Reopen
  BY <1>1, WritesHold, ReopenHolds
<1>2. CASE \E s \in Scopes : GoesOn(s) \/ TimesOut(s)
  BY <1>2, ContinueHolds, CallHolds, CloseFailedHolds, PrepareHolds DEF GoesOn
<1>3. CASE \E s \in Scopes : ClosesOn(s)
  BY <1>3, PreparedHolds, PreparationFailsHolds, ClearedHolds, ClearingFailsHolds
     DEF ClosesOn
<1>4. CASE \E s \in Scopes : ActivateCold(s) \/ ActivateResident(s) \/ Crash(s)
  BY <1>4, ActivateHolds, CrashHolds
<1>5. CASE \E s \in Scopes : \/ Reload(s) \/ SurfaceReady(s) \/ RestoreFails(s)
                             \/ CloseWorkspace(s)
  BY <1>5, CallHolds
<1>. QED
  BY <1>1, <1>2, <1>3, <1>4, <1>5 DEF Next, User, Renderer, Restores

(* No renderer is leaked, and none is missed: while the two assumptions    *)
(* hold, pool and surface manager agree on what exists.                    *)
THEOREM Tracked ==
  ASSUME ~Overlaps, ~LateRefusals
  PROVE  Spec => []RenderersAreTracked
<1>1. Inv /\ [Next]_vars => Inv'
  BY NextHolds
<1>2. Inv => RenderersAreTracked
  BY DEF Inv
<1>. QED
  BY <1>1, <1>2, InitHolds, PTL DEF Spec

-----------------------------------------------------------------------------
(* What is on the screen. *)

LEMMA OnlyClosingHides ==
  ASSUME Inv, [Next]_vars, NEW s \in Scopes, shown = s, shown' = None, quit = "open"
  PROVE  closing[s].stage \in {"waiting", "preparing"}
<1>0. s # None /\ shown = committed
  BY SurfaceConstants, InvParts DEF ShownIsCommitted
<1>1. \E t \in Scopes : Continue(t) \/ CloseFailed(t) \/ Prepared(t) \/ TimesOut(t)
  BY <1>0 DEF Next, vars, view, surfaces, User, Renderer, GoesOn, Restores, ClosesOn, Writes,
       ActivateCold, ActivateResident, CloseWorkspace, CloseWindow, StayOpen, Reopen,
       Reload, Crash, RefuseClose, Prepare, SurfaceReady, RestoreFails, Reports,
       PreparationFails, Cleared, ClearingFails, LoopSettles, RetryFires,
       WindowFlushed, WindowFlushFails
<1>2. PICK t \in Scopes : Continue(t) \/ CloseFailed(t) \/ Prepared(t) \/ TimesOut(t)
  BY <1>1
<1>3. ~(Continue(t) \/ TimesOut(t))
  BY <1>0, ContinueEffect, TimesOutEffect, InvParts, SurfaceConstants
     DEF GivesUp, Commit, view
<1>4. CASE CloseFailed(t)
  BY <1>0, <1>4 DEF CloseFailed, CanStartClose
<1>5. CASE Prepared(t)
  <2>1. closing[t].stage = "preparing" /\ ~Overtaken(t) /\ closing[t].was = "active"
    BY <1>0, <1>5 DEF Prepared
  <2>2. committed = t
    BY <2>1, InvParts DEF PreparingHolds, Overtaken
  <2>. QED
    BY <1>0, <2>1, <2>2
<1>. QED
  BY <1>2, <1>3, <1>4, <1>5

(* While the two assumptions hold, a workspace that is shown leaves the    *)
(* screen for "nothing shown" by its own closing and nothing else.         *)
THEOREM HiddenByItself ==
  ASSUME ~Overlaps, ~LateRefusals
  PROVE  Spec => OnlyItsOwnClosing
<1>1. Inv /\ [Next]_vars => Inv'
  BY NextHolds
<1>2. Inv /\ [Next]_vars =>
        [\A s \in Scopes : shown = s /\ shown' = None /\ quit = "open" =>
           closing[s].stage \in {"waiting", "preparing"}]_vars
  BY OnlyClosingHides
<1>. QED
  BY <1>1, <1>2, InitHolds, PTL DEF Spec, OnlyItsOwnClosing

-----------------------------------------------------------------------------
(* The record of what is shown. *)

Recording == quit \in {"queued", "writing"} \/ \E s \in Scopes : Clearing(s)

\* A flush has the record to itself: it waits for the one write under way, and
\* nothing will be written after that but what the flush writes.
FlushAlone == Recording => next = None /\ retry = None /\ loop.fresh = FALSE

FlushOrder ==
  /\ quit = "queued" \/ (\E s \in Scopes : closing[s].stage = "queued") => loop.key # None
  /\ quit = "writing" \/ (\E s \in Scopes : closing[s].stage = "writing") => loop.key = None

OneWriter ==
  /\ loop.key = None => next = None
  /\ loop.key # None => retry = None

\* What the store will hold once the loop and its timer are done.
Destined == IF next # None THEN next
            ELSE IF loop.key # None THEN loop.key
            ELSE IF retry # None THEN retry ELSE durable

WillRecord == ~lost /\ ~Recording =>
  Destined = shown /\ (next = None /\ loop.key # None => loop.fresh = TRUE)

CommittedIsShown == ~lost /\ (\A s \in Scopes : ~Clearing(s)) => committed = shown

RecordHolds == FlushAlone /\ FlushOrder /\ OneWriter /\ WillRecord /\ CommittedIsShown

LEMMA RecordKept ==
  ASSUME RecordHolds, UNCHANGED <<view, durable, record>>,
         quit' = quit \/ {quit, quit'} \subseteq {"open", "flushed"},
         \A t \in Scopes : \/ closing'[t].stage = closing[t].stage
                           \/ ~Clearing(t) /\ ~Clearing(t)'
  PROVE  RecordHolds'
<1>1. /\ Recording' <=> Recording
      /\ (\A s \in Scopes : ~Clearing(s)') <=> (\A s \in Scopes : ~Clearing(s))
  BY DEF Recording, Clearing
<1>2. FlushAlone' /\ WillRecord' /\ CommittedIsShown' /\ OneWriter'
  BY <1>1 DEF RecordHolds, FlushAlone, WillRecord, CommittedIsShown, OneWriter,
              Destined, view, record
<1>3. FlushOrder'
  BY DEF RecordHolds, FlushOrder, record, Clearing
<1>. QED
  BY <1>2, <1>3 DEF RecordHolds

\* An activation commits while no flush is under way, and asks for its record.
LEMMA CommitRecords ==
  ASSUME Inv, RecordHolds, NEW s \in Scopes, Commit(s), latest = Activating(s),
         quit = "open", UNCHANGED <<quit, closing>>
  PROVE  RecordHolds'
<1>1. ~Recording /\ ~Recording' /\ \A t \in Scopes : ~Clearing(t)'
  BY InvParts DEF ClearingHolds, Recording, Clearing, Activating
<1>2. s # None
  BY SurfaceConstants
<1>3. \/ loop' = [key |-> s, fresh |-> TRUE] /\ next' = None
      \/ loop.key # None /\ loop'.key = loop.key /\ next' = s
  BY InvParts DEF Commit, Schedule, RecordType
<1>4. shown' = s /\ committed' = s /\ retry' = None
  BY DEF Commit, Schedule
<1>5. FlushAlone' /\ WillRecord' /\ CommittedIsShown' /\ OneWriter'
  BY <1>1, <1>2, <1>3, <1>4
     DEF FlushAlone, WillRecord, CommittedIsShown, OneWriter, Destined
<1>6. FlushOrder'
  BY <1>1 DEF FlushOrder, Recording, Clearing
<1>. QED
  BY <1>5, <1>6 DEF RecordHolds

LEMMA FlushEffect ==
  ASSUME RecordType, Flush
  PROVE  /\ next' = None /\ retry' = None /\ lost' = lost
         /\ loop'.fresh = FALSE /\ loop'.key = loop.key
BY DEF RecordType, Flush

\* A flush begins: of a closing, or of the window.
LEMMA FlushRecords ==
  ASSUME RecordType, RecordHolds, Flush,
         \/ /\ quit' = FlushStage /\ UNCHANGED <<closing, view>>
         \/ /\ quit' = quit /\ committed' = committed
            /\ \E s \in Scopes : /\ closing'[s].stage = FlushStage
                                 /\ \A t \in Scopes \ {s} : closing'[t] = closing[t]
  PROVE  RecordHolds'
<1>1. Recording' /\ (UNCHANGED <<closing, view>> \/ \E s \in Scopes : Clearing(s)')
  BY FlushStageType DEF Recording, Clearing
<1>2. /\ next' = None /\ retry' = None /\ lost' = lost
      /\ loop'.fresh = FALSE /\ loop'.key = loop.key
  BY FlushEffect
<1>3. FlushAlone' /\ OneWriter' /\ WillRecord'
  BY <1>1, <1>2 DEF FlushAlone, OneWriter, WillRecord
<1>4. CommittedIsShown'
  BY <1>1, <1>2 DEF RecordHolds, CommittedIsShown, view, Clearing
<1>5. FlushOrder'
  BY <1>2 DEF RecordHolds, FlushOrder, FlushStage
<1>. QED
  BY <1>3, <1>4, <1>5 DEF RecordHolds

\* The loop takes the next write, or stops and lets who waits for it go on.
LEMMA LoopRecords ==
  ASSUME Inv, RecordHolds, LoopSettles
  PROVE  RecordHolds'
<1>0. /\ UNCHANGED <<view, lost>> /\ loop.key # None /\ retry = None
      /\ loop.fresh \in BOOLEAN
  BY InvParts DEF LoopSettles, RecordHolds, OneWriter, RecordType
<1>1. CASE next # None
  <2>1. /\ loop' = [key |-> next, fresh |-> TRUE] /\ next' = None
        /\ UNCHANGED <<retry, closing, quit>> /\ ~Recording /\ ~Recording'
    BY <1>1 DEF LoopSettles, RecordHolds, FlushAlone, Recording, Clearing
  <2>2. FlushAlone' /\ OneWriter' /\ WillRecord' /\ CommittedIsShown'
    BY <1>0, <1>1, <2>1
       DEF RecordHolds, FlushAlone, OneWriter, WillRecord, CommittedIsShown,
           Destined, view, Clearing
  <2>3. FlushOrder'
    BY <2>1 DEF FlushOrder, Recording, Clearing
  <2>. QED
    BY <2>2, <2>3 DEF RecordHolds
<1>2. CASE next = None
  <2>1. PICK landed \in BOOLEAN :
          /\ landed => durable' = loop.key
          /\ loop' = NoWrite /\ next' = None
          /\ retry' = IF ~landed /\ loop.fresh THEN loop.key ELSE None
          /\ Release
    BY <1>2 DEF LoopSettles
  <2>2. /\ \A t \in Scopes : closing'[t].stage = Released(closing[t].stage)
        /\ quit' = Released(quit)
    BY <2>1, InvParts DEF Release, ClosingType, Closings
  <2>3. /\ Recording' <=> Recording
        /\ (\A s \in Scopes : ~Clearing(s)') <=> (\A s \in Scopes : ~Clearing(s))
    BY <2>2 DEF Recording, Clearing, Released
  <2>4. loop'.key = None /\ loop'.fresh = FALSE
    BY <2>1 DEF NoWrite
  <2>5. FlushAlone' /\ OneWriter' /\ CommittedIsShown'
    BY <1>0, <2>1, <2>3, <2>4
       DEF RecordHolds, FlushAlone, OneWriter, CommittedIsShown, view
  <2>6. WillRecord'
    <3>. SUFFICES ASSUME ~lost', ~Recording' PROVE Destined' = shown'
      BY <2>4 DEF WillRecord
    <3>1. loop.key = shown /\ loop.fresh = TRUE /\ shown' = shown
      BY <1>0, <1>2, <2>3 DEF RecordHolds, WillRecord, Destined, view
    <3>2. retry' # None \/ durable' = loop.key
      BY <1>0, <2>1, <3>1
    <3>3. retry' \in {None, loop.key}
      BY <2>1
    <3>. QED
      BY <2>1, <2>4, <3>1, <3>2, <3>3 DEF Destined
  <2>7. FlushOrder'
    BY <2>2, <2>4 DEF FlushOrder, Released
  <2>. QED
    BY <2>5, <2>6, <2>7 DEF RecordHolds
<1>. QED
  BY <1>1, <1>2

LEMMA RetryRecords ==
  ASSUME RecordHolds, RetryFires
  PROVE  RecordHolds'
<1>1. /\ loop.key = None /\ next = None /\ retry # None /\ ~Recording
      /\ loop'.key = retry /\ loop'.fresh = TRUE /\ next' = None /\ retry' = None
      /\ UNCHANGED <<view, quit, closing, durable, lost>>
  BY DEF RetryFires, RecordHolds, OneWriter, FlushAlone
<1>2. ~Recording' /\ ((\A s \in Scopes : ~Clearing(s)') <=> (\A s \in Scopes : ~Clearing(s)))
  BY <1>1 DEF Recording, Clearing
<1>3. FlushAlone' /\ OneWriter' /\ WillRecord' /\ CommittedIsShown'
  BY <1>1, <1>2
     DEF RecordHolds, FlushAlone, OneWriter, WillRecord, CommittedIsShown, Destined, view
<1>4. FlushOrder'
  BY <1>2 DEF FlushOrder, Recording, Clearing
<1>. QED
  BY <1>3, <1>4 DEF RecordHolds

\* A flush lands; what it wrote is what is shown.
LEMMA WindowRecords ==
  ASSUME RecordHolds, WindowFlushed \/ WindowFlushFails
  PROVE  RecordHolds'
<1>1. /\ quit = "writing" /\ quit' \in {"open", "flushed"}
      /\ UNCHANGED <<view, closing, loop, next, retry>>
      /\ lost' = TRUE \/ (lost' = lost /\ durable' = shown)
  BY DEF WindowFlushed, WindowFlushFails, record
<1>2. loop.key = None /\ next = None /\ retry = None /\ loop.fresh = FALSE
  BY <1>1 DEF RecordHolds, FlushOrder, FlushAlone, Recording
<1>3. FlushAlone' /\ OneWriter' /\ WillRecord' /\ CommittedIsShown'
  BY <1>1, <1>2
     DEF RecordHolds, FlushAlone, OneWriter, WillRecord, CommittedIsShown, Destined,
         view, Clearing
<1>4. FlushOrder'
  BY <1>1 DEF RecordHolds, FlushOrder
<1>. QED
  BY <1>3, <1>4 DEF RecordHolds

LEMMA ClearingRecords ==
  ASSUME Inv, RecordHolds, NEW s \in Scopes, Cleared(s) \/ ClearingFails(s)
  PROVE  RecordHolds'
<1>0. /\ Clearing(s) /\ closing[s].stage = "writing" /\ ClosingOver(s)
      /\ shown = None /\ UNCHANGED <<shown, quit, loop, next, retry>>
      /\ \/ committed' = None /\ durable' = None /\ lost' = lost
         \/ lost' = TRUE
  BY EndedEffect, InvParts DEF Cleared, ClearingFails, Clearing, ClearingHolds, record, view
<1>1. loop.key = None /\ next = None /\ retry = None /\ loop.fresh = FALSE
  BY <1>0 DEF RecordHolds, FlushOrder, FlushAlone, Recording
<1>2. FlushAlone' /\ OneWriter' /\ WillRecord' /\ CommittedIsShown'
  BY <1>0, <1>1 DEF FlushAlone, OneWriter, WillRecord, CommittedIsShown, Destined
<1>3. FlushOrder'
  BY <1>0 DEF RecordHolds, FlushOrder, ClosingOver
<1>. QED
  BY <1>2, <1>3 DEF RecordHolds

LEMMA FreshRecord ==
  ASSUME closing = [s \in Scopes |-> NotClosing], quit = "open", loop = NoWrite,
         next = None, retry = None, shown = durable, committed = durable
  PROVE  RecordHolds
<1>1. ~Recording /\ \A s \in Scopes : closing[s].stage = "none"
  BY DEF Recording, Clearing, NotClosing
<1>2. loop.key = None
  BY DEF NoWrite
<1>. QED
  BY <1>1, <1>2 DEF RecordHolds, FlushAlone, FlushOrder, OneWriter, WillRecord,
                    CommittedIsShown, Destined

LEMMA ReopenRecords ==
  ASSUME Reopen
  PROVE  RecordHolds'
<1>1. ~Recording' /\ \A s \in Scopes : closing'[s].stage = "none"
  BY DEF Reopen, Recording, Clearing, NotClosing
<1>2. /\ loop'.key = None /\ next' = None /\ retry' = None /\ quit' = "open"
      /\ shown' = durable' /\ committed' = durable'
  BY DEF Reopen, NoWrite
<1>. QED
  BY <1>1, <1>2 DEF RecordHolds, FlushAlone, FlushOrder, OneWriter, WillRecord,
                    CommittedIsShown, Destined

LEMMA ContinueRecords ==
  ASSUME Inv, RecordHolds, NEW s \in Scopes, Continue(s) \/ TimesOut(s)
  PROVE  RecordHolds'
<1>1. UNCHANGED <<quit, closing, durable>>
  BY DEF Continue, TimesOut
<1>2. \/ UNCHANGED <<view, record>>
      \/ Commit(s) /\ latest = Activating(s) /\ quit = "open"
  BY ContinueEffect, TimesOutEffect, InvParts DEF GivesUp
<1>. QED
  BY <1>1, <1>2, CommitRecords, RecordKept

LEMMA CloseFailedRecords ==
  ASSUME Inv, RecordHolds, NEW s \in Scopes, CloseFailed(s)
  PROVE  RecordHolds'
<1>0. /\ UNCHANGED <<committed, quit, durable>> /\ ~Clearing(s)
  BY DEF CloseFailed, CanStartClose, Clearing
<1>1. CASE committed = s /\ quit = "open"
  <2>1. Flush /\ Stage(s, FlushStage)
    BY <1>1 DEF CloseFailed
  <2>2. /\ closing'[s].stage = FlushStage
        /\ \A t \in Scopes \ {s} : closing'[t] = closing[t]
    BY <2>1, InvParts DEF Stage, ClosingType
  <2>. QED
    BY <1>0, <2>1, <2>2, FlushRecords, InvParts
<1>2. CASE ~(committed = s /\ quit = "open")
  <2>1. Ended(s) /\ UNCHANGED <<shown, record>>
    BY <1>2 DEF CloseFailed
  <2>. QED
    BY <1>0, <2>1, EndedEffect, RecordKept, InvParts DEF ClosingOver, Clearing, view
<1>. QED
  BY <1>1, <1>2

LEMMA PreparedRecords ==
  ASSUME Inv, RecordHolds, NEW s \in Scopes, Prepared(s)
  PROVE  RecordHolds'
<1>0. /\ UNCHANGED <<committed, quit, durable>> /\ ~Clearing(s)
  BY DEF Prepared, Clearing
<1>1. CASE ShowNothing(s)
  <2>1. /\ closing'[s].stage = FlushStage
        /\ \A t \in Scopes \ {s} : closing'[t] = closing[t]
    BY <1>1, InvParts DEF ShowNothing, ClosingType, Closings
  <2>. QED
    BY <1>0, <1>1, <2>1, FlushRecords, InvParts DEF ShowNothing
<1>2. CASE Ended(s) /\ UNCHANGED <<shown, record>>
  BY <1>0, <1>2, EndedEffect, RecordKept, InvParts DEF ClosingOver, Clearing, view
<1>. QED
  BY <1>1, <1>2 DEF Prepared

LEMMA CallRecords ==
  ASSUME Inv, RecordHolds, NEW s \in Scopes,
         \/ ActivateCold(s) \/ ActivateResident(s) \/ Crash(s) \/ Reload(s)
         \/ SurfaceReady(s) \/ RestoreFails(s)
  PROVE  RecordHolds'
<1>1. UNCHANGED <<view, quit, closing, durable, record>>
  BY DEF ActivateCold, ActivateResident, Crash, Reload, SurfaceReady, RestoreFails, Reports
<1>. QED
  BY <1>1, RecordKept

LEMMA ClosingRecords ==
  ASSUME Inv, RecordHolds, NEW s \in Scopes,
         CloseWorkspace(s) \/ RefuseClose(s) \/ Prepare(s) \/ PreparationFails(s)
  PROVE  RecordHolds'
<1>1. UNCHANGED <<view, quit, durable, record>> /\ ~Clearing(s)
  BY DEF CloseWorkspace, RefuseClose, CanStartClose, Prepare, PreparationFails, Clearing
<1>2. /\ closing'[s].stage \in {"none", "waiting", "preparing"}
      /\ \A t \in Scopes \ {s} : closing'[t] = closing[t]
  BY EndedEffect, InvParts
     DEF CloseWorkspace, RefuseClose, Prepare, PreparationFails, Stage, ClosingOver,
         ClosingType, Closings
<1>. QED
  BY <1>1, <1>2, RecordKept DEF Clearing

LEMMA NextRecords == Inv /\ RecordHolds /\ [Next]_vars => RecordHolds'
<1>. SUFFICES ASSUME Inv, RecordHolds, [Next]_vars PROVE RecordHolds'
  OBVIOUS
<1>1. CASE UNCHANGED vars \/ StayOpen
  BY <1>1, RecordKept DEF vars, StayOpen
<1>2. CASE Writes \/ Reopen
  BY <1>2, LoopRecords, RetryRecords, WindowRecords, ReopenRecords DEF Writes
<1>3. CASE CloseWindow
  BY <1>3, FlushRecords, InvParts DEF CloseWindow
<1>4. CASE \E s \in Scopes : GoesOn(s) \/ TimesOut(s)
  BY <1>4, ContinueRecords, ClosingRecords, CloseFailedRecords DEF GoesOn
<1>5. CASE \E s \in Scopes : ClosesOn(s) \/ CloseWorkspace(s)
  BY <1>5, PreparedRecords, ClearingRecords, ClosingRecords DEF ClosesOn
<1>6. CASE \E s \in Scopes : \/ ActivateCold(s) \/ ActivateResident(s) \/ Crash(s)
                             \/ Reload(s) \/ SurfaceReady(s) \/ RestoreFails(s)
  BY <1>6, CallRecords
<1>. QED
  BY <1>1, <1>2, <1>3, <1>4, <1>5, <1>6 DEF Next, User, Renderer, Restores

LEMMA InitRecords == Init => RecordHolds
BY FreshRecord DEF Init

LEMMA RestAgrees == Inv /\ RecordHolds => Agreement
<1>. SUFFICES ASSUME Inv, RecordHolds, Quiet PROVE
       /\ shown \in {None, committed}
       /\ \A s \in Scopes : pool[s].state = "active" => s = committed
       /\ ~lost => committed = shown /\ durable = shown
  BY DEF Agreement
<1>1. ~Recording /\ next = None /\ loop.key = None /\ retry = None
      /\ \A s \in Scopes : ~Clearing(s)
  BY DEF Quiet, Recording, Clearing, NotClosing, RecordHolds, OneWriter
<1>2. ~lost => committed = shown /\ durable = shown
  BY <1>1 DEF RecordHolds, WillRecord, Destined, CommittedIsShown
<1>. QED
  BY <1>2, InvParts DEF ShownIsCommitted, ActiveIsCommitted

(* While the two assumptions hold, pool, coordinator, window and store     *)
(* agree whenever every call has ended, unless a flush failed since the    *)
(* last activation.                                                        *)
THEOREM AgreesAtRest ==
  ASSUME ~Overlaps, ~LateRefusals
  PROVE  Spec => []Agreement
<1>1. Inv /\ RecordHolds /\ [Next]_vars => Inv' /\ RecordHolds'
  BY NextHolds, NextRecords
<1>. QED
  BY <1>1, InitHolds, InitRecords, RestAgrees, PTL DEF Spec
=============================================================================
