---------------------- MODULE WorkspaceDeletionProofs ----------------------
(***************************************************************************)
(* Theorems about WorkspaceDeletion, for any calls and sessions and any    *)
(* number of faults.                                                       *)
(*                                                                         *)
(* That no data goes before the checkout has gone rests on an invariant of *)
(* three parts: as long as the checkout exists, no deletion is past it in  *)
(* the journal, nor in an entry some worker has read, and no worker is at  *)
(* a place past it.  A worker trusts the journal, the journal is written   *)
(* by workers, and a resumption trusts what it read earlier: none of the   *)
(* three is inductive without the others.                                  *)
(*                                                                         *)
(* That what is left to purge stays in the journal rests on a second one,  *)
(* Journaled: every entry of a deletion lists all histories there are, and *)
(* so does what a worker was told or has read; a worker past the purge has *)
(* left none.                                                              *)
(***************************************************************************)
EXTENDS WorkspaceDeletion, TLAPS

-----------------------------------------------------------------------------
(* Types *)

\* A worker that has work to do knows its operation.
Sound(r) == r \in WorkerStates /\ (r.at \in Working => r.op # None)

WorkersType ==
    /\ proc \in [Workers -> WorkerStates]
    /\ \A w \in Workers : Sound(proc[w])

JournalType == journal \in [Calls -> Entries]

DataType ==
    /\ {checkout, late, known, rows} \subseteq BOOLEAN
    /\ files \subseteq Sessions

FaultsType == faults \in 0..MaxFaults

Typed == DataType /\ JournalType /\ WorkersType /\ FaultsType

LEMMA TypedIsTypeOK == Typed <=> TypeOK
BY DEF Typed, TypeOK, DataType, JournalType, WorkersType, FaultsType, Sound

\* A worker that goes on in a sound state leaves the others alone.
LEMMA GoesType ==
  ASSUME WorkersType, NEW w \in Workers, NEW r, Sound(r), Goes(w, r)
  PROVE  WorkersType'
BY DEF WorkersType, Goes, Sound

LEMMA MovesType ==
  ASSUME WorkersType, NEW w \in Workers, NEW place \in Places,
         place \in Working => proc[w].op # None, Moves(w, place)
  PROVE  WorkersType'
<1> DEFINE r == [proc[w] EXCEPT !.at = place]
<1>1. Sound(r)
  BY DEF WorkersType, WorkerStates, Sound
<1>. QED
  BY <1>1, GoesType DEF Moves

LEMMA ReturnsType ==
  ASSUME WorkersType, NEW w \in Workers, Returns(w)
  PROVE  WorkersType'
<1>1. Sound(Done)
  BY DEF Sound, Done, Idle, WorkerStates, Places, Working
<1>. QED
  BY <1>1, GoesType DEF Returns

LEMMA FailsType ==
  ASSUME WorkersType, NEW w \in Workers, proc[w].op # None, Fails(w)
  PROVE  WorkersType'
BY MovesType, ReturnsType DEF Fails, Places

\* A worker at a place where it works has an operation of the journal.
LEMMA Operation ==
  ASSUME WorkersType, NEW w \in Workers, NEW place \in Working, At(w, place)
  PROVE  proc[w].op \in Calls /\ proc[w].op # None
BY DEF WorkersType, WorkerStates, Sound, At

Statuses == {"none", "pending", "checkout_deleted", "purging", "completed",
             "failed"}

LEMMA UpdatedType ==
  ASSUME JournalType, NEW o \in Calls, NEW status \in Statuses,
         NEW pre \in BOOLEAN
  PROVE  /\ Updated(o, status, pre) \in [Calls -> Entries]
         /\ Marked(o, status, pre) \in [Calls -> Entries]
BY DEF JournalType, Updated, Marked, Entries, Statuses

LEMMA FaultType ==
  ASSUME FaultsType, NEW o, Fault(o) \/ faults' = faults
  PROVE  FaultsType'
BY MaxFaultsAssumption DEF FaultsType, Fault

-----------------------------------------------------------------------------
(* The steps of the calls. *)

\* What leaves the journal and the data as they are.
LEMMA OnlyWorkersType ==
  ASSUME Typed, WorkersType', NEW o, Fault(o) \/ faults' = faults,
         UNCHANGED <<World, data, journal>>
  PROVE  Typed'
<1>1. FaultsType'
  BY FaultType DEF Typed
<1>. QED
  BY <1>1 DEF Typed, DataType, JournalType, World, data

\* What changes the journal as well.
LEMMA JournalStepType ==
  ASSUME Typed, WorkersType', JournalType', NEW o,
         Fault(o) \/ faults' = faults, UNCHANGED <<World, data>>
  PROVE  Typed'
<1>1. FaultsType'
  BY FaultType DEF Typed
<1>. QED
  BY <1>1 DEF Typed, DataType, World, data

\* What only changes the data, or the world outside.
LEMMA DataStepType ==
  ASSUME Typed, DataType', UNCHANGED <<journal, proc>>, NEW o,
         Fault(o) \/ faults' = faults
  PROVE  Typed'
<1>1. FaultsType'
  BY FaultType DEF Typed
<1>. QED
  BY <1>1 DEF Typed, JournalType, WorkersType, Sound

LEMMA SeenType ==
  ASSUME JournalType, NEW ops \in SUBSET Calls
  PROVE  {<<i, journal[i]>> : i \in {j \in ops : Incomplete(j)}}
           \in SUBSET (Calls \X Entries)
BY DEF JournalType

LEMMA UserType ==
  ASSUME Typed, UserStep
  PROVE  Typed'
<1>0. /\ checkout \in BOOLEAN /\ late \in BOOLEAN /\ known \in BOOLEAN
      /\ rows \in BOOLEAN /\ files \subseteq Sessions
  BY DEF Typed, DataType
<1>1. CASE OpenWorkspace
  <2>1. DataType'
    BY <1>0, <1>1 DEF OpenWorkspace, World, DataType
  <2>. QED
    BY <1>1, <2>1, DataStepType DEF OpenWorkspace
<1>2. ASSUME NEW s \in Sessions, NewSession(s)
      PROVE  Typed'
  <2>1. DataType'
    BY <1>0, <1>2 DEF NewSession, World, DataType
  <2>. QED
    BY <1>2, <2>1, DataStepType DEF NewSession
<1>3. CASE CreateAgain
  <2>1. DataType'
    BY <1>0, <1>3 DEF CreateAgain, data, DataType
  <2>. QED
    BY <1>3, <2>1, DataStepType DEF CreateAgain
<1>4. ASSUME NEW d \in Deleters, NEW o \in Outcomes, Begin(d, o)
      PROVE  Typed'
  <2> DEFINE r == [Idle EXCEPT !.at = "decide",
                               !.seen = {<<i, journal[i]>> : i \in
                                         {j \in Deleters : Incomplete(j)}}]
  <2>1. d \in Workers /\ Deleters \in SUBSET Calls
    BY DEF Workers, Calls
  <2>2. {<<i, journal[i]>> : i \in {j \in Deleters : Incomplete(j)}}
          \in SUBSET (Calls \X Entries)
    BY <2>1, SeenType DEF Typed
  <2>3. Sound(r)
    BY <2>2 DEF Sound, Idle, WorkerStates, Places, Working
  <2>4. WorkersType'
    BY <1>4, <2>1, <2>3, GoesType, ReturnsType DEF Typed, Begin
  <2>. QED
    BY <1>4, <2>4, OnlyWorkersType DEF Begin
<1>5. ASSUME NEW c \in Clearers, NEW o \in Outcomes, ListProject(c, o)
      PROVE  Typed'
  <2>1. c \in Workers
    BY DEF Workers, Calls
  <2>2. Sound([Idle EXCEPT !.at = "close", !.todo = files])
    BY DEF Sound, Idle, WorkerStates, Places, Working, Typed, DataType
  <2>3. WorkersType'
    BY <1>5, <2>1, <2>2, GoesType, ReturnsType DEF Typed, ListProject
  <2>. QED
    BY <1>5, <2>3, OnlyWorkersType DEF ListProject
<1>. QED
  BY <1>1, <1>2, <1>3, <1>4, <1>5 DEF UserStep

\* What an operation writes when it begins.
LEMMA EntryType ==
  ASSUME JournalType, WorkersType, NEW w \in Calls,
         NEW ops \in SUBSET Calls
  PROVE  /\ EntryOf(w, ops) \in Calls
         /\ Begun(w, ops) \in [Calls -> Entries]
<1>1. EntryOf(w, ops) \in Calls
  <2>1. CASE \E o \in ops : Incomplete(o)
    <3>1. Owner(ops) \in ops
      BY <2>1 DEF Owner
    <3>. QED
      BY <3>1 DEF EntryOf
  <2>2. CASE ~ \E o \in ops : Incomplete(o)
    BY <2>2 DEF Owner, EntryOf
  <2>. QED
    BY <2>1, <2>2
<1>2. proc[w].todo \in SUBSET Sessions
  BY DEF WorkersType, WorkerStates, Workers
<1>3. [status |-> "pending", pre |-> FALSE, sess |-> proc[w].todo] \in Entries
  BY <1>2 DEF Entries
<1>. QED
  BY <1>1, <1>3 DEF Begun, JournalType

\* A step to a place where no operation is needed, or with one at hand.
LEMMA KeepsPlaceType ==
  ASSUME Typed, NEW w \in Workers, NEW here \in Working, At(w, here),
         NEW place \in Places, Moves(w, place)
  PROVE  WorkersType'
BY Operation, MovesType DEF Typed

LEMMA DeleteType ==
  ASSUME Typed, NEW d \in Deleters, DeleteStep(d)
  PROVE  Typed'
<1>0. /\ d \in Workers /\ d \in Calls /\ Deleters \in SUBSET Calls
      /\ WorkersType /\ JournalType /\ DataType
  BY DEF Workers, Calls, Typed
<1>1. CASE Decide(d)
  <2>1. WorkersType'
    <3>1. CASE proc[d].seen = {}
      BY <1>0, <1>1, <3>1, MovesType DEF Decide, Places, Working
    <3>2. ASSUME NEW e \in proc[d].seen,
                 Goes(d, [Idle EXCEPT !.at = "sync", !.op = e[1],
                                      !.todo = e[2].sess, !.again = TRUE])
          PROVE  WorkersType'
      <4>1. e[1] \in Calls /\ e[1] # None /\ e[2].sess \in SUBSET Sessions
        BY <1>0, CallsAssumption DEF WorkersType, WorkerStates, Entries
      <4>2. Sound([Idle EXCEPT !.at = "sync", !.op = e[1],
                               !.todo = e[2].sess, !.again = TRUE])
        BY <4>1 DEF Sound, Idle, WorkerStates, Places
      <4>. QED
        BY <1>0, <3>2, <4>2, GoesType
    <3>3. ASSUME NEW e \in proc[d].seen,
                 Goes(d, [Idle EXCEPT !.at = "interrupted", !.op = e[1]])
          PROVE  WorkersType'
      <4>1. e[1] \in Calls /\ e[1] # None
        BY <1>0, CallsAssumption DEF WorkersType, WorkerStates
      <4>2. Sound([Idle EXCEPT !.at = "interrupted", !.op = e[1]])
        BY <4>1 DEF Sound, Idle, WorkerStates, Places
      <4>. QED
        BY <1>0, <3>3, <4>2, GoesType
    <3>4. CASE Moves(d, "preflight")
      BY <1>0, <3>4, MovesType DEF Places, Working
    <3>. QED
      BY <1>1, <3>1, <3>2, <3>3, <3>4 DEF Decide
  <2>. QED
    BY <1>1, <2>1, OnlyWorkersType DEF Decide
<1>2. CASE Preflight(d)
  <2>1. WorkersType'
    BY <1>0, <1>2, MovesType, ReturnsType DEF Preflight, Places, Working
  <2>. QED
    BY <1>2, <2>1, OnlyWorkersType DEF Preflight
<1>3. CASE CloseSurface(d, "list")
  <2>1. WorkersType'
    BY <1>0, <1>3, MovesType, ReturnsType DEF CloseSurface, Places, Working
  <2>. QED
    BY <1>3, <2>1, OnlyWorkersType DEF CloseSurface
<1>4. CASE Catch(d)
  <2>1. WorkersType'
    BY <1>4, <1>0, KeepsPlaceType DEF Catch, Places, Working
  <2>. QED
    BY <1>4, <2>1, OnlyWorkersType DEF Catch
<1>5. ASSUME NEW o \in Outcomes, MarkInterrupted(d, o)
      PROVE  Typed'
  <2>1. proc[d].op \in Calls
    BY <1>0, <1>5, Operation DEF MarkInterrupted, Working
  <2>2. JournalType'
    BY <1>0, <1>5, <2>1, UpdatedType DEF MarkInterrupted, JournalType, Statuses
  <2>3. WorkersType'
    BY <1>0, <1>5, MovesType DEF MarkInterrupted, Places, Working
  <2>. QED
    BY <1>5, <2>2, <2>3, JournalStepType DEF MarkInterrupted
<1>6. ASSUME NEW o \in Outcomes, ListSessions(d, o)
      PROVE  Typed'
  <2>1. Sound([proc[d] EXCEPT !.at = "begin", !.todo = files])
    BY <1>0 DEF Sound, WorkersType, WorkerStates, DataType, Places, Working
  <2>2. WorkersType'
    BY <1>0, <1>6, <2>1, GoesType, ReturnsType DEF ListSessions
  <2>. QED
    BY <1>6, <2>2, OnlyWorkersType DEF ListSessions
<1>7. ASSUME NEW o \in Outcomes, BeginDeletion(d, o)
      PROVE  Typed'
  <2>1. /\ EntryOf(d, Deleters) \in Calls
        /\ Begun(d, Deleters) \in [Calls -> Entries]
    BY <1>0, EntryType
  <2>2. Sound([proc[d] EXCEPT !.at = "stop", !.op = EntryOf(d, Deleters)])
    BY <1>0, <2>1, CallsAssumption
    DEF Sound, WorkersType, WorkerStates, Places, Working
  <2>3. WorkersType'
    BY <1>0, <1>7, <2>2, GoesType, ReturnsType DEF BeginDeletion
  <2>4. JournalType'
    BY <1>0, <1>7, <2>1 DEF BeginDeletion, JournalType
  <2>. QED
    BY <1>7, <2>3, <2>4, JournalStepType DEF BeginDeletion
<1>8. ASSUME NEW o \in Outcomes, StopRuntimes(d, o)
      PROVE  Typed'
  <2>1. WorkersType'
    BY <1>0, <1>8, KeepsPlaceType DEF StopRuntimes, Places, Working
  <2>. QED
    BY <1>8, <2>1, OnlyWorkersType DEF StopRuntimes
<1>9. ASSUME NEW o \in Outcomes, RemoveCheckout(d, o)
      PROVE  Typed'
  <2>1. WorkersType'
    BY <1>0, <1>9, KeepsPlaceType DEF RemoveCheckout, Places, Working
  <2>2. checkout' \in BOOLEAN /\ late' \in BOOLEAN
    BY <1>0, <1>9 DEF RemoveCheckout, DataType, Outcomes
  <2>3. DataType' /\ JournalType'
    BY <1>0, <1>9, <2>2 DEF RemoveCheckout, DataType, JournalType, data
  <2>4. FaultsType'
    BY <1>9, FaultType DEF RemoveCheckout, Typed
  <2>. QED
    BY <2>1, <2>3, <2>4 DEF Typed
<1>10. ASSUME NEW o \in Outcomes, RecordCheckout(d, o)
       PROVE  Typed'
  <2>1. proc[d].op \in Calls
    BY <1>0, <1>10, Operation DEF RecordCheckout, Working
  <2>2. JournalType'
    BY <1>0, <1>10, <2>1, UpdatedType DEF RecordCheckout, JournalType, Statuses
  <2>3. WorkersType'
    BY <1>0, <1>10, KeepsPlaceType DEF RecordCheckout, Places, Working
  <2>4. Fault(o) \/ faults' = faults
    BY <1>10 DEF RecordCheckout
  <2>. QED
    BY <1>10, <2>2, <2>3, <2>4, JournalStepType DEF RecordCheckout
<1>11. ASSUME NEW o \in Outcomes, RecordFailure(d, o)
       PROVE  Typed'
  <2>1. proc[d].op \in Calls
    BY <1>0, <1>11, Operation DEF RecordFailure, Working
  <2>2. JournalType'
    BY <1>0, <1>11, <2>1, UpdatedType DEF RecordFailure, JournalType, Statuses
  <2>3. WorkersType'
    BY <1>0, <1>11, ReturnsType DEF RecordFailure
  <2>. QED
    BY <1>11, <2>2, <2>3, JournalStepType DEF RecordFailure
<1>. QED
  BY <1>1, <1>2, <1>3, <1>4, <1>5, <1>6, <1>7, <1>8, <1>9, <1>10, <1>11
  DEF DeleteStep

LEMMA ClearType ==
  ASSUME Typed, NEW c \in Clearers, ClearStep(c)
  PROVE  Typed'
<1>0. /\ c \in Workers /\ c \in Calls /\ Clearers \in SUBSET Calls
      /\ WorkersType /\ JournalType
  BY DEF Workers, Calls, Typed
<1>1. CASE CloseSurface(c, "begin")
  <2>1. WorkersType'
    BY <1>0, <1>1, MovesType, ReturnsType DEF CloseSurface, Places, Working
  <2>. QED
    BY <1>1, <2>1, OnlyWorkersType DEF CloseSurface
<1>2. ASSUME NEW o \in Outcomes, BeginClear(c, o)
      PROVE  Typed'
  <2>1. Begun(c, Clearers) \in [Calls -> Entries]
    BY <1>0, EntryType
  <2>2. Sound([proc[c] EXCEPT !.at = "update", !.op = c])
    BY <1>0, CallsAssumption
    DEF Sound, WorkersType, WorkerStates, Places, Working
  <2>3. WorkersType'
    BY <1>0, <1>2, <2>2, GoesType, ReturnsType DEF BeginClear
  <2>4. JournalType'
    BY <1>0, <1>2, <2>1 DEF BeginClear, JournalType
  <2>. QED
    BY <1>2, <2>3, <2>4, JournalStepType DEF BeginClear
<1>. QED
  BY <1>1, <1>2 DEF ClearStep

\* Where a worker of the cleanup is.
CleanupPlaces == {"sync", "purge", "update", "project", "complete", "fail"}

LEMMA CleanupType ==
  ASSUME Typed, NEW w \in Workers, CleanupStep(w)
  PROVE  Typed'
<1>0. /\ WorkersType /\ JournalType /\ DataType
      /\ checkout \in BOOLEAN /\ late \in BOOLEAN /\ known \in BOOLEAN
      /\ rows \in BOOLEAN /\ files \in SUBSET Sessions
      /\ proc[w] \in WorkerStates
  BY DEF Typed, DataType, WorkersType
<1>1. ASSUME NEW place \in CleanupPlaces, At(w, place)
      PROVE  proc[w].op \in Calls /\ proc[w].op # None
  BY <1>0, <1>1, Operation DEF CleanupPlaces, Working
<1>2. CASE Purged(w)
  <2>1. WorkersType'
    BY <1>1, <1>0, <1>2, MovesType
    DEF Purged, AfterPurge, CleanupPlaces, Places
  <2>. QED
    BY <1>2, <2>1, OnlyWorkersType DEF Purged
<1>3. ASSUME NEW o \in Outcomes, SyncWorktrees(w, o)
      PROVE  Typed'
  <2>1. WorkersType'
    BY <1>0, <1>1, <1>3, FailsType, MovesType
    DEF SyncWorktrees, CleanupPlaces, Places
  <2>2. known' \in BOOLEAN
    <3>1. proc[w].again \in BOOLEAN
      BY <1>0 DEF WorkerStates
    <3>. QED
      BY <1>0, <1>3, <3>1 DEF SyncWorktrees
  <2>3. DataType' /\ JournalType'
    BY <1>0, <1>3, <2>2 DEF SyncWorktrees, DataType, JournalType, data
  <2>4. FaultsType'
    BY <1>3, FaultType DEF SyncWorktrees, Typed
  <2>. QED
    BY <2>1, <2>3, <2>4 DEF Typed
<1>4. ASSUME NEW o \in Outcomes, NEW s \in Sessions, PurgeSession(w, s, o)
      PROVE  Typed'
  <2>1. Sound([proc[w] EXCEPT !.todo = @ \ {s}])
    BY <1>0, <1>1, <1>4
    DEF PurgeSession, CleanupPlaces, Sound, WorkerStates
  <2>2. WorkersType'
    BY <1>0, <1>1, <1>4, <2>1, GoesType, FailsType
    DEF PurgeSession, CleanupPlaces
  <2>3. DataType' /\ JournalType'
    BY <1>0, <1>4 DEF PurgeSession, DataType, JournalType, World
  <2>4. FaultsType'
    BY <1>4, FaultType DEF PurgeSession, Typed
  <2>. QED
    BY <2>2, <2>3, <2>4 DEF Typed
<1>5. ASSUME NEW o \in Outcomes, StartPurging(w, o)
      PROVE  Typed'
  <2>1. proc[w].op \in Calls /\ proc[w].op # None
    BY <1>1, <1>5 DEF StartPurging, CleanupPlaces
  <2>2. JournalType'
    BY <1>0, <1>5, <2>1, UpdatedType DEF StartPurging, JournalType, Statuses
  <2>3. WorkersType'
    BY <1>0, <1>5, <2>1, FailsType, MovesType DEF StartPurging, Places
  <2>4. Fault(o) \/ faults' = faults
    BY <1>5 DEF StartPurging
  <2>. QED
    BY <1>5, <2>2, <2>3, <2>4, JournalStepType DEF StartPurging
<1>6. ASSUME NEW o \in Outcomes, ClearProject(w, o)
      PROVE  Typed'
  <2>1. proc[w].op # None
    BY <1>1, <1>6 DEF ClearProject, CleanupPlaces
  <2>2. WorkersType'
    BY <1>0, <1>6, <2>1, FailsType, MovesType DEF ClearProject, Places
  <2>3. DataType' /\ JournalType'
    BY <1>0, <1>6 DEF ClearProject, DataType, JournalType, World
  <2>4. FaultsType'
    BY <1>6, FaultType DEF ClearProject, Typed
  <2>. QED
    BY <2>2, <2>3, <2>4 DEF Typed
<1>7. ASSUME NEW o \in Outcomes, Complete(w, o)
      PROVE  Typed'
  <2>1. proc[w].op \in Calls /\ proc[w].op # None
    BY <1>1, <1>7 DEF Complete, CleanupPlaces
  <2>2. WorkersType'
    BY <1>0, <1>7, <2>1, FailsType, MovesType, ReturnsType
    DEF Complete, Places
  <2>3. JournalType'
    BY <1>0, <1>7, <2>1, UpdatedType DEF Complete, JournalType, Statuses
  <2>4. rows' \in BOOLEAN /\ known' \in BOOLEAN
    BY <1>0, <1>7 DEF Complete
  <2>5. DataType'
    BY <1>0, <1>7, <2>4 DEF Complete, DataType
  <2>6. Fault(o) \/ faults' = faults
    BY <1>7 DEF Complete
  <2>. QED
    BY <2>2, <2>3, <2>5, <2>6, FaultType DEF Typed
<1>8. ASSUME NEW o \in Outcomes, MarkFailed(w, o)
      PROVE  Typed'
  <2>1. proc[w].op \in Calls /\ proc[w].op # None
    BY <1>1, <1>8 DEF MarkFailed, CleanupPlaces
  <2>2. JournalType'
    BY <1>0, <1>8, <2>1, UpdatedType DEF MarkFailed, JournalType, Statuses
  <2>3. WorkersType'
    BY <1>0, <1>8, <2>1, MovesType, ReturnsType DEF MarkFailed, Places
  <2>. QED
    BY <1>8, <2>2, <2>3, JournalStepType DEF MarkFailed
<1>. QED
  BY <1>2, <1>3, <1>4, <1>5, <1>6, <1>7, <1>8 DEF CleanupStep

LEMMA ResumeType ==
  ASSUME Typed, ResumeStep
  PROVE  Typed'
<1>0. /\ Resumer \in Workers /\ Calls \in SUBSET Calls
      /\ WorkersType /\ JournalType
      /\ proc[Resumer] \in WorkerStates
  BY DEF Workers, Typed, WorkersType
<1>1. CASE ResumeNext
  <2>1. CASE proc[Resumer].seen = {}
    <3>1. WorkersType'
      BY <1>0, <1>1, <2>1, ReturnsType DEF ResumeNext
    <3>. QED
      BY <1>1, <3>1, OnlyWorkersType DEF ResumeNext
  <2>2. CASE proc[Resumer].seen # {}
    <3> DEFINE Rest(e) == [proc[Resumer] EXCEPT !.seen = @ \ {e},
                                                !.op = e[1],
                                                !.todo = e[2].sess,
                                                !.again = TRUE]
               At1(e, place) == [Rest(e) EXCEPT !.at = place]
    <3>1. PICK e \in proc[Resumer].seen :
            \/ Goes(Resumer, Rest(e)) /\ At(Resumer, "next")
            \/ \E place \in {"skip", "sync", "purge"} :
                 Goes(Resumer, At1(e, place))
      BY <1>1, <2>2 DEF ResumeNext
    <3>2. /\ e[1] \in Calls /\ e[1] # None /\ e[2].sess \in SUBSET Sessions
          /\ proc[Resumer].seen \ {e} \in SUBSET (Calls \X Entries)
      BY <1>0, CallsAssumption DEF WorkerStates, Entries
    <3>3. Rest(e) \in WorkerStates
      BY <1>0, <3>2 DEF WorkerStates
    <3>4. Sound(Rest(e))
      BY <1>0, <3>2, <3>3 DEF Sound, WorkerStates
    <3>5. \A place \in {"skip", "sync", "purge"} : Sound(At1(e, place))
      BY <1>0, <3>2 DEF Sound, WorkerStates, Places
    <3>6. WorkersType'
      <4> HIDE DEF Rest, At1
      <4>. QED
        BY <1>0, <3>1, <3>4, <3>5, GoesType
    <3>. QED
      BY <1>1, <3>6, OnlyWorkersType DEF ResumeNext
  <2>. QED
    BY <2>1, <2>2
<1>2. ASSUME NEW o \in Outcomes, ListIncomplete(o)
      PROVE  Typed'
  <2>1. {<<i, journal[i]>> : i \in {j \in Calls : Incomplete(j)}}
          \in SUBSET (Calls \X Entries)
    BY <1>0, SeenType
  <2>2. Sound([Idle EXCEPT !.at = "next",
                           !.seen = {<<i, journal[i]>> : i \in
                                     {j \in Calls : Incomplete(j)}}])
    BY <2>1 DEF Sound, Idle, WorkerStates, Places, Working
  <2>3. WorkersType'
    BY <1>0, <1>2, <2>2, GoesType, ReturnsType DEF ListIncomplete
  <2>. QED
    BY <1>2, <2>3, OnlyWorkersType DEF ListIncomplete
<1>3. ASSUME NEW o \in Outcomes, SkipInterrupted(o)
      PROVE  Typed'
  <2>1. proc[Resumer].op \in Calls
    BY <1>0, <1>3, Operation DEF SkipInterrupted, Working
  <2>2. JournalType'
    BY <1>0, <1>3, <2>1, UpdatedType DEF SkipInterrupted, JournalType, Statuses
  <2>3. WorkersType'
    BY <1>0, <1>3, MovesType DEF SkipInterrupted, Places, Working
  <2>. QED
    BY <1>3, <2>2, <2>3, JournalStepType DEF SkipInterrupted
<1>. QED
  BY <1>1, <1>2, <1>3 DEF ResumeStep

\* A stop leaves every worker idle, or done for good.
LEMMA StoppedType ==
  ASSUME Typed, proc' = Stopped, UNCHANGED <<checkout, late, known, data, journal>>,
         NEW o, Fault(o) \/ faults' = faults
  PROVE  Typed'
<1>1. Sound(Idle) /\ Sound(Done)
  BY DEF Sound, Idle, Done, WorkerStates, Places, Working
<1>2. WorkersType'
  BY <1>1 DEF WorkersType, Stopped, Sound
<1>3. UNCHANGED <<World, data, journal>>
  BY DEF World
<1>. QED
  BY <1>2, <1>3, OnlyWorkersType

-----------------------------------------------------------------------------
LEMMA InitType == Init => Typed
<1>1. Sound(Idle) /\ NoEntry \in Entries
  BY DEF Sound, Idle, WorkerStates, Places, Working, NoEntry, Entries
<1>. SUFFICES ASSUME Init PROVE Typed
  OBVIOUS
<1>2. DataType
  BY DEF Init, DataType
<1>3. JournalType
  BY <1>1 DEF Init, JournalType
<1>4. WorkersType
  BY <1>1 DEF Init, WorkersType, Sound
<1>5. FaultsType
  BY MaxFaultsAssumption DEF Init, FaultsType
<1>. QED
  BY <1>2, <1>3, <1>4, <1>5 DEF Typed

LEMMA NextType == Typed /\ [Next]_vars => Typed'
<1>. SUFFICES ASSUME Typed, [Next]_vars PROVE Typed'
  OBVIOUS
<1>1. CASE UserStep
  BY <1>1, UserType
<1>2. ASSUME NEW w \in Workers, WorkerStep(w)
      PROVE  Typed'
  BY <1>2, DeleteType, ClearType, CleanupType, ResumeType DEF WorkerStep
<1>3. CASE GitFinishes
  <2>1. DataType'
    BY <1>3 DEF GitFinishes, Typed, DataType, data
  <2>. QED
    BY <1>3, <2>1, DataStepType DEF GitFinishes
<1>4. CASE Crash
  BY <1>4, StoppedType DEF Crash
<1>5. CASE Restart
  BY <1>5, StoppedType DEF Restart
<1>6. CASE UNCHANGED vars
  <2>1. DataType'
    BY <1>6 DEF vars, data, Typed, DataType
  <2>. QED
    BY <1>6, <2>1, DataStepType DEF vars
<1>. QED
  BY <1>1, <1>2, <1>3, <1>4, <1>5, <1>6 DEF Next

\* Every reachable state is well typed, and whoever works on an operation knows
\* which one: no path through the coordinator, its failures and its resumption
\* reaches the journal without the name of an entry.
THEOREM TypeCorrect == Spec => []TypeOK
<1>1. Spec => []Typed
  BY InitType, NextType, PTL DEF Spec
<1>. QED
  BY <1>1, TypedIsTypeOK, PTL

-----------------------------------------------------------------------------
(* As long as the checkout exists, no deletion is past it. *)

\* Entries that say that the checkout has gone.
Past(e) ==
    \/ e.status \in {"checkout_deleted", "purging", "completed"}
    \/ e.status = "failed" /\ ~e.pre

\* Places a deletion comes to when the checkout has gone.
PastPlaces ==
    {"sync", "record", "catch_post", "purge", "update", "project", "complete",
     "fail"}

JournalBefore == \A d \in Deleters : ~Past(journal[d])

Before(r) ==
    /\ r.op \in Deleters => r.at \notin PastPlaces
    /\ \A e \in r.seen : e[1] \in Deleters => ~Past(e[2])

NothingPast == checkout => JournalBefore /\ \A w \in Workers : Before(proc[w])

\* A worker goes on, the journal staying before the checkout.
LEMMA GoesBefore ==
  ASSUME Typed, NothingPast, NEW w \in Workers, NEW r, Goes(w, r),
         checkout' => checkout /\ Before(r) /\ JournalBefore'
  PROVE  NothingPast'
BY DEF NothingPast, Goes, Typed, WorkersType, Before, JournalBefore

LEMMA MovesBefore ==
  ASSUME Typed, NothingPast, NEW w \in Workers, NEW place, Moves(w, place),
         checkout' => checkout /\ JournalBefore',
         checkout /\ proc[w].op \in Deleters => place \notin PastPlaces
  PROVE  NothingPast'
<1>1. ASSUME checkout'
      PROVE  Before([proc[w] EXCEPT !.at = place])
  BY <1>1 DEF NothingPast, Before, Typed, WorkersType, WorkerStates
<1>. QED
  BY <1>1, GoesBefore DEF Moves

LEMMA ReturnsBefore ==
  ASSUME Typed, NothingPast, NEW w \in Workers, Returns(w),
         checkout' => checkout /\ JournalBefore'
  PROVE  NothingPast'
<1>1. Before(Done)
  BY DEF Before, Done, Idle, PastPlaces
<1>. QED
  BY <1>1, GoesBefore DEF Returns

\* A worker past the checkout may go on to any place: the checkout has gone.
LEMMA PastBefore ==
  ASSUME Typed, NothingPast, NEW w \in Workers, NEW here \in PastPlaces,
         At(w, here), checkout
  PROVE  proc[w].op \notin Deleters
BY DEF NothingPast, Before, At

LEMMA FailsBefore ==
  ASSUME Typed, NothingPast, NEW w \in Workers, Fails(w),
         checkout => proc[w].op \notin Deleters,
         checkout' => checkout /\ JournalBefore'
  PROVE  NothingPast'
BY MovesBefore, ReturnsBefore DEF Fails

\* An update that does not claim more than the checkout's state.
LEMMA UpdatedBefore ==
  ASSUME JournalType, JournalBefore, NEW o \in Calls, NEW status \in Statuses,
         NEW pre \in BOOLEAN,
         o \in Deleters => status \in {"none", "pending"}
                             \/ (status = "failed" /\ pre)
  PROVE  /\ \A d \in Deleters : ~Past(Updated(o, status, pre)[d])
         /\ \A d \in Deleters : ~Past(Marked(o, status, pre)[d])
<1>1. ASSUME NEW d \in Deleters
      PROVE  ~Past(Updated(o, status, pre)[d])
  <2>1. d \in Calls
    BY DEF Calls
  <2>2. CASE d = o
    <3>1. Updated(o, status, pre)[d].status = status
      BY <2>1, <2>2 DEF Updated, JournalType, Entries
    <3>2. Updated(o, status, pre)[d].pre = pre
      BY <2>1, <2>2 DEF Updated, JournalType, Entries
    <3>. QED
      BY <2>2, <3>1, <3>2 DEF Past
  <2>3. CASE d # o
    <3>1. Updated(o, status, pre)[d] = journal[d]
      BY <2>1, <2>3 DEF Updated, JournalType
    <3>. QED
      BY <3>1 DEF JournalBefore
  <2>. QED
    BY <2>2, <2>3
<1>. QED
  BY <1>1 DEF Marked, JournalBefore

\* What a worker has read lets it resume a deletion only when the checkout has
\* gone.
LEMMA ResumesOnlyPast ==
  ASSUME Typed, NothingPast, NEW w \in Workers, NEW e \in proc[w].seen,
         ShouldResume(e[1], e[2]), checkout
  PROVE  e[1] \notin Deleters
<1>1. e[1] \in Deleters => e[1] \notin Clearers
  BY CallsAssumption
<1>2. e[1] \in Deleters => ~Past(e[2])
  BY DEF NothingPast, Before
<1>. QED
  BY <1>1, <1>2 DEF ShouldResume, Past

LEMMA SeenBefore ==
  ASSUME JournalBefore, NEW ops
  PROVE  \A e \in {<<i, journal[i]>> : i \in {j \in ops : Incomplete(j)}} :
           e[1] \in Deleters => ~Past(e[2])
BY DEF JournalBefore

LEMMA BegunBefore ==
  ASSUME Typed, JournalBefore, NEW w \in Calls, NEW ops \in SUBSET Calls
  PROVE  \A d \in Deleters : ~Past(Begun(w, ops)[d])
<1>1. EntryOf(w, ops) \in Calls
  BY EntryType DEF Typed
<1>2. ASSUME NEW d \in Deleters
      PROVE  ~Past(Begun(w, ops)[d])
  <2>1. d \in Calls
    BY DEF Calls
  <2>2. CASE ~Admits(ops)
    BY <2>2 DEF Begun, JournalBefore
  <2>3. CASE Admits(ops) /\ d = EntryOf(w, ops)
    <3>1. Begun(w, ops)[d].status = "pending"
      BY <2>1, <2>3 DEF Begun, Typed, JournalType
    <3>. QED
      BY <3>1 DEF Past
  <2>4. CASE Admits(ops) /\ d # EntryOf(w, ops)
    <3>1. Begun(w, ops)[d] = journal[d]
      BY <2>1, <2>4 DEF Begun, Typed, JournalType
    <3>. QED
      BY <3>1 DEF JournalBefore
  <2>. QED
    BY <2>2, <2>3, <2>4
<1>. QED
  BY <1>2

\* Steps that leave the journal and the checkout alone.
LEMMA SameJournal ==
  ASSUME NothingPast, journal' = journal
  PROVE  checkout => JournalBefore /\ JournalBefore'
BY DEF NothingPast, JournalBefore

LEMMA UserBefore ==
  ASSUME Typed, NothingPast, UserStep, ~Recreate
  PROVE  NothingPast'
<1>1. CASE OpenWorkspace
  BY <1>1 DEF OpenWorkspace, NothingPast, World, JournalBefore, Before
<1>2. ASSUME NEW s \in Sessions, NewSession(s)
      PROVE  NothingPast'
  BY <1>2 DEF NewSession, NothingPast, World, JournalBefore, Before
<1>3. ~CreateAgain
  BY DEF CreateAgain
<1>4. ASSUME NEW d \in Deleters, NEW o \in Outcomes, Begin(d, o)
      PROVE  NothingPast'
  <2> DEFINE read == {<<i, journal[i]>> : i \in {j \in Deleters : Incomplete(j)}}
             r == [Idle EXCEPT !.at = "decide", !.seen = read]
  <2>1. d \in Workers /\ checkout' = checkout /\ journal' = journal
    BY <1>4 DEF Workers, Calls, Begin, World
  <2>2. checkout => Before(r)
    <3>1. checkout => \A e \in read : e[1] \in Deleters => ~Past(e[2])
      BY SeenBefore DEF NothingPast
    <3>2. r.at = "decide" /\ r.seen = read
      BY DEF Idle
    <3>. QED
      BY <3>1, <3>2 DEF Before, PastPlaces
  <2>. QED
    BY <1>4, <2>1, <2>2, SameJournal, GoesBefore, ReturnsBefore DEF Begin
<1>5. ASSUME NEW c \in Clearers, NEW o \in Outcomes, ListProject(c, o)
      PROVE  NothingPast'
  <2>1. c \in Workers /\ checkout' = checkout /\ journal' = journal
    BY <1>5 DEF Workers, Calls, ListProject, World
  <2>2. Before([Idle EXCEPT !.at = "close", !.todo = files])
    BY DEF Before, Idle, PastPlaces
  <2>. QED
    BY <1>5, <2>1, <2>2, SameJournal, GoesBefore, ReturnsBefore
    DEF ListProject
<1>. QED
  BY <1>1, <1>2, <1>3, <1>4, <1>5 DEF UserStep

LEMMA DeleteBefore ==
  ASSUME Typed, NothingPast, NEW d \in Deleters, DeleteStep(d)
  PROVE  NothingPast'
<1>0. /\ d \in Workers /\ d \in Calls /\ Deleters \in SUBSET Calls
      /\ WorkersType /\ JournalType
      /\ checkout => JournalBefore
  BY DEF Workers, Calls, Typed, NothingPast
<1>1. CASE Decide(d)
  <2>1. /\ checkout' = checkout
        /\ checkout' => JournalBefore'
    BY <1>0, <1>1 DEF Decide, World, JournalBefore
  <2>2. CASE Moves(d, "preflight")
    BY <1>0, <2>1, <2>2, MovesBefore DEF PastPlaces
  <2>3. ASSUME NEW e \in proc[d].seen, ShouldResume(e[1], e[2]),
               Goes(d, [Idle EXCEPT !.at = "sync", !.op = e[1],
                                    !.todo = e[2].sess, !.again = TRUE])
        PROVE  NothingPast'
    <3>1. checkout => e[1] \notin Deleters
      BY <1>0, <2>3, ResumesOnlyPast
    <3>2. checkout => Before([Idle EXCEPT !.at = "sync", !.op = e[1],
                                          !.todo = e[2].sess, !.again = TRUE])
      BY <3>1 DEF Before, Idle
    <3>. QED
      BY <1>0, <2>1, <2>3, <3>2, GoesBefore
  <2>4. ASSUME NEW e \in proc[d].seen,
               Goes(d, [Idle EXCEPT !.at = "interrupted", !.op = e[1]])
        PROVE  NothingPast'
    <3>1. Before([Idle EXCEPT !.at = "interrupted", !.op = e[1]])
      BY DEF Before, Idle, PastPlaces
    <3>. QED
      BY <1>0, <2>1, <2>4, <3>1, GoesBefore
  <2>. QED
    BY <1>1, <2>2, <2>3, <2>4 DEF Decide
<1>2. CASE Preflight(d)
  <2>1. checkout' = checkout /\ journal' = journal
    BY <1>2 DEF Preflight, World
  <2>. QED
    BY <1>0, <1>2, <2>1, SameJournal, MovesBefore, ReturnsBefore
    DEF Preflight, PastPlaces
<1>3. CASE CloseSurface(d, "list")
  <2>1. checkout' = checkout /\ journal' = journal
    BY <1>3 DEF CloseSurface, World
  <2>. QED
    BY <1>0, <1>3, <2>1, SameJournal, MovesBefore, ReturnsBefore
    DEF CloseSurface, PastPlaces
<1>4. CASE Catch(d)
  <2>1. checkout' = checkout /\ journal' = journal
    BY <1>4 DEF Catch, World
  <2>2. checkout => Moves(d, "catch_pre")
    BY <1>4 DEF Catch
  <2>3. CASE checkout
    BY <1>0, <2>1, <2>2, <2>3, SameJournal, MovesBefore DEF PastPlaces
  <2>4. CASE ~checkout
    BY <2>1, <2>4 DEF NothingPast
  <2>. QED
    BY <2>3, <2>4
<1>5. ASSUME NEW o \in Outcomes, MarkInterrupted(d, o)
      PROVE  NothingPast'
  <2>1. proc[d].op \in Calls /\ checkout' = checkout
    BY <1>0, <1>5, Operation DEF MarkInterrupted, Working, World
  <2>2. checkout => JournalBefore'
    BY <1>0, <1>5, <2>1, UpdatedBefore
    DEF MarkInterrupted, JournalBefore, Statuses
  <2>. QED
    BY <1>0, <1>5, <2>1, <2>2, MovesBefore DEF MarkInterrupted, PastPlaces
<1>6. ASSUME NEW o \in Outcomes, ListSessions(d, o)
      PROVE  NothingPast'
  <2>1. checkout' = checkout /\ journal' = journal
    BY <1>6 DEF ListSessions, World
  <2>2. checkout => Before([proc[d] EXCEPT !.at = "begin", !.todo = files])
    BY <1>0 DEF NothingPast, Before, PastPlaces, WorkersType, WorkerStates
  <2>. QED
    BY <1>0, <1>6, <2>1, <2>2, SameJournal, GoesBefore, ReturnsBefore
    DEF ListSessions
<1>7. ASSUME NEW o \in Outcomes, BeginDeletion(d, o)
      PROVE  NothingPast'
  <2>1. checkout' = checkout
    BY <1>7 DEF BeginDeletion, World
  <2>2. checkout => JournalBefore'
    BY <1>0, <1>7, BegunBefore DEF BeginDeletion, JournalBefore
  <2>3. checkout => Before([proc[d] EXCEPT !.at = "stop",
                                           !.op = EntryOf(d, Deleters)])
    BY <1>0 DEF NothingPast, Before, PastPlaces, WorkersType, WorkerStates
  <2>. QED
    BY <1>0, <1>7, <2>1, <2>2, <2>3, GoesBefore, ReturnsBefore
    DEF BeginDeletion
<1>8. ASSUME NEW o \in Outcomes, StopRuntimes(d, o)
      PROVE  NothingPast'
  <2>1. checkout' = checkout /\ journal' = journal
    BY <1>8 DEF StopRuntimes, World
  <2>. QED
    BY <1>0, <1>8, <2>1, SameJournal, MovesBefore DEF StopRuntimes, PastPlaces
<1>9. ASSUME NEW o \in Outcomes, RemoveCheckout(d, o)
      PROVE  NothingPast'
  <2>1. CASE ~checkout'
    BY <2>1 DEF NothingPast
  <2>2. CASE checkout'
    <3>1. checkout /\ o # "ok" /\ journal' = journal
      BY <1>9, <2>2 DEF RemoveCheckout, data
    <3>2. Moves(d, "catch")
      BY <1>9, <3>1 DEF RemoveCheckout
    <3>. QED
      BY <1>0, <3>1, <3>2, SameJournal, MovesBefore DEF PastPlaces
  <2>. QED
    BY <2>1, <2>2
<1>10. ASSUME NEW o \in Outcomes, RecordCheckout(d, o)
       PROVE  NothingPast'
  <2>1. proc[d].op \in Calls /\ checkout' = checkout
    BY <1>0, <1>10, Operation DEF RecordCheckout, Working, World
  <2>2. checkout => proc[d].op \notin Deleters
    BY <1>0, <1>10, PastBefore DEF RecordCheckout, PastPlaces
  <2>3. checkout => JournalBefore'
    BY <1>0, <1>10, <2>1, <2>2, UpdatedBefore
    DEF RecordCheckout, JournalBefore, Statuses
  <2>. QED
    BY <1>0, <1>10, <2>1, <2>2, <2>3, MovesBefore DEF RecordCheckout
<1>11. ASSUME NEW o \in Outcomes, RecordFailure(d, o)
       PROVE  NothingPast'
  <2>1. proc[d].op \in Calls /\ checkout' = checkout
    BY <1>0, <1>11, Operation DEF RecordFailure, Working, World
  <2>2. At(d, "catch_post") /\ checkout => proc[d].op \notin Deleters
    BY <1>0, PastBefore DEF PastPlaces
  <2>3. checkout => JournalBefore'
    BY <1>0, <1>11, <2>1, <2>2, UpdatedBefore
    DEF RecordFailure, JournalBefore, Statuses
  <2>. QED
    BY <1>0, <1>11, <2>1, <2>3, ReturnsBefore DEF RecordFailure
<1>. QED
  BY <1>1, <1>2, <1>3, <1>4, <1>5, <1>6, <1>7, <1>8, <1>9, <1>10, <1>11
  DEF DeleteStep

LEMMA ClearBefore ==
  ASSUME Typed, NothingPast, NEW c \in Clearers, ClearStep(c)
  PROVE  NothingPast'
<1>0. /\ c \in Workers /\ c \in Calls /\ Clearers \in SUBSET Calls
      /\ c \notin Deleters
      /\ WorkersType
      /\ checkout => JournalBefore
  BY CallsAssumption DEF Workers, Calls, Typed, NothingPast
<1>1. CASE CloseSurface(c, "begin")
  <2>1. checkout' = checkout /\ journal' = journal
    BY <1>1 DEF CloseSurface, World
  <2>. QED
    BY <1>0, <1>1, <2>1, SameJournal, MovesBefore, ReturnsBefore
    DEF CloseSurface, PastPlaces
<1>2. ASSUME NEW o \in Outcomes, BeginClear(c, o)
      PROVE  NothingPast'
  <2>1. checkout' = checkout
    BY <1>2 DEF BeginClear, World
  <2>2. checkout => JournalBefore'
    BY <1>0, <1>2, BegunBefore DEF BeginClear, JournalBefore
  <2>3. checkout => Before([proc[c] EXCEPT !.at = "update", !.op = c])
    BY <1>0 DEF NothingPast, Before, WorkersType, WorkerStates
  <2>. QED
    BY <1>0, <1>2, <2>1, <2>2, <2>3, GoesBefore, ReturnsBefore DEF BeginClear
<1>. QED
  BY <1>1, <1>2 DEF ClearStep

\* A step of the cleanup is one of a worker past the checkout.
LEMMA CleanupBefore ==
  ASSUME Typed, NothingPast, NEW w \in Workers, CleanupStep(w)
  PROVE  NothingPast'
<1>0. /\ WorkersType /\ JournalType
      /\ checkout => JournalBefore
  BY DEF Typed, NothingPast
<1>1. ASSUME NEW place \in CleanupPlaces, At(w, place)
      PROVE  /\ proc[w].op \in Calls
             /\ checkout => proc[w].op \notin Deleters
  BY <1>0, <1>1, Operation, PastBefore
  DEF CleanupPlaces, Working, PastPlaces
<1>2. CASE Purged(w)
  <2>1. checkout' = checkout /\ journal' = journal
    BY <1>2 DEF Purged, World
  <2>. QED
    BY <1>1, <1>2, <2>1, SameJournal, MovesBefore DEF Purged, CleanupPlaces
<1>3. ASSUME NEW o \in Outcomes, SyncWorktrees(w, o)
      PROVE  NothingPast'
  <2>1. checkout' = checkout /\ journal' = journal
    BY <1>3 DEF SyncWorktrees
  <2>. QED
    BY <1>1, <1>3, <2>1, SameJournal, MovesBefore, FailsBefore
    DEF SyncWorktrees, CleanupPlaces
<1>4. ASSUME NEW o \in Outcomes, NEW s \in Sessions, PurgeSession(w, s, o)
      PROVE  NothingPast'
  <2>1. checkout' = checkout /\ journal' = journal
    BY <1>4 DEF PurgeSession, World
  <2>2. checkout => proc[w].op \notin Deleters
    BY <1>1, <1>4 DEF PurgeSession, CleanupPlaces
  <2>3. checkout => Before([proc[w] EXCEPT !.todo = @ \ {s}])
    BY <1>0, <2>2 DEF NothingPast, Before, WorkersType, WorkerStates
  <2>. QED
    BY <1>4, <2>1, <2>2, <2>3, SameJournal, GoesBefore, FailsBefore
    DEF PurgeSession
<1>5. ASSUME NEW o \in Outcomes, StartPurging(w, o)
      PROVE  NothingPast'
  <2>1. /\ proc[w].op \in Calls
        /\ checkout => proc[w].op \notin Deleters
        /\ checkout' = checkout
    BY <1>1, <1>5 DEF StartPurging, CleanupPlaces, World
  <2>2. checkout => JournalBefore'
    BY <1>0, <1>5, <2>1, UpdatedBefore DEF StartPurging, JournalBefore, Statuses
  <2>. QED
    BY <1>5, <2>1, <2>2, MovesBefore, FailsBefore DEF StartPurging
<1>6. ASSUME NEW o \in Outcomes, ClearProject(w, o)
      PROVE  NothingPast'
  <2>1. checkout' = checkout /\ journal' = journal
    BY <1>6 DEF ClearProject, World
  <2>. QED
    BY <1>1, <1>6, <2>1, SameJournal, MovesBefore, FailsBefore
    DEF ClearProject, CleanupPlaces
<1>7. ASSUME NEW o \in Outcomes, Complete(w, o)
      PROVE  NothingPast'
  <2>1. /\ proc[w].op \in Calls
        /\ checkout => proc[w].op \notin Deleters
        /\ checkout' = checkout
    BY <1>1, <1>7 DEF Complete, CleanupPlaces
  <2>2. checkout => JournalBefore'
    BY <1>0, <1>7, <2>1, UpdatedBefore DEF Complete, JournalBefore, Statuses
  <2>. QED
    BY <1>7, <2>1, <2>2, MovesBefore, ReturnsBefore, FailsBefore DEF Complete
<1>8. ASSUME NEW o \in Outcomes, MarkFailed(w, o)
      PROVE  NothingPast'
  <2>1. /\ proc[w].op \in Calls
        /\ checkout => proc[w].op \notin Deleters
        /\ checkout' = checkout
    BY <1>1, <1>8 DEF MarkFailed, CleanupPlaces, World
  <2>2. checkout => JournalBefore'
    BY <1>0, <1>8, <2>1, UpdatedBefore DEF MarkFailed, JournalBefore, Statuses
  <2>. QED
    BY <1>8, <2>1, <2>2, MovesBefore, ReturnsBefore DEF MarkFailed
<1>. QED
  BY <1>2, <1>3, <1>4, <1>5, <1>6, <1>7, <1>8 DEF CleanupStep

LEMMA ResumeBefore ==
  ASSUME Typed, NothingPast, ResumeStep
  PROVE  NothingPast'
<1>0. /\ Resumer \in Workers
      /\ WorkersType /\ JournalType
      /\ checkout => JournalBefore /\ Before(proc[Resumer])
      /\ proc[Resumer] \in WorkerStates
  BY DEF Workers, Typed, NothingPast, WorkersType
<1>1. CASE ResumeNext
  <2>0. checkout' = checkout /\ journal' = journal
    BY <1>1 DEF ResumeNext, World
  <2>1. CASE proc[Resumer].seen = {}
    BY <1>0, <1>1, <2>0, <2>1, SameJournal, ReturnsBefore DEF ResumeNext
  <2>2. CASE proc[Resumer].seen # {}
    <3> DEFINE Rest(e) == [proc[Resumer] EXCEPT !.seen = @ \ {e},
                                                !.op = e[1],
                                                !.todo = e[2].sess,
                                                !.again = TRUE]
               At1(e, place) == [Rest(e) EXCEPT !.at = place]
    <3>1. PICK e \in proc[Resumer].seen :
            \/ Goes(Resumer, Rest(e)) /\ At(Resumer, "next")
            \/ Goes(Resumer, At1(e, "skip"))
            \/ /\ ShouldResume(e[1], e[2])
               /\ \E place \in {"sync", "purge"} :
                    Goes(Resumer, At1(e, place))
      BY <1>1, <2>2 DEF ResumeNext
    <3>2. ASSUME checkout
          PROVE  \A x \in proc[Resumer].seen \ {e} :
                   x[1] \in Deleters => ~Past(x[2])
      BY <1>0, <3>2 DEF Before
    <3>3. At(Resumer, "next") => (checkout => Before(Rest(e)))
      BY <1>0, <3>2 DEF Before, At, WorkerStates, PastPlaces
    <3>4. checkout => Before(At1(e, "skip"))
      BY <1>0, <3>2 DEF Before, WorkerStates, PastPlaces
    <3>5. ASSUME ShouldResume(e[1], e[2]), checkout, NEW place
          PROVE  Before(At1(e, place))
      <4>1. e[1] \notin Deleters
        BY <1>0, <3>5, ResumesOnlyPast
      <4>. QED
        BY <1>0, <3>2, <3>5, <4>1 DEF Before, WorkerStates
    <3> HIDE DEF Rest, At1
    <3>. QED
      BY <1>0, <2>0, <3>1, <3>3, <3>4, <3>5, SameJournal, GoesBefore
  <2>. QED
    BY <2>1, <2>2
<1>2. ASSUME NEW o \in Outcomes, ListIncomplete(o)
      PROVE  NothingPast'
  <2> DEFINE read == {<<i, journal[i]>> : i \in {j \in Calls : Incomplete(j)}}
             r == [Idle EXCEPT !.at = "next", !.seen = read]
  <2>1. checkout' = checkout /\ journal' = journal
    BY <1>2 DEF ListIncomplete, World
  <2>2. checkout => Before(r)
    <3>1. checkout => \A e \in read : e[1] \in Deleters => ~Past(e[2])
      BY <1>0, SeenBefore
    <3>2. r.at = "next" /\ r.seen = read
      BY DEF Idle
    <3>. QED
      BY <3>1, <3>2 DEF Before, PastPlaces
  <2>. QED
    BY <1>0, <1>2, <2>1, <2>2, SameJournal, GoesBefore, ReturnsBefore
    DEF ListIncomplete
<1>3. ASSUME NEW o \in Outcomes, SkipInterrupted(o)
      PROVE  NothingPast'
  <2>1. proc[Resumer].op \in Calls /\ checkout' = checkout
    BY <1>0, <1>3, Operation DEF SkipInterrupted, Working, World
  <2>2. checkout => JournalBefore'
    BY <1>0, <1>3, <2>1, UpdatedBefore
    DEF SkipInterrupted, JournalBefore, Statuses
  <2>. QED
    BY <1>0, <1>3, <2>1, <2>2, MovesBefore DEF SkipInterrupted, PastPlaces
<1>. QED
  BY <1>1, <1>2, <1>3 DEF ResumeStep

LEMMA StoppedBefore ==
  ASSUME NothingPast, proc' = Stopped, journal' = journal,
         checkout' = checkout
  PROVE  NothingPast'
<1>1. Before(Idle) /\ Before(Done)
  BY DEF Before, Idle, Done, PastPlaces
<1>. QED
  BY <1>1 DEF NothingPast, Stopped, JournalBefore

LEMMA InitBefore == Init => NothingPast
<1>1. Before(Idle) /\ ~Past(NoEntry)
  BY DEF Before, Idle, PastPlaces, Past, NoEntry
<1>. QED
  BY <1>1 DEF Init, NothingPast, JournalBefore, Calls

LEMMA NextBefore ==
  ASSUME ~Recreate
  PROVE  Typed /\ NothingPast /\ [Next]_vars => NothingPast'
<1>. SUFFICES ASSUME Typed, NothingPast, [Next]_vars PROVE NothingPast'
  OBVIOUS
<1>1. CASE UserStep
  BY <1>1, UserBefore
<1>2. ASSUME NEW w \in Workers, WorkerStep(w)
      PROVE  NothingPast'
  BY <1>2, DeleteBefore, ClearBefore, CleanupBefore, ResumeBefore
  DEF WorkerStep
<1>3. CASE GitFinishes
  BY <1>3 DEF GitFinishes, data, NothingPast, JournalBefore, Before
<1>4. CASE Crash
  BY <1>4, StoppedBefore DEF Crash
<1>5. CASE Restart
  BY <1>5, StoppedBefore DEF Restart
<1>6. CASE UNCHANGED vars
  BY <1>6 DEF vars, NothingPast, JournalBefore, Before
<1>. QED
  BY <1>1, <1>2, <1>3, <1>4, <1>5, <1>6 DEF Next

\* Only three steps take data away.
LEMMA DataKept ==
  ASSUME Next, DataGoes
  PROVE  \E w \in Workers, o \in Outcomes :
           \/ \E s \in Sessions : PurgeSession(w, s, o)
           \/ ClearProject(w, o)
           \/ Complete(w, o)
<1>1. CASE UserStep
  <2>1. CASE OpenWorkspace
    BY <2>1 DEF OpenWorkspace, DataGoes
  <2>2. ASSUME NEW s \in Sessions, NewSession(s)
        PROVE  FALSE
    <3>1. files \subseteq files' /\ rows'
      BY <2>2 DEF NewSession
    <3>. QED
      BY <3>1 DEF DataGoes
  <2>3. data' # data
    BY DEF data, DataGoes
  <2>. QED
    BY <1>1, <2>1, <2>2, <2>3 DEF UserStep, CreateAgain, Begin, ListProject
<1>2. ASSUME NEW w \in Workers, WorkerStep(w)
      PROVE  \/ data' = data
             \/ \E o \in Outcomes :
                  \/ \E s \in Sessions : PurgeSession(w, s, o)
                  \/ ClearProject(w, o)
                  \/ Complete(w, o)
  <2>1. CASE w \in Deleters /\ DeleteStep(w)
    BY <2>1 DEF DeleteStep, Decide, Preflight, CloseSurface, Catch,
                MarkInterrupted, ListSessions, BeginDeletion, StopRuntimes,
                RemoveCheckout, RecordCheckout, RecordFailure
  <2>2. CASE w \in Clearers /\ ClearStep(w)
    BY <2>2 DEF ClearStep, CloseSurface, BeginClear
  <2>3. CASE w = Resumer /\ ResumeStep
    BY <2>3 DEF ResumeStep, ResumeNext, ListIncomplete, SkipInterrupted
  <2>4. CASE CleanupStep(w)
    BY <2>4 DEF CleanupStep, Purged, SyncWorktrees, StartPurging, MarkFailed
  <2>. QED
    BY <1>2, <2>1, <2>2, <2>3, <2>4 DEF WorkerStep
<1>3. CASE GitFinishes \/ Crash \/ Restart
  <2>1. data' = data
    BY <1>3 DEF GitFinishes, Crash, Restart
  <2>. QED
    BY <2>1 DEF data, DataGoes
<1>4. data' # data
  BY DEF data, DataGoes
<1>. QED
  BY <1>1, <1>2, <1>3, <1>4 DEF Next

\* A worker that fails in its cleanup is somewhere else afterwards.
LEMMA FailsChanges ==
  ASSUME WorkersType, NEW w \in Workers, NEW here \in {"purge", "project", "complete"},
         At(w, here), Fails(w)
  PROVE  proc'[w] # proc[w]
BY DEF WorkersType, WorkerStates, At, Fails, Moves, Returns, Goes, Done, Idle

LEMMA MovesChanges ==
  ASSUME WorkersType, NEW w \in Workers, NEW here, NEW place, here # place,
         At(w, here), Moves(w, place)
  PROVE  proc'[w] # proc[w]
BY DEF WorkersType, WorkerStates, At, Moves, Goes

LEMMA StepGoesFirst ==
  ASSUME Typed, NothingPast, [Next]_vars, DataGoes, checkout
  PROVE  \E w \in Workers : proc[w].op \in Clearers /\ proc'[w] # proc[w]
<1>1. Next
  <2>1. CASE UNCHANGED vars
    <3>1. files' = files /\ rows' = rows
      BY <2>1 DEF vars
    <3>. QED
      BY <3>1 DEF DataGoes
  <2>. QED
    BY <2>1
<1>2. PICK w \in Workers, o \in Outcomes :
        \/ \E s \in Sessions : PurgeSession(w, s, o)
        \/ ClearProject(w, o)
        \/ Complete(w, o)
  BY <1>1, DataKept
<1>3. PICK here \in {"purge", "project", "complete"} : At(w, here)
  BY <1>2 DEF PurgeSession, ClearProject, Complete
<1>4. WorkersType
  BY DEF Typed
<1>5. proc[w].op \in Clearers
  <2>1. proc[w].op \in Calls
    BY <1>3, <1>4, Operation DEF Working
  <2>2. proc[w].op \notin Deleters
    BY <1>3, PastBefore DEF PastPlaces
  <2>. QED
    BY <2>1, <2>2 DEF Calls
<1>6. ASSUME NEW s \in Sessions, PurgeSession(w, s, o)
      PROVE  proc'[w] # proc[w]
  <2>2. CASE Fails(w)
    <3>1. At(w, "purge")
      BY <1>6 DEF PurgeSession
    <3>. QED
      BY <1>4, <2>2, <3>1, FailsChanges
  <2>3. CASE Goes(w, [proc[w] EXCEPT !.todo = @ \ {s}])
    <3>1. s \in proc[w].todo
      BY <1>6 DEF PurgeSession
    <3>2. proc'[w].todo = proc[w].todo \ {s}
      BY <1>4, <2>3 DEF Goes, WorkersType, WorkerStates
    <3>. QED
      BY <3>1, <3>2
  <2>. QED
    BY <1>6, <2>2, <2>3 DEF PurgeSession
<1>7. ASSUME ClearProject(w, o)
      PROVE  proc'[w] # proc[w]
  <2>1. At(w, "project") /\ (Moves(w, "complete") \/ Fails(w))
    BY <1>7 DEF ClearProject
  <2>. QED
    BY <1>4, <2>1, FailsChanges, MovesChanges
<1>8. ASSUME Complete(w, o)
      PROVE  proc'[w] # proc[w]
  <2>1. At(w, "complete") /\ (Moves(w, "next") \/ Returns(w) \/ Fails(w))
    BY <1>8 DEF Complete
  <2>2. CASE Returns(w)
    BY <1>4, <2>1, <2>2 DEF Returns, Goes, Done, Idle, At, WorkersType
  <2>. QED
    BY <1>4, <2>1, <2>2, FailsChanges, MovesChanges
<1>. QED
  BY <1>2, <1>5, <1>6, <1>7, <1>8

\* While the checkout exists no deletion takes data away, whatever failed, was
\* lost, was doubled by another window or was resumed from an entry read long
\* ago: only clearing the project does.  The worktree must not be created again
\* at its path; with that the code does not keep the promise.
THEOREM CheckoutFirst ==
  ASSUME ~Recreate
  PROVE  Spec => CheckoutGoesFirst
<1>1. Typed /\ NothingPast /\ [Next]_vars => Typed' /\ NothingPast'
  BY NextType, NextBefore
<1>2. Typed /\ NothingPast /\ [Next]_vars =>
        [DataGoes /\ checkout =>
           \E w \in Workers : proc[w].op \in Clearers /\ proc'[w] # proc[w]]_vars
  BY StepGoesFirst
<1>. QED
  BY <1>1, <1>2, InitType, InitBefore, PTL DEF Spec, CheckoutGoesFirst

-----------------------------------------------------------------------------
(* What is left to do is in the journal. *)

HasEntry(d) == journal[d].status # "none"

\* Places of a deletion between the listing of its sessions and the end of
\* their purge, and those after it.
Purging == {"stop", "git", "sync", "record", "purge"}

AfterPurging == {"update", "project", "complete"}

\* The worker w with the record r knows every history there is, of every
\* deletion it works on or has read of; js is the journal, fs the histories.
Covered(w, r, js, fs) ==
    /\ \A e \in r.seen :
         e[1] \in Deleters => js[e[1]].status # "none" /\ fs \subseteq e[2].sess
    /\ r.op \in Deleters =>
         /\ js[r.op].status # "none"
         /\ r.at \in Purging => fs \subseteq r.todo
         /\ r.at \in AfterPurging => fs = {}
    /\ w \in Deleters =>
         /\ r.op \in Deleters \cup {None}
         /\ \A e \in r.seen : e[1] \in Deleters
         /\ r.at = "begin" => fs \subseteq r.todo

JournalCovers == \A d \in Deleters : HasEntry(d) => files \subseteq journal[d].sess

WorkersCovered == \A w \in Workers : Covered(w, proc[w], journal, files)

\* No deletion has an entry before a call has begun.
NoneBegun ==
    (\A d \in Deleters : At(d, "idle")) => \A d \in Deleters : ~HasEntry(d)

CompletedIsPurged ==
    \A d \in Deleters :
        journal[d].status = "completed" => files = {} /\ ~known /\ ~rows

\* Only a deletion that has its entry removes the checkout.
GoneHasEntry == late \/ ~checkout => \E d \in Deleters : HasEntry(d)

Journaled ==
    /\ JournalCovers
    /\ WorkersCovered
    /\ NoneBegun
    /\ CompletedIsPurged
    /\ GoneHasEntry

\* The entries of js are those of the journal, and none is newly completed.
SameEntries(js) ==
    \A d \in Deleters :
        /\ js[d].status = "none" <=> journal[d].status = "none"
        /\ js[d].sess = journal[d].sess
        /\ js[d].status = "completed" => journal[d].status = "completed"

\* A worker stays covered while histories only go and entries only come.
LEMMA CoveredStays ==
  ASSUME NEW w, NEW r, NEW js, NEW fs, NEW js2, NEW fs2,
         Covered(w, r, js, fs), fs2 \subseteq fs,
         \A d \in Deleters : js[d].status # "none" => js2[d].status # "none"
  PROVE  Covered(w, r, js2, fs2)
BY DEF Covered

\* A step of one worker, whatever it changes.
LEMMA GoesJournaled ==
  ASSUME Typed, Journaled, NEW w \in Workers, NEW r, Goes(w, r),
         r.at # "idle", files' \subseteq files,
         \A d \in Deleters :
           journal[d].status # "none" => journal'[d].status # "none",
         w \notin Deleters =>
           \A d \in Deleters :
             journal'[d].status # "none" => journal[d].status # "none",
         \A d \in Deleters :
           journal'[d].status # "none" => files' \subseteq journal'[d].sess,
         Covered(w, r, journal', files'),
         CompletedIsPurged', GoneHasEntry'
  PROVE  Journaled'
<1>1. JournalCovers'
  BY DEF JournalCovers, HasEntry
<1>2. /\ proc'[w] = r
      /\ \A v \in Workers : v # w => proc'[v] = proc[v]
  BY DEF Goes, Typed, WorkersType
<1>3. ASSUME NEW v \in Workers
      PROVE  Covered(v, proc'[v], journal', files')
  <2>1. CASE v = w
    BY <1>2, <2>1
  <2>2. CASE v # w
    <3>1. Covered(v, proc[v], journal, files)
      BY DEF Journaled, WorkersCovered
    <3>2. Covered(v, proc[v], journal', files')
      BY <3>1, CoveredStays
    <3>. QED
      BY <1>2, <2>2, <3>2
  <2>. QED
    BY <2>1, <2>2
<1>4. WorkersCovered'
  BY <1>3 DEF WorkersCovered
<1>5. NoneBegun'
  <2>1. ASSUME \A d \in Deleters : proc'[d].at = "idle", NEW x \in Deleters
        PROVE  journal'[x].status = "none"
    <3>1. w \notin Deleters
      BY <1>2, <2>1
    <3>2. \A d \in Deleters : d \in Workers /\ d # w
      BY <3>1 DEF Workers, Calls
    <3>3. \A d \in Deleters : At(d, "idle")
      BY <1>2, <2>1, <3>2 DEF At
    <3>4. journal[x].status = "none"
      BY <3>3 DEF Journaled, NoneBegun, HasEntry
    <3>. QED
      BY <3>1, <3>4
  <2>. QED
    BY <2>1 DEF NoneBegun, At, HasEntry
<1>. QED
  BY <1>1, <1>4, <1>5 DEF Journaled

\* A step of one worker that adds no entry and completes none.
LEMMA GoesSame ==
  ASSUME Typed, Journaled, NEW w \in Workers, NEW r, Goes(w, r),
         r.at # "idle", files' \subseteq files, rows' => rows, known' => known,
         SameEntries(journal'), Covered(w, r, journal, files'),
         late' \/ ~checkout' =>
           late \/ ~checkout \/ \E d \in Deleters : HasEntry(d)
  PROVE  Journaled'
<1>1. \A d \in Deleters :
        /\ journal'[d].status = "none" <=> journal[d].status = "none"
        /\ journal'[d].sess = journal[d].sess
        /\ journal'[d].status = "completed" => journal[d].status = "completed"
  BY DEF SameEntries
<1>2. \A d \in Deleters :
        journal'[d].status # "none" => files' \subseteq journal'[d].sess
  BY <1>1 DEF Journaled, JournalCovers, HasEntry
<1>3. Covered(w, r, journal', files')
  BY <1>1, CoveredStays
<1>4. CompletedIsPurged'
  BY <1>1 DEF Journaled, CompletedIsPurged
<1>5. GoneHasEntry'
  BY <1>1 DEF Journaled, GoneHasEntry, HasEntry
<1>. QED
  BY <1>1, <1>2, <1>3, <1>4, <1>5, GoesJournaled

\* The histories, the registry, the rows and the checkout stay, or go.
Settles ==
    /\ files' \subseteq files
    /\ rows' => rows
    /\ known' => known
    /\ SameEntries(journal')
    /\ late' \/ ~checkout' =>
         late \/ ~checkout \/ \E d \in Deleters : HasEntry(d)

LEMMA ReturnsSame ==
  ASSUME Typed, Journaled, Settles, NEW w \in Workers, Returns(w)
  PROVE  Journaled'
<1>1. Covered(w, Done, journal, files')
  BY CallsAssumption DEF Covered, Done, Idle, Calls
<1>2. Done.at # "idle"
  BY DEF Done, Idle
<1>. QED
  BY <1>1, <1>2, GoesSame DEF Returns, Settles

LEMMA MovesSame ==
  ASSUME Typed, Journaled, Settles, NEW w \in Workers,
         NEW place \in Places \ {"idle"}, Moves(w, place), place # "begin",
         proc[w].op \in Deleters =>
           /\ place \in Purging => files' \subseteq proc[w].todo
           /\ place \in AfterPurging => files' = {}
  PROVE  Journaled'
<1> DEFINE r == [proc[w] EXCEPT !.at = place]
<1>1. /\ r.at = place /\ r.op = proc[w].op /\ r.todo = proc[w].todo
      /\ r.seen = proc[w].seen
  BY DEF Typed, WorkersType, WorkerStates
<1>2. Covered(w, proc[w], journal, files)
  BY DEF Journaled, WorkersCovered
<1>3. Covered(w, r, journal, files')
  <2> HIDE DEF r
  <2>. QED
    BY <1>1, <1>2 DEF Covered, Settles
<1>. QED
  BY <1>1, <1>3, GoesSame DEF Moves, Settles

LEMMA FailsSame ==
  ASSUME Typed, Journaled, Settles, NEW w \in Workers, Fails(w)
  PROVE  Journaled'
<1>1. /\ "fail" \in Places \ {"idle"} /\ "fail" # "begin"
      /\ "fail" \notin Purging /\ "fail" \notin AfterPurging
  BY DEF Places, Purging, AfterPurging
<1>. QED
  BY <1>1, MovesSame, ReturnsSame DEF Fails

\* An update changes no entry but that of its operation, which has one.
LEMMA UpdatedSame ==
  ASSUME JournalType, NEW o \in Calls, o \in Deleters => HasEntry(o),
         NEW status \in Statuses \ {"none", "completed"}, NEW pre \in BOOLEAN
  PROVE  SameEntries(Updated(o, status, pre)) /\ SameEntries(Marked(o, status, pre))
<1>1. SameEntries(journal)
  BY DEF SameEntries
<1>2. ASSUME NEW d \in Deleters
      PROVE  LET js == Updated(o, status, pre) IN
             /\ js[d].status = "none" <=> journal[d].status = "none"
             /\ js[d].sess = journal[d].sess
             /\ js[d].status = "completed" => journal[d].status = "completed"
  <2>1. d \in Calls
    BY DEF Calls
  <2>2. CASE d = o
    <3>1. Updated(o, status, pre)[d].status = status
      BY <2>1, <2>2 DEF Updated, JournalType, Entries
    <3>2. Updated(o, status, pre)[d].sess = journal[d].sess
      BY <2>1, <2>2 DEF Updated, JournalType, Entries
    <3>. QED
      BY <2>2, <3>1, <3>2 DEF HasEntry
  <2>3. CASE d # o
    <3>1. Updated(o, status, pre)[d] = journal[d]
      BY <2>1, <2>3 DEF Updated, JournalType
    <3>. QED
      BY <3>1
  <2>. QED
    BY <2>2, <2>3
<1>3. SameEntries(Updated(o, status, pre))
  BY <1>2 DEF SameEntries
<1>. QED
  BY <1>1, <1>3 DEF Marked

\* A worker's operation has its entry.
LEMMA OperationHasEntry ==
  ASSUME Typed, Journaled, NEW w \in Workers, proc[w].op \in Deleters
  PROVE  HasEntry(proc[w].op)
BY DEF Journaled, WorkersCovered, Covered, HasEntry

LEMMA SameItself ==
  ASSUME NEW js, js = journal
  PROVE  SameEntries(js)
BY DEF SameEntries

LEMMA SettlesIfSame ==
  ASSUME UNCHANGED <<World, data>>, SameEntries(journal')
  PROVE  Settles
BY DEF Settles, World, data

LEMMA SettlesIfUnchanged ==
  ASSUME UNCHANGED <<World, data, journal>>
  PROVE  Settles
BY DEF Settles, World, data, SameEntries

\* While no call has begun, no worker has anything of a deletion.
LEMMA NothingBegun ==
  ASSUME Journaled, \A d \in Deleters : At(d, "idle"), NEW fs
  PROVE  /\ \A d \in Deleters : ~HasEntry(d)
         /\ \A w \in Workers : Covered(w, proc[w], journal, fs)
<1>1. \A d \in Deleters : ~HasEntry(d)
  BY DEF Journaled, NoneBegun
<1>2. ASSUME NEW w \in Workers
      PROVE  Covered(w, proc[w], journal, fs)
  <2>1. Covered(w, proc[w], journal, files)
    BY DEF Journaled, WorkersCovered
  <2>2. w \in Deleters => proc[w].at = "idle"
    BY DEF At
  <2>. QED
    BY <1>1, <2>1, <2>2 DEF Covered, HasEntry
<1>. QED
  BY <1>1, <1>2

LEMMA ReadCovered ==
  ASSUME Journaled, NEW ops,
         NEW e \in {<<i, journal[i]>> : i \in {j \in ops : Incomplete(j)}},
         e[1] \in Deleters
  PROVE  journal[e[1]].status # "none" /\ files \subseteq e[2].sess
<1>1. PICK i \in ops : Incomplete(i) /\ e = <<i, journal[i]>>
  OBVIOUS
<1>2. i \in Deleters /\ HasEntry(i)
  BY <1>1 DEF Incomplete, HasEntry
<1>. QED
  BY <1>1, <1>2 DEF Journaled, JournalCovers, HasEntry

LEMMA UserJournaled ==
  ASSUME Typed, Journaled, UserStep, ~LateSessions
  PROVE  Journaled'
<1>1. CASE OpenWorkspace
  <2>1. known /\ UNCHANGED <<checkout, late, known, files, journal, proc>>
    BY <1>1 DEF OpenWorkspace, World
  <2>2. CompletedIsPurged'
    BY <2>1 DEF Journaled, CompletedIsPurged
  <2>. QED
    BY <2>1, <2>2 DEF Journaled, JournalCovers, WorkersCovered, NoneBegun, At,
                      GoneHasEntry, HasEntry
<1>2. ASSUME NEW s \in Sessions, NewSession(s)
      PROVE  Journaled'
  <2>1. /\ \A d \in Deleters : At(d, "idle")
        /\ UNCHANGED <<checkout, late, known, journal, proc>>
    BY <1>2 DEF NewSession, World
  <2>2. /\ \A d \in Deleters : ~HasEntry(d)
        /\ \A w \in Workers : Covered(w, proc[w], journal, files')
    BY <2>1, NothingBegun
  <2>3. \A d \in Deleters : journal'[d].status = "none"
    BY <2>1, <2>2 DEF HasEntry
  <2>4. WorkersCovered'
    BY <2>1, <2>2 DEF WorkersCovered
  <2>5. JournalCovers' /\ NoneBegun' /\ CompletedIsPurged'
    BY <2>3 DEF JournalCovers, NoneBegun, CompletedIsPurged, HasEntry
  <2>6. GoneHasEntry'
    BY <2>1 DEF Journaled, GoneHasEntry, HasEntry
  <2>. QED
    BY <2>4, <2>5, <2>6 DEF Journaled
<1>3. CASE CreateAgain
  <2>1. /\ checkout' = TRUE
        /\ UNCHANGED <<late, known, files, rows, journal, proc>>
    BY <1>3 DEF CreateAgain, data
  <2>2. GoneHasEntry'
    BY <2>1 DEF Journaled, GoneHasEntry, HasEntry
  <2>. QED
    BY <2>1, <2>2 DEF Journaled, JournalCovers, WorkersCovered, NoneBegun, At,
                      CompletedIsPurged, HasEntry
<1>4. ASSUME NEW d \in Deleters, NEW o \in Outcomes, Begin(d, o)
      PROVE  Journaled'
  <2> DEFINE read == {<<i, journal[i]>> : i \in {j \in Deleters : Incomplete(j)}}
             r == [Idle EXCEPT !.at = "decide", !.seen = read]
  <2>1. d \in Workers /\ UNCHANGED <<World, data, journal>>
    BY <1>4 DEF Workers, Calls, Begin
  <2>2. Settles
    BY <2>1, SettlesIfUnchanged
  <2>3. \A e \in read :
          /\ e[1] \in Deleters
          /\ journal[e[1]].status # "none" /\ files \subseteq e[2].sess
    BY ReadCovered
  <2>4. r.at = "decide" /\ r.op = None /\ r.seen = read
    BY DEF Idle
  <2>5. None \notin Deleters
    BY CallsAssumption DEF Calls
  <2>6. Covered(d, r, journal, files')
    <3> HIDE DEF r, read
    <3>1. \A e \in read : files' \subseteq e[2].sess
      BY <2>2, <2>3 DEF Settles
    <3>. QED
      BY <2>3, <2>4, <2>5, <3>1 DEF Covered
  <2>7. CASE Goes(d, r)
    BY <2>1, <2>2, <2>4, <2>6, <2>7, GoesSame DEF Settles
  <2>8. CASE Returns(d)
    BY <2>1, <2>2, <2>8, ReturnsSame
  <2>. QED
    BY <1>4, <2>7, <2>8 DEF Begin
<1>5. ASSUME NEW c \in Clearers, NEW o \in Outcomes, ListProject(c, o)
      PROVE  Journaled'
  <2> DEFINE r == [Idle EXCEPT !.at = "close", !.todo = files]
  <2>1. c \in Workers /\ c \notin Deleters /\ UNCHANGED <<World, data, journal>>
    BY <1>5, CallsAssumption DEF Workers, Calls, ListProject
  <2>2. Settles
    BY <2>1, SettlesIfUnchanged
  <2>3. r.at = "close" /\ r.op = None /\ r.seen = {}
    BY DEF Idle
  <2>4. Covered(c, r, journal, files')
    BY <2>1, <2>3, CallsAssumption DEF Covered, Calls
  <2>5. CASE Goes(c, r)
    BY <2>1, <2>2, <2>3, <2>4, <2>5, GoesSame DEF Settles
  <2>6. CASE Returns(c)
    BY <2>1, <2>2, <2>6, ReturnsSame
  <2>. QED
    BY <1>5, <2>5, <2>6 DEF ListProject
<1>. QED
  BY <1>1, <1>2, <1>3, <1>4, <1>5 DEF UserStep

\* Which entry an operation begins, and what it writes there.
LEMMA BegunEntry ==
  ASSUME JournalType, NEW w \in Calls, NEW ops \in SUBSET Calls, w \in ops,
         Admits(ops)
  PROVE  /\ EntryOf(w, ops) \in ops
         /\ Begun(w, ops)[EntryOf(w, ops)] =
              [status |-> "pending", pre |-> FALSE, sess |-> proc[w].todo]
         /\ \A x \in Calls : x # EntryOf(w, ops) => Begun(w, ops)[x] = journal[x]
<1>1. EntryOf(w, ops) \in ops
  <2>1. CASE \E o \in ops : Incomplete(o)
    <3>1. Owner(ops) \in ops
      BY <2>1 DEF Owner
    <3>. QED
      BY <3>1 DEF EntryOf
  <2>2. CASE ~ \E o \in ops : Incomplete(o)
    BY <2>2 DEF Owner, EntryOf
  <2>. QED
    BY <2>1, <2>2
<1>. QED
  BY <1>1 DEF Begun, JournalType

\* A deletion that begins writes down every history there is.
LEMMA BeginDeletionJournaled ==
  ASSUME Typed, Journaled, NEW d \in Deleters, NEW o \in Outcomes,
         BeginDeletion(d, o)
  PROVE  Journaled'
<1>0. /\ d \in Workers /\ d \in Calls /\ Deleters \in SUBSET Calls
      /\ JournalType /\ WorkersType /\ UNCHANGED <<World, data>>
  BY DEF Workers, Calls, Typed, BeginDeletion
<1>1. CASE journal' = journal
  <2>1. Settles
    BY <1>0, <1>1, SettlesIfUnchanged
  <2>2. CASE Returns(d)
    BY <1>0, <2>1, <2>2, ReturnsSame
  <2>3. CASE Admits(Deleters) /\ o = "ok"
    <3>1. journal' = Begun(d, Deleters)
      BY <2>3 DEF BeginDeletion
    <3>2. /\ EntryOf(d, Deleters) \in Deleters
          /\ Begun(d, Deleters)[EntryOf(d, Deleters)] =
               [status |-> "pending", pre |-> FALSE, sess |-> proc[d].todo]
      BY <1>0, <2>3, BegunEntry
    <3> DEFINE e == EntryOf(d, Deleters)
               r == [proc[d] EXCEPT !.at = "stop", !.op = e]
    <3>3. Covered(d, proc[d], journal, files) /\ At(d, "begin")
      BY <1>0 DEF Journaled, WorkersCovered, BeginDeletion
    <3>4. /\ r.at = "stop" /\ r.op = e /\ r.todo = proc[d].todo
          /\ r.seen = proc[d].seen
      BY <1>0 DEF WorkersType, WorkerStates
    <3>5. journal[e].status # "none"
      BY <1>1, <3>1, <3>2
    <3>6. Covered(d, r, journal, files)
      <4> HIDE DEF r, e
      <4>1. e \in Deleters
        BY <3>2 DEF e
      <4>. QED
        BY <3>3, <3>4, <3>5, <4>1 DEF Covered, At, AfterPurging
    <3>7. Goes(d, r)
      BY <2>3 DEF BeginDeletion
    <3>. QED
      BY <1>0, <2>1, <3>4, <3>6, <3>7, GoesSame DEF Settles, data
  <2>. QED
    BY <2>2, <2>3 DEF BeginDeletion
<1>2. CASE journal' # journal
  <2>1. Admits(Deleters) /\ journal' = Begun(d, Deleters)
    BY <1>2 DEF BeginDeletion, Begun
  <2> DEFINE e == EntryOf(d, Deleters)
             r == [proc[d] EXCEPT !.at = "stop", !.op = e]
  <2>2. /\ e \in Deleters
        /\ journal'[e] =
             [status |-> "pending", pre |-> FALSE, sess |-> proc[d].todo]
        /\ \A x \in Deleters : x # e => journal'[x] = journal[x]
    BY <1>0, <2>1, BegunEntry DEF Calls
  <2>3. Covered(d, proc[d], journal, files) /\ At(d, "begin")
    BY <1>0 DEF Journaled, WorkersCovered, BeginDeletion
  <2>4. files' = files /\ files \subseteq proc[d].todo
    BY <1>0, <2>3 DEF data, Covered, At
  <2>5. \A x \in Deleters :
          journal[x].status # "none" => journal'[x].status # "none"
    BY <2>2
  <2>6. \A x \in Deleters :
          journal'[x].status # "none" => files' \subseteq journal'[x].sess
    BY <2>2, <2>4 DEF Journaled, JournalCovers, HasEntry
  <2>7. CompletedIsPurged'
    <3>1. \A x \in Deleters :
            journal'[x].status = "completed" => journal[x].status = "completed"
      BY <2>2
    <3>. QED
      BY <1>0, <3>1 DEF Journaled, CompletedIsPurged, World, data
  <2>8. GoneHasEntry'
    <3>1. journal'[e].status # "none"
      BY <2>2
    <3>. QED
      BY <2>2, <3>1 DEF GoneHasEntry, HasEntry
  <2>9. Covered(d, proc[d], journal', files')
    BY <2>3, <2>4, <2>5, CoveredStays
  <2>10. /\ r.at = "stop" /\ r.op = e /\ r.todo = proc[d].todo
         /\ r.seen = proc[d].seen
    BY <1>0 DEF WorkersType, WorkerStates
  <2>11. Covered(d, r, journal', files')
    <3> HIDE DEF r, e
    <3>. QED
      BY <2>2, <2>4, <2>9, <2>10 DEF Covered, AfterPurging
  <2>12. Covered(d, Done, journal', files') /\ Done.at # "idle"
    BY CallsAssumption DEF Covered, Done, Idle, Calls
  <2>13. Goes(d, r) \/ Goes(d, Done)
    BY DEF BeginDeletion, Returns
  <2> HIDE DEF r, e
  <2>. QED
    BY <1>0, <2>4, <2>5, <2>6, <2>7, <2>8, <2>10, <2>11, <2>12, <2>13,
       GoesJournaled
<1>. QED
  BY <1>1, <1>2

\* Where a deletion goes on, and what it must know there.
LEMMA DeleteJournaled ==
  ASSUME Typed, Journaled, NEW d \in Deleters, DeleteStep(d)
  PROVE  Journaled'
<1>0. /\ d \in Workers /\ d \in Calls /\ Deleters \in SUBSET Calls
      /\ WorkersType /\ JournalType
      /\ Covered(d, proc[d], journal, files)
      /\ proc[d].op \in Deleters \cup {None}
  BY DEF Workers, Calls, Typed, Journaled, WorkersCovered, Covered
<1>a. ASSUME NEW place \in Working, At(d, place)
      PROVE  proc[d].op \in Deleters /\ HasEntry(proc[d].op)
  BY <1>0, <1>a, Operation, OperationHasEntry
<1>b. ASSUME NEW place \in Purging, At(d, place)
      PROVE  files \subseteq proc[d].todo
  <2>1. proc[d].op \in Deleters
    BY <1>a, <1>b DEF Purging, Working
  <2>. QED
    BY <1>0, <1>b, <2>1 DEF Covered, At
<1>1. CASE Decide(d)
  <2>1. Settles /\ files' = files
    BY <1>1, SettlesIfUnchanged DEF Decide, data
  <2>2. CASE Moves(d, "preflight")
    BY <1>0, <2>1, <2>2, MovesSame DEF Places, Purging, AfterPurging
  <2>3. ASSUME NEW e \in proc[d].seen,
               Goes(d, [Idle EXCEPT !.at = "sync", !.op = e[1],
                                    !.todo = e[2].sess, !.again = TRUE])
        PROVE  Journaled'
    <3> DEFINE r == [Idle EXCEPT !.at = "sync", !.op = e[1],
                                 !.todo = e[2].sess, !.again = TRUE]
    <3>1. /\ r.at = "sync" /\ r.op = e[1] /\ r.todo = e[2].sess
          /\ r.seen = {}
      BY DEF Idle
    <3>2. /\ e[1] \in Deleters /\ journal[e[1]].status # "none"
          /\ files \subseteq e[2].sess
      BY <1>0 DEF Covered
    <3>3. Covered(d, r, journal, files')
      <4> HIDE DEF r
      <4>. QED
        BY <2>1, <3>1, <3>2 DEF Covered, AfterPurging
    <3>. QED
      BY <1>0, <2>1, <2>3, <3>1, <3>3, GoesSame DEF Settles
  <2>4. ASSUME NEW e \in proc[d].seen,
               Goes(d, [Idle EXCEPT !.at = "interrupted", !.op = e[1]])
        PROVE  Journaled'
    <3> DEFINE r == [Idle EXCEPT !.at = "interrupted", !.op = e[1]]
    <3>1. r.at = "interrupted" /\ r.op = e[1] /\ r.seen = {}
      BY DEF Idle
    <3>2. e[1] \in Deleters /\ journal[e[1]].status # "none"
      BY <1>0 DEF Covered
    <3>3. Covered(d, r, journal, files')
      <4> HIDE DEF r
      <4>. QED
        BY <3>1, <3>2 DEF Covered, Purging, AfterPurging
    <3>. QED
      BY <1>0, <2>1, <2>4, <3>1, <3>3, GoesSame DEF Settles
  <2>. QED
    BY <1>1, <2>2, <2>3, <2>4 DEF Decide
<1>2. CASE Preflight(d)
  <2>1. Settles
    BY <1>2, SettlesIfUnchanged DEF Preflight
  <2>2. CASE Moves(d, "close")
    BY <1>0, <2>1, <2>2, MovesSame DEF Places, Purging, AfterPurging
  <2>3. CASE Returns(d)
    BY <1>0, <2>1, <2>3, ReturnsSame
  <2>. QED
    BY <1>2, <2>2, <2>3 DEF Preflight
<1>3. CASE CloseSurface(d, "list")
  <2>1. Settles
    BY <1>3, SettlesIfUnchanged DEF CloseSurface
  <2>2. CASE Moves(d, "list")
    BY <1>0, <2>1, <2>2, MovesSame DEF Places, Purging, AfterPurging
  <2>3. CASE Returns(d)
    BY <1>0, <2>1, <2>3, ReturnsSame
  <2>. QED
    BY <1>3, <2>2, <2>3 DEF CloseSurface
<1>4. CASE Catch(d)
  <2>1. Settles
    BY <1>4, SettlesIfUnchanged DEF Catch
  <2>2. PICK place \in {"catch_pre", "catch_post"} : Moves(d, place)
    BY <1>4 DEF Catch
  <2>. QED
    BY <1>0, <2>1, <2>2, MovesSame DEF Places, Purging, AfterPurging
<1>5. ASSUME NEW o \in Outcomes, MarkInterrupted(d, o)
      PROVE  Journaled'
  <2>1. proc[d].op \in Deleters /\ HasEntry(proc[d].op) /\ proc[d].op \in Calls
    BY <1>0, <1>a, <1>5 DEF MarkInterrupted, Working
  <2>2. SameEntries(journal')
    <3>1. SameEntries(Marked(proc[d].op, "failed", TRUE))
      BY <1>0, <2>1, UpdatedSame DEF Statuses
    <3>. QED
      BY <1>5, <3>1, SameItself DEF MarkInterrupted
  <2>3. Settles
    BY <1>5, <2>2, SettlesIfSame DEF MarkInterrupted
  <2>. QED
    BY <1>0, <1>5, <2>3, MovesSame
    DEF MarkInterrupted, Places, Purging, AfterPurging
<1>6. ASSUME NEW o \in Outcomes, ListSessions(d, o)
      PROVE  Journaled'
  <2>1. Settles /\ files' = files
    BY <1>6, SettlesIfUnchanged DEF ListSessions, data
  <2>2. CASE Returns(d)
    BY <1>0, <2>1, <2>2, ReturnsSame
  <2>3. CASE Goes(d, [proc[d] EXCEPT !.at = "begin", !.todo = files])
    <3> DEFINE r == [proc[d] EXCEPT !.at = "begin", !.todo = files]
    <3>1. /\ r.at = "begin" /\ r.op = proc[d].op /\ r.todo = files
          /\ r.seen = proc[d].seen
      BY <1>0 DEF WorkersType, WorkerStates
    <3>2. Covered(d, r, journal, files')
      <4> HIDE DEF r
      <4>. QED
        BY <1>0, <2>1, <3>1 DEF Covered, Purging, AfterPurging
    <3>. QED
      BY <1>0, <2>1, <2>3, <3>1, <3>2, GoesSame DEF Settles
  <2>. QED
    BY <1>6, <2>2, <2>3 DEF ListSessions
<1>7. ASSUME NEW o \in Outcomes, BeginDeletion(d, o)
      PROVE  Journaled'
  BY <1>7, BeginDeletionJournaled
<1>8. ASSUME NEW o \in Outcomes, StopRuntimes(d, o)
      PROVE  Journaled'
  <2>1. Settles /\ files' = files /\ At(d, "stop")
    BY <1>8, SettlesIfUnchanged DEF StopRuntimes, data
  <2>2. files \subseteq proc[d].todo
    BY <1>b, <2>1 DEF Purging
  <2>3. PICK place \in {"git", "catch"} : Moves(d, place)
    BY <1>8 DEF StopRuntimes
  <2>. QED
    BY <1>0, <2>1, <2>2, <2>3, MovesSame DEF Places, AfterPurging
<1>9. ASSUME NEW o \in Outcomes, RemoveCheckout(d, o)
      PROVE  Journaled'
  <2>1. UNCHANGED <<known, data, journal>> /\ At(d, "git")
    BY <1>9 DEF RemoveCheckout
  <2>2. proc[d].op \in Deleters /\ HasEntry(proc[d].op)
    BY <1>a, <2>1 DEF Working
  <2>3. Settles
    BY <2>1, <2>2 DEF Settles, SameEntries, data
  <2>4. files \subseteq proc[d].todo /\ files' = files
    BY <1>b, <2>1 DEF Purging, data
  <2>5. PICK place \in {"sync", "catch"} : Moves(d, place)
    BY <1>9 DEF RemoveCheckout
  <2>. QED
    BY <1>0, <2>3, <2>4, <2>5, MovesSame DEF Places, AfterPurging
<1>10. ASSUME NEW o \in Outcomes, RecordCheckout(d, o)
       PROVE  Journaled'
  <2>1. UNCHANGED <<World, data>> /\ At(d, "record")
    BY <1>10 DEF RecordCheckout
  <2>2. proc[d].op \in Deleters /\ HasEntry(proc[d].op) /\ proc[d].op \in Calls
    BY <1>0, <1>a, <2>1 DEF Working
  <2>3. SameEntries(journal')
    <3>1. SameEntries(Updated(proc[d].op, "checkout_deleted", FALSE))
      BY <1>0, <2>2, UpdatedSame DEF Statuses
    <3>. QED
      BY <1>10, <3>1, SameItself DEF RecordCheckout
  <2>4. Settles
    BY <2>1, <2>3, SettlesIfSame
  <2>5. files \subseteq proc[d].todo /\ files' = files
    BY <1>b, <2>1 DEF Purging, data
  <2>6. PICK place \in {"purge", "catch"} : Moves(d, place)
    BY <1>10 DEF RecordCheckout
  <2>. QED
    BY <1>0, <2>4, <2>5, <2>6, MovesSame DEF Places, AfterPurging
<1>11. ASSUME NEW o \in Outcomes, RecordFailure(d, o)
       PROVE  Journaled'
  <2>1. proc[d].op \in Deleters /\ HasEntry(proc[d].op) /\ proc[d].op \in Calls
    BY <1>0, <1>a, <1>11 DEF RecordFailure, Working
  <2>2. SameEntries(journal')
    <3>1. /\ SameEntries(Marked(proc[d].op, "failed", TRUE))
          /\ SameEntries(Marked(proc[d].op, "checkout_deleted", FALSE))
      BY <1>0, <2>1, UpdatedSame DEF Statuses
    <3>. QED
      BY <1>11, <3>1, SameItself DEF RecordFailure
  <2>3. Settles
    BY <1>11, <2>2, SettlesIfSame DEF RecordFailure
  <2>. QED
    BY <1>0, <1>11, <2>3, ReturnsSame DEF RecordFailure
<1>. QED
  BY <1>1, <1>2, <1>3, <1>4, <1>5, <1>6, <1>7, <1>8, <1>9, <1>10, <1>11
  DEF DeleteStep

LEMMA ClearJournaled ==
  ASSUME Typed, Journaled, NEW c \in Clearers, ClearStep(c)
  PROVE  Journaled'
<1>0. /\ c \in Workers /\ c \in Calls /\ Clearers \in SUBSET Calls
      /\ c \notin Deleters
      /\ WorkersType /\ JournalType
      /\ Covered(c, proc[c], journal, files)
  BY CallsAssumption DEF Workers, Calls, Typed, Journaled, WorkersCovered
<1>1. CASE CloseSurface(c, "begin")
  <2>1. Settles
    BY <1>1, SettlesIfUnchanged DEF CloseSurface
  <2>2. CASE Moves(c, "begin")
    <3> DEFINE r == [proc[c] EXCEPT !.at = "begin"]
    <3>1. r.at = "begin" /\ r.op = proc[c].op /\ r.seen = proc[c].seen
      BY <1>0 DEF WorkersType, WorkerStates
    <3>2. Covered(c, r, journal, files')
      <4> HIDE DEF r
      <4>. QED
        BY <1>0, <2>1, <3>1 DEF Covered, Settles, Purging, AfterPurging
    <3>. QED
      BY <1>0, <2>1, <2>2, <3>1, <3>2, GoesSame DEF Settles, Moves
  <2>3. CASE Returns(c)
    BY <1>0, <2>1, <2>3, ReturnsSame
  <2>. QED
    BY <1>1, <2>2, <2>3 DEF CloseSurface
<1>2. ASSUME NEW o \in Outcomes, BeginClear(c, o)
      PROVE  Journaled'
  <2>1. UNCHANGED <<World, data>>
    BY <1>2 DEF BeginClear
  <2>2. ASSUME NEW x \in Deleters
        PROVE  Begun(c, Clearers)[x] = journal[x]
    <3>1. CASE ~Admits(Clearers)
      BY <3>1 DEF Begun
    <3>2. CASE Admits(Clearers)
      <4>1. EntryOf(c, Clearers) \in Clearers
        BY <1>0, <3>2, BegunEntry
      <4>2. x \in Calls /\ x # EntryOf(c, Clearers)
        BY <4>1, CallsAssumption DEF Calls
      <4>. QED
        BY <1>0, <3>2, <4>2, BegunEntry
    <3>. QED
      BY <3>1, <3>2
  <2>3. SameEntries(journal')
    BY <1>2, <2>2 DEF BeginClear, SameEntries
  <2>4. Settles
    BY <2>1, <2>3, SettlesIfSame
  <2> DEFINE r == [proc[c] EXCEPT !.at = "update", !.op = c]
  <2>5. r.at = "update" /\ r.op = c /\ r.seen = proc[c].seen
    BY <1>0 DEF WorkersType, WorkerStates
  <2>6. Covered(c, r, journal, files')
    <3> HIDE DEF r
    <3>. QED
      BY <1>0, <2>4, <2>5 DEF Covered, Settles
  <2>7. CASE Goes(c, r)
    BY <1>0, <2>4, <2>5, <2>6, <2>7, GoesSame DEF Settles
  <2>8. CASE Returns(c)
    BY <1>0, <2>4, <2>8, ReturnsSame
  <2>. QED
    BY <1>2, <2>7, <2>8 DEF BeginClear
<1>. QED
  BY <1>1, <1>2 DEF ClearStep

\* A worker past the checkout's deletion.
LEMMA CleanupJournaled ==
  ASSUME Typed, Journaled, NEW w \in Workers, CleanupStep(w)
  PROVE  Journaled'
<1>0. /\ WorkersType /\ JournalType
      /\ Covered(w, proc[w], journal, files)
  BY DEF Typed, Journaled, WorkersCovered
<1>1. ASSUME NEW place \in CleanupPlaces, At(w, place)
      PROVE  /\ proc[w].op \in Calls
             /\ proc[w].op \in Deleters => HasEntry(proc[w].op)
  BY <1>0, <1>1, Operation, OperationHasEntry DEF CleanupPlaces, Working
<1>2. CASE Purged(w)
  <2>1. Settles /\ files' = files /\ At(w, "purge") /\ proc[w].todo = {}
    BY <1>2, SettlesIfUnchanged DEF Purged, data
  <2>2. proc[w].op \in Deleters => files' = {}
    BY <1>0, <2>1 DEF Covered, Purging, At
  <2>3. PICK place \in {"project", "update"} : Moves(w, place)
    BY <1>2 DEF Purged, AfterPurge
  <2>. QED
    BY <2>1, <2>2, <2>3, MovesSame DEF Places, Purging
<1>3. ASSUME NEW o \in Outcomes, SyncWorktrees(w, o)
      PROVE  Journaled'
  <2>1. /\ UNCHANGED <<checkout, late, data, journal>>
        /\ known' => known
        /\ At(w, "sync")
    BY <1>3 DEF SyncWorktrees
  <2>2. Settles /\ files' = files
    BY <2>1 DEF Settles, data, SameEntries
  <2>3. proc[w].op \in Deleters => files' \subseteq proc[w].todo
    BY <1>0, <2>1, <2>2 DEF Covered, Purging, At
  <2>4. \/ Fails(w)
        \/ \E place \in {"purge", "record", "catch"} : Moves(w, place)
    BY <1>3 DEF SyncWorktrees
  <2>. QED
    BY <2>2, <2>3, <2>4, MovesSame, FailsSame DEF Places, AfterPurging
<1>4. ASSUME NEW o \in Outcomes, NEW s \in Sessions, PurgeSession(w, s, o)
      PROVE  Journaled'
  <2>1. /\ UNCHANGED <<World, rows, journal>> /\ At(w, "purge")
        /\ files' \subseteq files
        /\ o # "failed" => files' = files \ {s}
    BY <1>4 DEF PurgeSession
  <2>2. Settles
    BY <2>1 DEF Settles, World, SameEntries
  <2>3. CASE Fails(w)
    BY <2>2, <2>3, FailsSame
  <2>4. CASE o = "ok" /\ Goes(w, [proc[w] EXCEPT !.todo = @ \ {s}])
    <3> DEFINE r == [proc[w] EXCEPT !.todo = @ \ {s}]
    <3>1. /\ r.at = "purge" /\ r.op = proc[w].op /\ r.todo = proc[w].todo \ {s}
          /\ r.seen = proc[w].seen
      BY <1>0, <2>1 DEF WorkersType, WorkerStates, At
    <3>2. proc[w].op \in Deleters => files \subseteq proc[w].todo
      BY <1>0, <2>1 DEF Covered, Purging, At
    <3>3. Covered(w, r, journal, files')
      <4> HIDE DEF r
      <4>1. proc[w].op \in Deleters => files' \subseteq r.todo
        BY <2>1, <2>4, <3>1, <3>2
      <4>. QED
        BY <1>0, <2>1, <3>1, <4>1 DEF Covered, AfterPurging
    <3>. QED
      BY <2>2, <2>4, <3>1, <3>3, GoesSame DEF Settles
  <2>. QED
    BY <1>4, <2>3, <2>4 DEF PurgeSession
<1>5. ASSUME NEW o \in Outcomes, StartPurging(w, o)
      PROVE  Journaled'
  <2>1. UNCHANGED <<World, data>> /\ At(w, "update")
    BY <1>5 DEF StartPurging
  <2>2. /\ proc[w].op \in Calls
        /\ proc[w].op \in Deleters => HasEntry(proc[w].op)
    BY <1>1, <2>1 DEF CleanupPlaces
  <2>3. SameEntries(journal')
    <3>1. SameEntries(Updated(proc[w].op, "purging", FALSE))
      BY <1>0, <2>2, UpdatedSame DEF Statuses
    <3>. QED
      BY <1>5, <3>1, SameItself DEF StartPurging
  <2>4. Settles /\ files' = files
    BY <2>1, <2>3, SettlesIfSame DEF data
  <2>5. proc[w].op \in Deleters => files' = {}
    BY <1>0, <2>1, <2>4 DEF Covered, AfterPurging, At
  <2>6. \/ Fails(w)
        \/ \E place \in {"complete", "project", "purge"} : Moves(w, place)
    BY <1>5 DEF StartPurging
  <2>. QED
    BY <2>4, <2>5, <2>6, MovesSame, FailsSame DEF Places
<1>6. ASSUME NEW o \in Outcomes, ClearProject(w, o)
      PROVE  Journaled'
  <2>1. /\ UNCHANGED <<World, files, journal>> /\ At(w, "project")
        /\ rows' => rows
    BY <1>6 DEF ClearProject
  <2>2. Settles
    BY <2>1 DEF Settles, World, SameEntries
  <2>3. proc[w].op \in Deleters => files' = {}
    BY <1>0, <2>1 DEF Covered, AfterPurging, At
  <2>4. Moves(w, "complete") \/ Fails(w)
    BY <1>6 DEF ClearProject
  <2>. QED
    BY <2>2, <2>3, <2>4, MovesSame, FailsSame DEF Places
<1>7. ASSUME NEW o \in Outcomes, Complete(w, o)
      PROVE  Journaled'
  <2>1. UNCHANGED <<checkout, late, files>> /\ At(w, "complete")
    BY <1>7 DEF Complete
  <2>2. /\ proc[w].op \in Calls
        /\ proc[w].op \in Deleters => HasEntry(proc[w].op) /\ files = {}
    BY <1>0, <1>1, <2>1 DEF CleanupPlaces, Covered, AfterPurging, At
  <2>3. \/ Fails(w) \/ Returns(w)
        \/ Moves(w, "next")
    BY <1>7 DEF Complete
  <2>4. CASE SameEntries(journal')
    <3>1. (rows' => rows) /\ (known' => known)
      BY <1>7 DEF Complete
    <3>2. Settles
      BY <2>1, <2>4, <3>1 DEF Settles
    <3>. QED
      BY <2>3, <3>2, MovesSame, FailsSame, ReturnsSame
      DEF Places, Purging, AfterPurging
  <2>5. CASE ~SameEntries(journal')
    <3>1. /\ proc[w].op \in Deleters
          /\ ~rows' /\ ~known'
          /\ journal' = Updated(proc[w].op, "completed", FALSE)
      <4>1. /\ CanComplete(proc[w].op) /\ o # "failed"
            /\ journal' = Updated(proc[w].op, "completed", FALSE)
        BY <1>7, <2>5, SameItself DEF Complete
      <4>2. proc[w].op \in Deleters
        <5>1. ASSUME proc[w].op \notin Deleters, NEW d \in Deleters
              PROVE  journal'[d] = journal[d]
          BY <1>0, <4>1, <5>1 DEF Updated, JournalType, Calls
        <5>. QED
          BY <2>5, <5>1 DEF SameEntries
      <4>. QED
        BY <1>7, <4>1, <4>2 DEF Complete
    <3> DEFINE op == proc[w].op
    <3>2. /\ journal'[op].status = "completed"
          /\ journal'[op].sess = journal[op].sess
          /\ \A d \in Deleters : d # op => journal'[d] = journal[d]
      BY <1>0, <2>2, <3>1 DEF Updated, JournalType, Entries, Calls
    <3> HIDE DEF op
    <3>3. op \in Deleters /\ journal[op].status # "none" /\ files' = {}
      BY <2>1, <2>2, <3>1 DEF op, HasEntry
    <3>4. CompletedIsPurged'
      BY <3>1, <3>3 DEF CompletedIsPurged
    <3>5. GoneHasEntry'
      BY <3>2, <3>3 DEF GoneHasEntry, HasEntry
    <3>6. /\ \A d \in Deleters :
               journal[d].status # "none" <=> journal'[d].status # "none"
          /\ files' \subseteq files
      BY <3>2, <3>3
    <3>7. ASSUME NEW r, Goes(w, r), r.at # "idle", Covered(w, r, journal', files')
          PROVE  Journaled'
      BY <3>3, <3>4, <3>5, <3>6, <3>7, GoesJournaled
    <3>8. Covered(w, proc[w], journal', files')
      BY <1>0, <3>6, CoveredStays
    <3>9. ASSUME NEW place \in {"fail", "next"}, Moves(w, place)
          PROVE  Journaled'
      <4> DEFINE r == [proc[w] EXCEPT !.at = place]
      <4>1. /\ r.at = place /\ r.op = proc[w].op /\ r.todo = proc[w].todo
            /\ r.seen = proc[w].seen
        BY <1>0 DEF WorkersType, WorkerStates
      <4>2. Covered(w, r, journal', files')
        <5> HIDE DEF r
        <5>. QED
          BY <3>8, <4>1 DEF Covered, Purging, AfterPurging
      <4>. QED
        BY <3>7, <3>9, <4>1, <4>2 DEF Moves
    <3>10. ASSUME Returns(w)
           PROVE  Journaled'
      <4>1. Covered(w, Done, journal', files') /\ Done.at # "idle"
        BY CallsAssumption DEF Covered, Done, Idle, Calls
      <4>. QED
        BY <3>7, <3>10, <4>1 DEF Returns
    <3>. QED
      BY <2>3, <3>9, <3>10 DEF Fails
  <2>. QED
    BY <2>4, <2>5
<1>8. ASSUME NEW o \in Outcomes, MarkFailed(w, o)
      PROVE  Journaled'
  <2>1. UNCHANGED <<World, data>> /\ At(w, "fail")
    BY <1>8 DEF MarkFailed
  <2>2. /\ proc[w].op \in Calls
        /\ proc[w].op \in Deleters => HasEntry(proc[w].op)
    BY <1>1, <2>1 DEF CleanupPlaces
  <2>3. SameEntries(journal')
    <3>1. SameEntries(Marked(proc[w].op, "failed", FALSE))
      BY <1>0, <2>2, UpdatedSame DEF Statuses
    <3>. QED
      BY <1>8, <3>1, SameItself DEF MarkFailed
  <2>4. Settles
    BY <2>1, <2>3, SettlesIfSame
  <2>5. Returns(w) \/ Moves(w, "next")
    BY <1>8 DEF MarkFailed
  <2>. QED
    BY <2>4, <2>5, MovesSame, ReturnsSame DEF Places, Purging, AfterPurging
<1>. QED
  BY <1>2, <1>3, <1>4, <1>5, <1>6, <1>7, <1>8 DEF CleanupStep

LEMMA ResumeJournaled ==
  ASSUME Typed, Journaled, ResumeStep
  PROVE  Journaled'
<1>0. /\ Resumer \in Workers /\ Resumer \notin Deleters
      /\ WorkersType /\ JournalType
      /\ Covered(Resumer, proc[Resumer], journal, files)
      /\ proc[Resumer] \in WorkerStates
  BY CallsAssumption
  DEF Workers, Calls, Typed, Journaled, WorkersCovered, WorkersType
<1>1. CASE ResumeNext
  <2>0. Settles /\ files' = files
    BY <1>1, SettlesIfUnchanged DEF ResumeNext, data
  <2>1. CASE proc[Resumer].seen = {}
    BY <1>0, <1>1, <2>0, <2>1, ReturnsSame DEF ResumeNext
  <2>2. CASE proc[Resumer].seen # {}
    <3> DEFINE Rest(e) == [proc[Resumer] EXCEPT !.seen = @ \ {e},
                                                !.op = e[1],
                                                !.todo = e[2].sess,
                                                !.again = TRUE]
               At1(e, place) == [Rest(e) EXCEPT !.at = place]
    <3>1. PICK e \in proc[Resumer].seen :
            \/ Goes(Resumer, Rest(e)) /\ At(Resumer, "next")
            \/ \E place \in {"skip", "sync", "purge"} :
                 Goes(Resumer, At1(e, place))
      BY <1>1, <2>2 DEF ResumeNext
    <3>2. /\ e[1] \in Deleters =>
               journal[e[1]].status # "none" /\ files' \subseteq e[2].sess
          /\ \A x \in proc[Resumer].seen \ {e} :
               x[1] \in Deleters =>
                 journal[x[1]].status # "none" /\ files' \subseteq x[2].sess
      BY <1>0, <2>0 DEF Covered
    <3>3. ASSUME NEW r, r.seen = proc[Resumer].seen \ {e}, r.op = e[1],
                 r.todo = e[2].sess, r.at \in {"next", "skip", "sync", "purge"},
                 Goes(Resumer, r)
          PROVE  Journaled'
      <4>1. Covered(Resumer, r, journal, files')
        BY <1>0, <3>2, <3>3 DEF Covered, AfterPurging
      <4>. QED
        BY <1>0, <2>0, <3>3, <4>1, GoesSame DEF Settles
    <3>4. /\ Rest(e).seen = proc[Resumer].seen \ {e} /\ Rest(e).op = e[1]
          /\ Rest(e).todo = e[2].sess
          /\ At(Resumer, "next") => Rest(e).at = "next"
      BY <1>0 DEF WorkerStates, At
    <3>5. \A place :
            /\ At1(e, place).seen = proc[Resumer].seen \ {e}
            /\ At1(e, place).op = e[1]
            /\ At1(e, place).todo = e[2].sess
            /\ At1(e, place).at = place
      BY <1>0 DEF WorkerStates
    <3> HIDE DEF Rest, At1
    <3>. QED
      BY <3>1, <3>3, <3>4, <3>5
  <2>. QED
    BY <2>1, <2>2
<1>2. ASSUME NEW o \in Outcomes, ListIncomplete(o)
      PROVE  Journaled'
  <2> DEFINE read == {<<i, journal[i]>> : i \in {j \in Calls : Incomplete(j)}}
             r == [Idle EXCEPT !.at = "next", !.seen = read]
  <2>1. Settles /\ files' = files
    BY <1>2, SettlesIfUnchanged DEF ListIncomplete, data
  <2>2. CASE Goes(Resumer, r)
    <3>1. r.at = "next" /\ r.op = None /\ r.seen = read
      BY DEF Idle
    <3>2. \A e \in read : e[1] \in Deleters =>
            journal[e[1]].status # "none" /\ files' \subseteq e[2].sess
      BY <2>1, ReadCovered
    <3>3. Covered(Resumer, r, journal, files')
      <4> HIDE DEF r, read
      <4>. QED
        BY <1>0, <3>1, <3>2, CallsAssumption DEF Covered, Calls
    <3>. QED
      BY <1>0, <2>1, <2>2, <3>1, <3>3, GoesSame DEF Settles
  <2>3. CASE Returns(Resumer)
    BY <1>0, <2>1, <2>3, ReturnsSame
  <2>. QED
    BY <1>2, <2>2, <2>3 DEF ListIncomplete
<1>3. ASSUME NEW o \in Outcomes, SkipInterrupted(o)
      PROVE  Journaled'
  <2>1. UNCHANGED <<World, data>> /\ At(Resumer, "skip")
    BY <1>3 DEF SkipInterrupted
  <2>2. /\ proc[Resumer].op \in Calls
        /\ proc[Resumer].op \in Deleters => HasEntry(proc[Resumer].op)
    BY <1>0, <2>1, Operation, OperationHasEntry DEF Working
  <2>3. SameEntries(journal')
    <3>1. SameEntries(Marked(proc[Resumer].op, "failed", TRUE))
      BY <1>0, <2>2, UpdatedSame DEF Statuses
    <3>. QED
      BY <1>3, <3>1, SameItself DEF SkipInterrupted
  <2>4. Settles /\ Moves(Resumer, "next")
    BY <1>3, <2>1, <2>3, SettlesIfSame DEF SkipInterrupted
  <2>. QED
    BY <1>0, <2>4, MovesSame DEF Places, Purging, AfterPurging
<1>. QED
  BY <1>1, <1>2, <1>3 DEF ResumeStep

\* A stop forgets what the workers knew, and the journal does not.
LEMMA StoppedJournaled ==
  ASSUME Journaled, proc' = Stopped,
         UNCHANGED <<checkout, late, known, data, journal>>
  PROVE  Journaled'
<1>1. UNCHANGED <<checkout, late, known, files, rows, journal>>
  BY DEF data
<1>2. WorkersCovered'
  <2>1. ASSUME NEW w \in Workers
        PROVE  Covered(w, proc'[w], journal', files')
    <3>1. proc'[w] = Idle \/ proc'[w] = Done
      BY DEF Stopped
    <3>2. Covered(w, Idle, journal', files') /\ Covered(w, Done, journal', files')
      BY CallsAssumption DEF Covered, Done, Idle, Calls
    <3>. QED
      BY <3>1, <3>2
  <2>. QED
    BY <2>1 DEF WorkersCovered
<1>3. NoneBegun'
  <2>1. ASSUME NEW d \in Deleters, proc'[d].at = "idle"
        PROVE  At(d, "idle")
    <3>1. d \in Workers /\ d # Resumer
      BY CallsAssumption DEF Workers, Calls
    <3>. QED
      BY <2>1, <3>1 DEF Stopped, Done, Idle
  <2>. QED
    BY <1>1, <2>1 DEF Journaled, NoneBegun, HasEntry, At
<1>. QED
  BY <1>1, <1>2, <1>3
  DEF Journaled, JournalCovers, CompletedIsPurged, GoneHasEntry, HasEntry

LEMMA InitJournaled == Init => Journaled
<1>. SUFFICES ASSUME Init PROVE Journaled
  OBVIOUS
<1>1. \A d \in Deleters : journal[d].status = "none"
  BY DEF Init, NoEntry, Calls
<1>2. WorkersCovered
  <2>1. \A w \in Workers : proc[w] = Idle
    BY DEF Init
  <2>2. \A w \in Workers : Covered(w, Idle, journal, files)
    BY CallsAssumption DEF Covered, Idle, Calls
  <2>. QED
    BY <2>1, <2>2 DEF WorkersCovered
<1>3. ~late /\ checkout
  BY DEF Init
<1>. QED
  BY <1>1, <1>2, <1>3
  DEF Journaled, JournalCovers, NoneBegun, CompletedIsPurged, GoneHasEntry,
      HasEntry

LEMMA NextJournaled ==
  ASSUME ~LateSessions
  PROVE  Typed /\ Journaled /\ [Next]_vars => Journaled'
<1>. SUFFICES ASSUME Typed, Journaled, [Next]_vars PROVE Journaled'
  OBVIOUS
<1>1. CASE UserStep
  BY <1>1, UserJournaled
<1>2. ASSUME NEW w \in Workers, WorkerStep(w)
      PROVE  Journaled'
  BY <1>2, DeleteJournaled, ClearJournaled, CleanupJournaled, ResumeJournaled
  DEF WorkerStep
<1>3. CASE GitFinishes
  <2>1. late /\ UNCHANGED <<known, files, rows, journal, proc>>
    BY <1>3 DEF GitFinishes, data
  <2>2. GoneHasEntry'
    BY <2>1 DEF Journaled, GoneHasEntry, HasEntry
  <2>. QED
    BY <2>1, <2>2
    DEF Journaled, JournalCovers, WorkersCovered, NoneBegun, CompletedIsPurged,
        HasEntry, At
<1>4. CASE Crash
  BY <1>4, StoppedJournaled DEF Crash
<1>5. CASE Restart
  BY <1>5, StoppedJournaled DEF Restart
<1>6. CASE UNCHANGED vars
  <2>1. UNCHANGED <<checkout, late, known, files, rows, journal, proc>>
    BY <1>6 DEF vars, data
  <2>. QED
    BY <2>1
    DEF Journaled, JournalCovers, WorkersCovered, NoneBegun, CompletedIsPurged,
        GoneHasEntry, HasEntry, At
<1>. QED
  BY <1>1, <1>2, <1>3, <1>4, <1>5, <1>6 DEF Next

LEMMA JournaledCleanup == Journaled => CleanupIsJournaled
<1>. SUFFICES ASSUME Journaled, ~checkout, rows \/ files # {}
              PROVE  \E d \in Deleters :
                       Resumable(d) /\ files \subseteq journal[d].sess
  BY DEF CleanupIsJournaled
<1>1. PICK d \in Deleters : HasEntry(d)
  BY DEF Journaled, GoneHasEntry
<1>2. files \subseteq journal[d].sess
  BY <1>1 DEF Journaled, JournalCovers
<1>3. journal[d].status # "completed"
  BY DEF Journaled, CompletedIsPurged
<1>4. d \notin Clearers
  BY CallsAssumption
<1>. QED
  BY <1>1, <1>2, <1>3, <1>4 DEF Resumable, ShouldResume, Incomplete, HasEntry

LEMMA JournaledCompleted == Journaled /\ NothingPast => CompletedMeansPurged
BY DEF Journaled, CompletedIsPurged, CompletedMeansPurged, NothingPast,
       JournalBefore, Past

\* Once the checkout is gone, the journal has an entry that the next start takes
\* up and that lists every history still on disk: no failure, lost answer, crash
\* or second window leaves data that nobody will purge.  It is the entry itself
\* that must list them, since the worker that knew them may be gone.  No session
\* may start once a deletion has begun; the code does not refuse one.
THEOREM CleanupJournaledAlways ==
  ASSUME ~LateSessions
  PROVE  Spec => []CleanupIsJournaled
<1>1. Typed /\ Journaled /\ [Next]_vars => Typed' /\ Journaled'
  BY NextType, NextJournaled
<1>. QED
  BY <1>1, InitType, InitJournaled, JournaledCleanup, PTL DEF Spec

\* A deletion recorded as completed has left neither checkout nor registry entry,
\* rows or histories: no worker records the end while another has something of
\* it to purge, and none brings anything back.  It needs what the two theorems
\* above need.
THEOREM CompletedPurgedAlways ==
  ASSUME ~LateSessions, ~Recreate
  PROVE  Spec => []CompletedMeansPurged
<1>1. Typed /\ Journaled /\ NothingPast /\ [Next]_vars =>
        Typed' /\ Journaled' /\ NothingPast'
  BY NextType, NextJournaled, NextBefore
<1>. QED
  BY <1>1, InitType, InitJournaled, InitBefore, JournaledCompleted, PTL DEF Spec

=============================================================================
