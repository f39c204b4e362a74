------------------------- MODULE WorkspaceDeletion -------------------------
(***************************************************************************)
(* Deleting a worktree and clearing a project's data                       *)
(* (src/main/workspace/destructive-coordinator.ts), which change git's     *)
(* checkout, the session files and the rows of the store, "work that       *)
(* cannot share one transaction".  A journal in the store                  *)
(* (crates/comando-persistence/src/workspace_lifecycle.rs) records how far *)
(* each operation has come, and the next start resumes what was cut off.   *)
(*                                                                         *)
(* One worktree of one project.  Every await of the coordinator is a step  *)
(* boundary: two windows may delete the same worktree, another may clear   *)
(* the project, and the resumption at startup runs beside them.  A request *)
(* is answered, fails, or is carried out and its answer is lost.           *)
(*                                                                         *)
(* Abstracted: what the preflight asks of git and of the user (it may      *)
(* refuse), surfaces, live sessions and terminals (they are closed, and    *)
(* the user may open them again), the order in which the journal lists its *)
(* entries, the texts of the errors: of an error code only the prefix      *)
(* "pre_checkout:" is told apart.                                          *)
(***************************************************************************)
EXTENDS Naturals, FiniteSets

CONSTANTS
    Deleters,  \* calls of deleteWorktree; an operation is named by its call
    Clearers,  \* calls of clearProjectAppData
    Resumer,   \* resumePendingOperations, run at every start
    Sessions,  \* chat sessions a user may have in the worktree
    None,      \* no operation
    LateSessions, \* may a session start once a deletion has begun?
    Recreate,  \* may the worktree be created again at its path?
    MaxFaults  \* bound: requests that fail or are lost, crashes

Calls == Deleters \cup Clearers

Workers == Calls \cup {Resumer}

ASSUME CallsAssumption ==
    /\ Deleters \cap Clearers = {}
    /\ Resumer \notin Calls
    /\ None \notin Calls
ASSUME SwitchesAssumption == {LateSessions, Recreate} \subseteq BOOLEAN
ASSUME MaxFaultsAssumption == MaxFaults \in Nat

VARIABLES
    checkout, \* the checkout's directory exists and git lists it
    late,     \* git still removes the checkout for a request that was given up
    known,    \* the project registry lists the worktree
    files,    \* sessions whose history is on disk
    rows,     \* the store has rows of the workspace
    journal,  \* the deletion journal, by operation
    proc,     \* where each worker is
    faults    \* requests that failed and crashes so far

data == <<files, rows>>

vars == <<checkout, late, known, files, rows, journal, proc, faults>>

-----------------------------------------------------------------------------
(* The journal *)

NoEntry == [status |-> "none", pre |-> FALSE, sess |-> {}]

Incomplete(o) == journal[o].status \notin {"none", "completed"}

\* The entry of a scope that is not completed: the store's unique index allows
\* one per kind.
Owner(ops) ==
    IF \E o \in ops : Incomplete(o)
    THEN CHOOSE o \in ops : Incomplete(o) ELSE None

\* The error code is that of a failure before the checkout was deleted.
Retriable(e) == e.status = "failed" /\ e.pre

\* Mutant: a failed operation stays failed.
ValidTransitionFailedFinal(from, to) ==
    \/ from = to
    \/ <<from, to>> \in
         {<<"pending", "checkout_deleted">>, <<"pending", "purging">>,
          <<"pending", "failed">>, <<"checkout_deleted", "purging">>,
          <<"checkout_deleted", "failed">>, <<"purging", "completed">>,
          <<"purging", "failed">>}

ValidTransition(from, to) ==
    \/ from = to
    \/ <<from, to>> \in
         {<<"pending", "checkout_deleted">>, <<"pending", "purging">>,
          <<"pending", "failed">>, <<"checkout_deleted", "purging">>,
          <<"checkout_deleted", "failed">>, <<"purging", "completed">>,
          <<"purging", "failed">>, <<"failed", "checkout_deleted">>,
          <<"failed", "purging">>}

CanUpdate(o, status) == ValidTransition(journal[o].status, status)

Updated(o, status, pre) ==
    [journal EXCEPT ![o].status = status, ![o].pre = pre]

\* #markFailed: an update that is not allowed, or fails, is ignored.
Marked(o, status, pre) ==
    IF CanUpdate(o, status) THEN Updated(o, status, pre) ELSE journal

\* shouldResume, of the entry e of the operation o.
\* Mutant: an entry that is still pending is resumed as well.
ShouldResumePending(o, e) ==
    IF o \in Clearers THEN e.status # "completed"
    ELSE \/ e.status \in {"pending", "checkout_deleted", "purging"}
         \/ e.status = "failed" /\ ~e.pre
         \/ ~checkout

\* Mutant: only the journal is asked, not the file system.
ShouldResumeByJournal(o, e) ==
    IF o \in Clearers THEN e.status # "completed"
    ELSE \/ e.status \in {"checkout_deleted", "purging"}
         \/ e.status = "failed" /\ ~e.pre

\* Mutant: a clearing that failed waits for the user.
ShouldResumeDeletions(o, e) ==
    /\ o \in Deleters
    /\ \/ e.status \in {"checkout_deleted", "purging"}
       \/ e.status = "failed" /\ ~e.pre
       \/ ~checkout

ShouldResume(o, e) ==
    IF o \in Clearers THEN e.status # "completed"
    ELSE \/ e.status \in {"checkout_deleted", "purging"}
         \/ e.status = "failed" /\ ~e.pre
         \/ ~checkout

-----------------------------------------------------------------------------
(* Workers.  at: the request a worker waits for; op: its operation; todo:    *)
(* the sessions it has still to purge; again: it resumes op; seen: the       *)
(* entries it read.                                                          *)

Idle == [at |-> "idle", op |-> None, todo |-> {}, again |-> FALSE,
         seen |-> {}]

Done == [Idle EXCEPT !.at = "done"]

At(w, place) == proc[w].at = place

Goes(w, r) == proc' = [proc EXCEPT ![w] = r]

Moves(w, place) == Goes(w, [proc[w] EXCEPT !.at = place])

\* The call throws, or ends without another request.
Returns(w) == Goes(w, Done)

\* "lost": carried out, but the answer is an error or a timeout.
Outcomes == {"ok", "failed", "lost"}

Fault(o) ==
    /\ faults' = IF o = "ok" THEN faults ELSE faults + 1
    /\ faults' <= MaxFaults

World == <<checkout, late, known>>

\* begin_workspace_deletion, of the operations of one kind: an entry that failed
\* before the checkout was deleted is used again, under its own operation.
Admits(ops) == Owner(ops) = None \/ Retriable(journal[Owner(ops)])

\* Mutant: an operation without an entry gets no name.
EntryOfOwner(w, ops) == Owner(ops)

EntryOf(w, ops) == IF Owner(ops) = None THEN w ELSE Owner(ops)

Begun(w, ops) ==
    IF Admits(ops)
    THEN [journal EXCEPT ![EntryOf(w, ops)] =
            [status |-> "pending", pre |-> FALSE, sess |-> proc[w].todo]]
    ELSE journal

-----------------------------------------------------------------------------
(* What the user does outside the coordinator.                               *)

\* Activating the workspace, unless it is active, saves its layout.
OpenWorkspace ==
    /\ known
    /\ rows' = TRUE
    /\ UNCHANGED <<World, files, journal, proc, faults>>

\* A session is written to disk when it starts, in the checkout.
NewSession(s) ==
    /\ LateSessions \/ \A d \in Deleters : At(d, "idle")
    /\ known
    /\ checkout
    /\ files' = files \cup {s}
    /\ rows' = TRUE
    /\ UNCHANGED <<World, journal, proc, faults>>

\* A worktree created at a path the registry still lists keeps its id.
CreateAgain ==
    /\ Recreate
    /\ ~checkout
    /\ known
    /\ checkout' = TRUE
    /\ UNCHANGED <<late, known, data, journal, proc, faults>>

-----------------------------------------------------------------------------
(* deleteWorktree                                                            *)

Begin(d, o) ==
    /\ At(d, "idle")
    /\ Fault(o)
    /\ IF o = "ok"
       THEN Goes(d, [Idle EXCEPT !.at = "decide",
                                 !.seen = {<<i, journal[i]>> : i \in
                                           {j \in Deleters : Incomplete(j)}}])
       ELSE Returns(d)
    /\ UNCHANGED <<World, data, journal>>

\* What was read of the scope's entry, and whether the directory exists now.
Decide(d) ==
    /\ At(d, "decide")
    /\ IF proc[d].seen = {}
       THEN Moves(d, "preflight")
       ELSE \E e \in proc[d].seen :
              IF ShouldResume(e[1], e[2])
              THEN Goes(d, [Idle EXCEPT !.at = "sync", !.op = e[1],
                                        !.todo = e[2].sess, !.again = TRUE])
              ELSE IF e[2].status = "pending"
              THEN Goes(d, [Idle EXCEPT !.at = "interrupted", !.op = e[1]])
              ELSE Moves(d, "preflight")
    /\ UNCHANGED <<World, data, journal, faults>>

\* The entry found pending is taken for one that was cut off.
MarkInterrupted(d, o) ==
    /\ At(d, "interrupted")
    /\ Fault(o)
    /\ journal' = IF o = "failed" THEN journal
                  ELSE Marked(proc[d].op, "failed", TRUE)
    /\ Moves(d, "preflight")
    /\ UNCHANGED <<World, data>>

\* The registry lists the worktree, git reports it, and nothing else is in the
\* way: no lock, no git operation, no lease, no changes the user would lose.
Preflight(d) ==
    /\ At(d, "preflight")
    /\ \/ known /\ checkout /\ Moves(d, "close")
       \/ Returns(d)
    /\ UNCHANGED <<World, data, journal, faults>>

\* closeWorkspaceSurface may be blocked by a lease, or fail.
CloseSurface(w, next) ==
    /\ At(w, "close")
    /\ Moves(w, next) \/ Returns(w)
    /\ UNCHANGED <<World, data, journal, faults>>

ListSessions(d, o) ==
    /\ At(d, "list")
    /\ Fault(o)
    /\ IF o = "ok"
       THEN Goes(d, [proc[d] EXCEPT !.at = "begin", !.todo = files])
       ELSE Returns(d)
    /\ UNCHANGED <<World, data, journal>>

BeginDeletion(d, o) ==
    /\ At(d, "begin")
    /\ Fault(o)
    /\ journal' = IF o = "failed" THEN journal ELSE Begun(d, Deleters)
    /\ IF Admits(Deleters) /\ o = "ok"
       THEN Goes(d, [proc[d] EXCEPT !.at = "stop", !.op = EntryOf(d, Deleters)])
       ELSE Returns(d)
    /\ UNCHANGED <<World, data>>

\* closeSession of every root, closeOwnedByWindow of the terminals.
StopRuntimes(d, o) ==
    /\ At(d, "stop")
    /\ Fault(o)
    /\ Moves(d, IF o = "ok" THEN "git" ELSE "catch")
    /\ UNCHANGED <<World, data, journal>>

\* git worktree remove.  A request that was given up may still be at work.
RemoveCheckout(d, o) ==
    /\ At(d, "git")
    /\ IF ~checkout
       THEN /\ o = "failed"
            /\ faults' = faults
            /\ UNCHANGED <<checkout, late>>
       ELSE /\ Fault(o)
            /\ checkout' \in IF o = "ok" THEN {FALSE}
                             ELSE IF o = "lost" THEN {FALSE, TRUE} ELSE {TRUE}
            /\ late' = (late \/ (o = "lost" /\ checkout'))
    /\ Moves(d, IF o = "ok" THEN "sync" ELSE "catch")
    /\ UNCHANGED <<known, data, journal>>

GitFinishes ==
    /\ late
    /\ late' = FALSE
    /\ checkout' \in {checkout, FALSE}
    /\ UNCHANGED <<known, data, journal, proc, faults>>

\* Where a worker goes on when a request of its cleanup failed.
Fails(w) == IF proc[w].again /\ w # Resumer THEN Returns(w) ELSE Moves(w, "fail")

\* The worktrees git lists replace those of the registry: now, or just after it
\* removed the checkout.
SyncWorktrees(w, o) ==
    /\ At(w, "sync")
    /\ Fault(o)
    /\ known' = IF o = "failed" THEN known ELSE known /\ proc[w].again /\ checkout
    /\ IF o = "ok" THEN Moves(w, IF proc[w].again THEN "purge" ELSE "record")
       ELSE IF proc[w].again THEN Fails(w)
       ELSE Moves(w, "catch")
    /\ UNCHANGED <<checkout, late, data, journal>>

RecordCheckout(d, o) ==
    /\ At(d, "record")
    /\ LET valid == CanUpdate(proc[d].op, "checkout_deleted") IN
       IF valid /\ o = "ok"
       THEN /\ journal' = Updated(proc[d].op, "checkout_deleted", FALSE)
            /\ faults' = faults
            /\ Moves(d, "purge")
       ELSE /\ IF valid THEN Fault(o) ELSE o = "failed" /\ faults' = faults
            /\ journal' = IF o = "lost"
                          THEN Updated(proc[d].op, "checkout_deleted", FALSE)
                          ELSE journal
            /\ Moves(d, "catch")
    /\ UNCHANGED <<World, data>>

\* The handler of the first part asks whether the directory still exists.
\* Mutant: every failure is one after the checkout was deleted.
CatchPost(d) ==
    /\ At(d, "catch")
    /\ Moves(d, "catch_post")
    /\ UNCHANGED <<World, data, journal, faults>>

Catch(d) ==
    /\ At(d, "catch")
    /\ Moves(d, IF checkout THEN "catch_pre" ELSE "catch_post")
    /\ UNCHANGED <<World, data, journal, faults>>

RecordFailure(d, o) ==
    /\ At(d, "catch_pre") \/ At(d, "catch_post")
    /\ Fault(o)
    /\ journal' = IF o = "failed" THEN journal
                  ELSE IF At(d, "catch_pre")
                  THEN Marked(proc[d].op, "failed", TRUE)
                  ELSE Marked(proc[d].op, "checkout_deleted", FALSE)
    /\ Returns(d)
    /\ UNCHANGED <<World, data>>

-----------------------------------------------------------------------------
(* The cleanup, shared by the calls and the resumption.                      *)

\* #purgeSessionFiles: one deleteSession after the other.
\* Mutant: a history that cannot be deleted is skipped.
PurgeSessionOrSkip(w, s, o) ==
    /\ At(w, "purge")
    /\ s \in proc[w].todo
    /\ Fault(o)
    /\ files' = IF o = "failed" THEN files ELSE files \ {s}
    /\ Goes(w, [proc[w] EXCEPT !.todo = @ \ {s}])
    /\ UNCHANGED <<World, rows, journal>>

PurgeSession(w, s, o) ==
    /\ At(w, "purge")
    /\ s \in proc[w].todo
    /\ Fault(o)
    /\ files' = IF o = "failed" THEN files ELSE files \ {s}
    /\ IF o = "ok" THEN Goes(w, [proc[w] EXCEPT !.todo = @ \ {s}])
       ELSE Fails(w)
    /\ UNCHANGED <<World, rows, journal>>

\* Every session is purged: the first run of a clearing has updated the journal
\* before.
AfterPurge(w) ==
    IF proc[w].op \in Clearers /\ ~proc[w].again THEN "project" ELSE "update"

Purged(w) ==
    /\ At(w, "purge")
    /\ proc[w].todo = {}
    /\ Moves(w, AfterPurge(w))
    /\ UNCHANGED <<World, data, journal, faults>>

\* The update to "purging".
StartPurging(w, o) ==
    /\ At(w, "update")
    /\ LET op == proc[w].op
            valid == CanUpdate(op, "purging")
       IN  /\ IF valid THEN Fault(o) ELSE o = "failed" /\ faults' = faults
           /\ journal' = IF o = "failed" THEN journal
                         ELSE Updated(op, "purging", FALSE)
           /\ IF o # "ok" THEN Fails(w)
              ELSE IF op \in Deleters THEN Moves(w, "complete")
              ELSE IF proc[w].again THEN Moves(w, "project")
              ELSE Moves(w, "purge")
    /\ UNCHANGED <<World, data>>

\* projectService.clearProjectAppData, clearProjectSettings.
ClearProject(w, o) ==
    /\ At(w, "project")
    /\ Fault(o)
    /\ rows' = IF o = "failed" THEN rows ELSE FALSE
    /\ IF o = "ok" THEN Moves(w, "complete") ELSE Fails(w)
    /\ UNCHANGED <<World, files, journal>>

\* complete_workspace_deletion, one transaction.
CanComplete(o) ==
    journal[o].status \in IF o \in Deleters THEN {"checkout_deleted", "purging"}
                          ELSE {"purging"}

Complete(w, o) ==
    /\ At(w, "complete")
    /\ LET op == proc[w].op
            done == CanComplete(op) /\ o # "failed"
       IN  /\ IF CanComplete(op) THEN Fault(o)
              ELSE o = "failed" /\ faults' = faults
           /\ journal' = IF done THEN Updated(op, "completed", FALSE)
                         ELSE journal
           /\ rows' = (rows /\ ~done)
           /\ known' = (known /\ ~(done /\ op \in Deleters))
           /\ IF o # "ok" THEN Fails(w)
              ELSE IF w = Resumer THEN Moves(w, "next")
              ELSE Returns(w)
    /\ UNCHANGED <<checkout, late, files>>

\* #markFailed with post_checkout, project_purge or resume_purge.
MarkFailed(w, o) ==
    /\ At(w, "fail")
    /\ Fault(o)
    /\ journal' = IF o = "failed" THEN journal
                  ELSE Marked(proc[w].op, "failed", FALSE)
    /\ IF w = Resumer THEN Moves(w, "next") ELSE Returns(w)
    /\ UNCHANGED <<World, data>>

-----------------------------------------------------------------------------
(* clearProjectAppData                                                       *)

ListProject(c, o) ==
    /\ At(c, "idle")
    /\ Fault(o)
    /\ IF o = "ok" THEN Goes(c, [Idle EXCEPT !.at = "close", !.todo = files])
       ELSE Returns(c)
    /\ UNCHANGED <<World, data, journal>>

BeginClear(c, o) ==
    /\ At(c, "begin")
    /\ Fault(o)
    /\ journal' = IF o = "failed" THEN journal ELSE Begun(c, Clearers)
    /\ IF Admits(Clearers) /\ o = "ok"
       THEN Goes(c, [proc[c] EXCEPT !.at = "update", !.op = c])
       ELSE Returns(c)
    /\ UNCHANGED <<World, data>>

-----------------------------------------------------------------------------
(* resumePendingOperations                                                   *)

ListIncomplete(o) ==
    /\ At(Resumer, "idle")
    /\ Fault(o)
    /\ IF o = "ok"
       THEN Goes(Resumer, [Idle EXCEPT !.at = "next",
                                       !.seen = {<<i, journal[i]>> : i \in
                                                 {j \in Calls : Incomplete(j)}}])
       ELSE Returns(Resumer)
    /\ UNCHANGED <<World, data, journal>>

\* The loop over what was listed, which may be out of date by now.
ResumeNext ==
    /\ At(Resumer, "next")
    /\ IF proc[Resumer].seen = {} THEN Returns(Resumer)
       ELSE \E e \in proc[Resumer].seen :
              LET rest == [proc[Resumer] EXCEPT !.seen = @ \ {e},
                                                !.op = e[1],
                                                !.todo = e[2].sess,
                                                !.again = TRUE]
              IN  IF e[1] \in Deleters /\ e[2].status = "pending" /\ checkout
                  THEN Goes(Resumer, [rest EXCEPT !.at = "skip"])
                  ELSE IF ~ShouldResume(e[1], e[2])
                  THEN Goes(Resumer, rest)
                  ELSE Goes(Resumer, [rest EXCEPT !.at =
                         IF e[1] \in Deleters THEN "sync" ELSE "purge"])
    /\ UNCHANGED <<World, data, journal, faults>>

SkipInterrupted(o) ==
    /\ At(Resumer, "skip")
    /\ Fault(o)
    /\ journal' = IF o = "failed" THEN journal
                  ELSE Marked(proc[Resumer].op, "failed", TRUE)
    /\ Moves(Resumer, "next")
    /\ UNCHANGED <<World, data>>

-----------------------------------------------------------------------------
(* The application stops and starts again.                                   *)

Stopped == [w \in Workers |->
              IF w = Resumer \/ At(w, "idle") THEN Idle ELSE Done]

\* A crash, whatever is under way.
Crash ==
    /\ Fault("failed")
    /\ proc' = Stopped
    /\ UNCHANGED <<checkout, late, known, data, journal>>

\* The user quits and starts the application again.
Resting == \A w \in Workers : proc[w].at \in {"idle", "done"}

Restart ==
    /\ Resting
    /\ At(Resumer, "done")
    /\ proc' = Stopped
    /\ UNCHANGED <<checkout, late, known, data, journal, faults>>

-----------------------------------------------------------------------------
Init ==
    /\ checkout = TRUE
    /\ late = FALSE
    /\ known = TRUE
    /\ files = {}
    /\ rows = FALSE
    /\ journal = [o \in Calls |-> NoEntry]
    /\ proc = [w \in Workers |-> Idle]
    /\ faults = 0

DeleteStep(d) ==
    \/ Decide(d)
    \/ Preflight(d)
    \/ CloseSurface(d, "list")
    \/ Catch(d)
    \/ \E o \in Outcomes :
         \/ MarkInterrupted(d, o)
         \/ ListSessions(d, o)
         \/ BeginDeletion(d, o)
         \/ StopRuntimes(d, o)
         \/ RemoveCheckout(d, o)
         \/ RecordCheckout(d, o)
         \/ RecordFailure(d, o)

ClearStep(c) ==
    \/ CloseSurface(c, "begin")
    \/ \E o \in Outcomes : BeginClear(c, o)

CleanupStep(w) ==
    \/ Purged(w)
    \/ \E o \in Outcomes :
         \/ SyncWorktrees(w, o)
         \/ \E s \in Sessions : PurgeSession(w, s, o)
         \/ StartPurging(w, o)
         \/ ClearProject(w, o)
         \/ Complete(w, o)
         \/ MarkFailed(w, o)

ResumeStep ==
    \/ ResumeNext
    \/ \E o \in Outcomes : ListIncomplete(o) \/ SkipInterrupted(o)

\* What a worker does without being asked by the user.
WorkerStep(w) ==
    \/ w \in Deleters /\ DeleteStep(w)
    \/ w \in Clearers /\ ClearStep(w)
    \/ w = Resumer /\ ResumeStep
    \/ CleanupStep(w)

UserStep ==
    \/ OpenWorkspace
    \/ \E s \in Sessions : NewSession(s)
    \/ CreateAgain
    \/ \E d \in Deleters, o \in Outcomes : Begin(d, o)
    \/ \E c \in Clearers, o \in Outcomes : ListProject(c, o)

Next ==
    \/ UserStep
    \/ \E w \in Workers : WorkerStep(w)
    \/ GitFinishes
    \/ Crash
    \/ Restart

Spec == Init /\ [][Next]_vars

\* Requests are answered or time out, so every worker goes on; and the user
\* starts the application again some day.
Fairness == WF_vars(Restart) /\ \A w \in Workers : WF_vars(WorkerStep(w))

FairSpec == Spec /\ Fairness

-----------------------------------------------------------------------------
(* Properties *)

Entries ==
    [status : {"none", "pending", "checkout_deleted", "purging", "completed",
               "failed"},
     pre : BOOLEAN, sess : SUBSET Sessions]

Places ==
    {"idle", "done", "decide", "interrupted", "preflight", "close", "list",
     "begin", "stop", "git", "sync", "record", "catch", "catch_pre",
     "catch_post", "purge", "update", "project", "complete", "fail", "next",
     "skip"}

\* Places where a worker has an operation.
Working ==
    {"interrupted", "stop", "git", "sync", "record", "catch", "catch_pre",
     "catch_post", "purge", "update", "project", "complete", "fail", "skip"}

WorkerStates ==
    [at : Places, op : Calls \cup {None}, todo : SUBSET Sessions,
     again : BOOLEAN, seen : SUBSET (Calls \X Entries)]

\* Types; whoever works on an operation knows which one it is.
TypeOK ==
    /\ {checkout, late, known, rows} \subseteq BOOLEAN
    /\ files \subseteq Sessions
    /\ journal \in [Calls -> Entries]
    /\ proc \in [Workers -> WorkerStates]
    /\ \A w \in Workers : proc[w].at \in Working => proc[w].op # None
    /\ faults \in 0..MaxFaults

DataGoes == ~(files \subseteq files') \/ (rows /\ ~rows')

\* Deleting a worktree never touches its histories and rows while the checkout
\* still exists: only clearing the project does.  Interrupted, failed and doubled
\* deletions must not be taken for one that has deleted the checkout.
CheckoutGoesFirst ==
    [][DataGoes /\ checkout =>
         \E w \in Workers : proc[w].op \in Clearers /\ proc'[w] # proc[w]]_vars

Resumable(o) == Incomplete(o) /\ ShouldResume(o, journal[o])

\* Once the checkout is gone, the journal holds what is left to do: whatever
\* failed, crashed or was marked as failed by another call, the next start
\* purges the rows and every history that was there when the deletion began.
CleanupIsJournaled ==
    ~checkout /\ (rows \/ files # {}) =>
        \E d \in Deleters : Resumable(d) /\ files \subseteq journal[d].sess

\* A deletion that is recorded as completed has left nothing of the workspace.
CompletedMeansPurged ==
    \A d \in Deleters :
        journal[d].status = "completed" =>
            ~checkout /\ ~known /\ ~rows /\ files = {}

\* "App-data cleanup is pending and will resume automatically": once the
\* checkout is gone, everything is purged and the journal is settled, unless the
\* worktree is created again first.
CleanupCompletes ==
    ~checkout ~> \/ /\ files = {} /\ ~rows
                    /\ \A d \in Deleters : ~Incomplete(d)
                 \/ checkout

\* A clearing that was begun is carried out, at a later start if need be: its
\* call may have failed, even before it knew of the entry it made.
ClearCompletes == \A c \in Clearers : Incomplete(c) ~> ~Incomplete(c)
=============================================================================
