-------------------------- MODULE TerminalSessions --------------------------
(***************************************************************************)
(* One terminal tab, from the store that shows it to the process behind    *)
(* it: the renderer's store asks for a session under the tab's id and      *)
(* asks to close it, the native service keeps at most one session under    *)
(* that id, and three threads serve a session on their own: a reader that  *)
(* takes what the process prints, a monitor that waits for its end, and a  *)
(* coalescer that passes both on to the renderer.                          *)
(*                                                                         *)
(* Calls are answered in the order in which they were made.  Events take   *)
(* another way (background queue, event callback, frame batching): those   *)
(* of one session keep their order, those of different sessions, and       *)
(* events and answers, overtake each other.                                *)
(*                                                                         *)
(* Left out: writing and resizing, which no property is about; the Created *)
(* and Closed events, which the main process ignores; the limits of 256 K  *)
(* characters and of 256 retired ids; a failing read, poll or lock; how a  *)
(* closed session's process and threads end, which nobody sees.            *)
(***************************************************************************)
EXTENDS Integers, Sequences, SequencesExt

CONSTANTS
  MaxSessions,  \* sessions the native service may create
  MaxOutput,    \* chunks one session may print
  MaxActivity,  \* acts of the user and the surface, and chunks, in all
  MaxReloads    \* times the surface may be torn down and built again

ASSUME TerminalBounds ==
  /\ MaxSessions \in Nat \ {0}
  /\ MaxOutput \in Nat
  /\ MaxActivity \in Nat
  /\ MaxReloads \in Nat

Sessions == 1 .. MaxSessions
NoSession == 0

Versions == Nat     \* 0: the tab has no version
Chunks == 1 .. MaxOutput

Statuses == {"starting", "running", "exited", "error"}

VARIABLES
  (* the native service *)
  created,     \* how many sessions were ever created
  registered,  \* the sessions the registry holds
  owner,       \* the session the registry finds under the terminal's id
  status,      \* a session's snapshot: "running" or "exited"
  closed,      \* a session's flag that tells its threads to stop
  taken,       \* how many chunks of its output the reader has taken
  holding,     \* the sessions whose reader has a chunk in hand
  monitor,     \* "none", "watching", "removing", "reporting", "done"
  pending,     \* what the coalescer holds back of a session
  (* between the two *)
  events,      \* a session's events on their way: chunks, and Exit
  requests,    \* the renderer's calls, not yet served
  answers,     \* the answers, not yet received
  (* the renderer *)
  runtime,     \* the tab's runtime, or NoRuntime
  version,     \* the version of the last creation asked for
  nextVersion,
  retired,     \* the sessions the store has closed or given up
  unclaimed,   \* output of sessions the tab does not hold (yet)
  ended,       \* sessions whose exit came while the tab did not hold them
  shown,       \* what the viewport was given since it was last cleared
  visible,     \* the surface is shown: the only time it listens to events
  reloads,
  steps,
  (* history *)
  lost,        \* chunks that reached no viewport, or one since torn down
  heard,       \* sessions whose exit the store was told and took, and which
               \* no list has brought back since
  early        \* sessions a list gave to a tab that awaited their creation,
               \* since the surface was built

native == <<created, registered, owner, status, closed,
            taken, holding, monitor, pending>>
store == <<runtime, version, nextVersion, retired, unclaimed, ended, shown>>
vars == <<native, events, requests, answers, store, visible, reloads, steps,
          lost, heard, early>>

Exit == MaxOutput + 1

NoRuntime == [session |-> NoSession, busy |-> FALSE, status |-> "none"]
Starting == [session |-> NoSession, busy |-> TRUE, status |-> "starting"]

Request == [op : {"create", "close", "list"}, session : Sessions \cup {NoSession},
            version : Versions, recreate : BOOLEAN, epoch : 0 .. MaxReloads]
Answer == [op : {"created", "failed", "closed", "listed"},
           session : Sessions \cup {NoSession}, version : Versions,
           recreate : BOOLEAN, status : Statuses]

Init ==
  /\ created = 0 /\ registered = {} /\ owner = NoSession
  /\ status = [s \in Sessions |-> "running"]
  /\ closed = [s \in Sessions |-> FALSE]
  /\ taken = [s \in Sessions |-> 0]
  /\ holding = {}
  /\ monitor = [s \in Sessions |-> "none"]
  /\ pending = [s \in Sessions |-> << >>]
  /\ events = [s \in Sessions |-> << >>]
  /\ requests = << >> /\ answers = << >>
  /\ runtime = NoRuntime
  /\ version = 0 /\ nextVersion = 1
  /\ retired = {} /\ ended = {}
  /\ unclaimed = [s \in Sessions |-> << >>]
  /\ shown = << >>
  /\ visible = TRUE /\ reloads = 0 /\ steps = 0
  /\ lost = [s \in Sessions |-> {}] /\ heard = {} /\ early = {}

-----------------------------------------------------------------------------
(* The renderer's store: what its operations are made of.                  *)

Call(op, s, v, again) ==
  [op |-> op, session |-> s, version |-> v, recreate |-> again, epoch |-> reloads]

(* Mutant: the version is not advanced.                                    *)
AskForSessionAgain ==
  /\ version' = nextVersion
  /\ nextVersion' = nextVersion
  /\ requests' = Append(requests, Call("create", NoSession, nextVersion, FALSE))

(* createSessionForTerminal up to its await: a version of its own, the     *)
(* request under the terminal's id.                                        *)
AskForSession ==
  /\ version' = nextVersion
  /\ nextVersion' = nextVersion + 1
  /\ requests' = Append(requests, Call("create", NoSession, nextVersion, FALSE))

(* collectSessionIdsToClose and closeSessionIds: what is held of the       *)
(* session is dropped, and it is closed, once.                             *)
GiveUp(s, again) ==
  /\ retired' = retired \cup {s}
  /\ unclaimed' = [unclaimed EXCEPT ![s] = << >>]
  /\ ended' = ended \ {s}
  /\ requests' = Append(requests, Call("close", s, 0, again))

ShownOf(s) == {shown[i].chunk : i \in {j \in DOMAIN shown : shown[j].session = s}}

ClearViewport ==
  /\ shown' = << >>
  /\ lost' = [s \in Sessions |-> lost[s] \cup ShownOf(s)]

Write(s, chunks) ==
  shown' = shown \o [i \in DOMAIN chunks |-> [session |-> s, chunk |-> chunks[i]]]

(* Acts of the user, and of the surface, while it is shown.                *)
Act ==
  /\ visible
  /\ steps < MaxActivity
  /\ steps' = steps + 1
  /\ UNCHANGED <<native, events, heard>>

(* The tab is active: its terminal gets a runtime, or a runtime that       *)
(* failed to start is started again.                                       *)
EnsureTerminal ==
  /\ Act
  /\ runtime.session = NoSession /\ ~runtime.busy
  /\ runtime' = Starting
  /\ AskForSession
  /\ UNCHANGED <<answers, retired, unclaimed, ended, shown, visible, reloads, lost,
                 early>>

(* The viewport is cleared, the old session closed and, when that is       *)
(* answered, a new one asked for; at once when there is none to close.     *)
Restart ==
  /\ Act
  /\ runtime # NoRuntime
  /\ runtime' = Starting
  /\ ClearViewport
  /\ IF runtime.session \notin retired \cup {NoSession}
       THEN /\ GiveUp(runtime.session, TRUE)
            /\ UNCHANGED <<version, nextVersion>>
       ELSE /\ AskForSession
            /\ UNCHANGED <<retired, unclaimed, ended>>
  /\ UNCHANGED <<answers, visible, reloads, early>>

(* The tab is gone.                                                        *)
CloseTerminal ==
  /\ Act
  /\ runtime # NoRuntime
  /\ runtime' = NoRuntime
  /\ version' = 0
  /\ nextVersion' = nextVersion + 1
  /\ ClearViewport
  /\ IF runtime.session \notin retired \cup {NoSession}
       THEN GiveUp(runtime.session, FALSE)
       ELSE UNCHANGED <<retired, unclaimed, ended, requests>>
  /\ UNCHANGED <<answers, visible, reloads, early>>

(* The surface goes out of sight and stops listening.                      *)
Hide ==
  /\ Act
  /\ visible' = FALSE
  /\ UNCHANGED <<requests, answers, store, reloads, lost, early>>

(* It comes back and asks for the sessions its owner has.                  *)
Show ==
  /\ ~visible
  /\ visible' = TRUE
  /\ requests' = Append(requests, Call("list", NoSession, 0, FALSE))
  /\ UNCHANGED <<native, events, answers, store, reloads, steps, lost, heard, early>>

(* The surface is torn down and built again under the same owner: the      *)
(* store starts empty, no answer reaches it, the sessions live on.         *)
Reload ==
  /\ Act
  /\ reloads < MaxReloads
  /\ reloads' = reloads + 1
  /\ answers' = << >>
  /\ runtime' = NoRuntime
  /\ version' = 0 /\ nextVersion' = 1
  /\ retired' = {} /\ ended' = {}
  /\ unclaimed' = [s \in Sessions |-> << >>]
  /\ shown' = << >>
  /\ lost' = [s \in Sessions |->
                IF s \in retired THEN Chunks
                ELSE lost[s] \cup ShownOf(s) \cup ToSet(unclaimed[s])]
  /\ early' = {}
  /\ UNCHANGED <<requests, visible>>

-----------------------------------------------------------------------------
(* The native service: a request is served as a whole by the main loop.    *)

Reply(op, s, req, st) ==
  answers' = IF req.epoch # reloads THEN answers
             ELSE Append(answers, [op |-> op, session |-> s, version |-> req.version,
                                   recreate |-> req.recreate, status |-> st])

(* Mutant: the index entry goes whosever it is.                            *)
UnregisterAnyone(s) ==
  /\ registered' = registered \ {s}
  /\ owner' = NoSession

(* What remove_session_from_state does: the index entry goes only if it is *)
(* this session's.                                                         *)
Unregister(s) ==
  /\ registered' = registered \ {s}
  /\ owner' = IF owner = s THEN NoSession ELSE owner

(* create_session finds the session of this terminal and returns it as it  *)
(* is, the one whose process has just ended included.                      *)
ServeReuse(req) ==
  /\ req.op = "create"
  /\ owner \in registered
  /\ Reply("created", owner, req, status[owner])
  /\ UNCHANGED native

(* It finds none and starts a process and the two threads that watch it.   *)
ServeCreate(req) ==
  /\ req.op = "create"
  /\ owner \notin registered
  /\ created < MaxSessions
  /\ LET s == created + 1
     IN /\ created' = s
        /\ registered' = registered \cup {s}
        /\ owner' = s
        /\ monitor' = [monitor EXCEPT ![s] = "watching"]
        /\ Reply("created", s, req, "running")
  /\ UNCHANGED <<status, closed, taken, holding, pending>>

(* It cannot: no working directory, no pty, no program.                    *)
ServeFailure(req) ==
  /\ req.op = "create"
  /\ owner \notin registered
  /\ owner' = NoSession
  /\ Reply("failed", NoSession, req, "error")
  /\ UNCHANGED <<created, registered, status, closed, taken,
                 holding, monitor, pending>>

(* close_handle, or nothing when the registry has no such session.         *)
ServeClose(req) ==
  /\ req.op = "close"
  /\ IF req.session \in registered
       THEN /\ Unregister(req.session)
            /\ closed' = [closed EXCEPT ![req.session] = TRUE]
       ELSE UNCHANGED <<registered, owner, closed>>
  /\ Reply("closed", req.session, req, "exited")
  /\ UNCHANGED <<created, status, taken, holding, monitor, pending>>

ServeList(req) ==
  /\ req.op = "list"
  /\ IF registered = {}
       THEN Reply("listed", NoSession, req, "exited")
       ELSE \E s \in registered : Reply("listed", s, req, status[s])
  /\ UNCHANGED native

Serve ==
  /\ requests # << >>
  /\ requests' = Tail(requests)
  /\ LET req == Head(requests)
     IN \/ ServeReuse(req) \/ ServeCreate(req) \/ ServeFailure(req)
        \/ ServeClose(req) \/ ServeList(req)
  /\ UNCHANGED <<events, store, visible, reloads, steps, lost, heard, early>>

-----------------------------------------------------------------------------
(* A session's process and its threads.                                    *)

elsewhere == <<created, requests, answers, store, visible, reloads, steps, lost, heard, early>>

(* The reader takes a chunk the process has printed, unless the session is *)
(* closed; of an ended process too.                                        *)
ReaderReads(s) ==
  /\ s \notin holding /\ ~closed[s]
  /\ monitor[s] # "none" /\ taken[s] < MaxOutput
  /\ steps < MaxActivity
  /\ steps' = steps + 1
  /\ taken' = [taken EXCEPT ![s] = @ + 1]
  /\ holding' = holding \cup {s}
  /\ UNCHANGED <<created, requests, answers, store, visible, reloads, lost,
                 heard, early, registered, owner, status, closed, monitor,
                 pending, events>>

(* It hands the chunk over, whatever has happened since it looked.         *)
ReaderSends(s) ==
  /\ s \in holding
  /\ holding' = holding \ {s}
  /\ pending' = [pending EXCEPT ![s] = Append(@, taken[s])]
  /\ UNCHANGED <<elsewhere, registered, owner, status, closed, taken,
                 monitor, events>>

(* The monitor finds that the process has ended, of itself, at some time   *)
(* before, and the session is not closed.                                  *)
MonitorPolls(s) ==
  /\ monitor[s] = "watching"
  /\ ~closed[s]
  /\ monitor' = [monitor EXCEPT ![s] = "removing"]
  /\ status' = [status EXCEPT ![s] = "exited"]
  /\ UNCHANGED <<elsewhere, registered, owner, closed, taken,
                 holding, pending, events>>

MonitorRemoves(s) ==
  /\ monitor[s] = "removing"
  /\ Unregister(s)
  /\ closed' = [closed EXCEPT ![s] = TRUE]
  /\ monitor' = [monitor EXCEPT ![s] = "reporting"]
  /\ UNCHANGED <<elsewhere, status, taken, holding, pending, events>>

(* Mutant: the exit does not wait for what the coalescer holds.            *)
MonitorReportsAtOnce(s) ==
  /\ monitor[s] = "reporting"
  /\ monitor' = [monitor EXCEPT ![s] = "done"]
  /\ events' = [events EXCEPT ![s] = Append(@, Exit)]
  /\ UNCHANGED <<elsewhere, registered, owner, status, closed, taken,
                 holding, pending>>

(* The exit leaves the coalescer behind everything it held of the session. *)
MonitorReports(s) ==
  /\ monitor[s] = "reporting"
  /\ monitor' = [monitor EXCEPT ![s] = "done"]
  /\ events' = [events EXCEPT ![s] = @ \o pending[s] \o <<Exit>>]
  /\ pending' = [pending EXCEPT ![s] = << >>]
  /\ UNCHANGED <<elsewhere, registered, owner, status, closed, taken,
                 holding>>

(* The coalescer's interval is over, or its buffer full.                   *)
Flush(s) ==
  /\ pending[s] # << >>
  /\ events' = [events EXCEPT ![s] = @ \o pending[s]]
  /\ pending' = [pending EXCEPT ![s] = << >>]
  /\ UNCHANGED <<elsewhere, registered, owner, status, closed, taken,
                 holding, monitor>>

-----------------------------------------------------------------------------
(* The renderer receives.                                                  *)

Receives == UNCHANGED <<native, requests, answers, version, nextVersion, retired,
                        visible, reloads, steps, early>>

(* An event of a surface that does not listen reaches nobody; one of a     *)
(* session the store has given up is dropped.                              *)
Unheard(s) == ~visible \/ s \in retired

(* handleTerminalOutput                                                    *)
ReceiveOutput(s) ==
  /\ events[s] # << >> /\ Head(events[s]) # Exit
  /\ events' = [events EXCEPT ![s] = Tail(@)]
  /\ LET chunk == Head(events[s])
     IN \/ /\ Unheard(s)
           /\ lost' = IF s \in retired THEN lost
                      ELSE [lost EXCEPT ![s] = @ \cup {chunk}]
           /\ UNCHANGED <<shown, unclaimed>>
        \/ /\ ~Unheard(s) /\ runtime.session = s
           /\ Write(s, <<chunk>>)
           /\ UNCHANGED <<lost, unclaimed>>
        \/ /\ ~Unheard(s) /\ runtime.session # s
           /\ unclaimed' = [unclaimed EXCEPT ![s] = Append(@, chunk)]
           /\ UNCHANGED <<lost, shown>>
  /\ Receives /\ UNCHANGED <<runtime, ended, heard>>

(* handleTerminalExited                                                    *)
ReceiveExit(s) ==
  /\ events[s] # << >> /\ Head(events[s]) = Exit
  /\ events' = [events EXCEPT ![s] = Tail(@)]
  /\ \/ /\ Unheard(s)
        /\ UNCHANGED <<runtime, ended, heard>>
     \/ /\ ~Unheard(s) /\ runtime.session = s
        /\ runtime' = [runtime EXCEPT !.busy = FALSE, !.status = "exited"]
        /\ heard' = heard \cup {s}
        /\ UNCHANGED ended
     \/ /\ ~Unheard(s) /\ runtime.session # s
        /\ ended' = ended \cup {s}
        /\ heard' = heard \cup {s}
        /\ UNCHANGED runtime
  /\ Receives /\ UNCHANGED <<unclaimed, shown, lost>>

(* Mutant: the session of a creation that is no longer the last is left.   *)
ReceiveStaleAndLeave(a) ==
  /\ a.op = "created"
  /\ runtime = NoRuntime \/ version # a.version
  /\ UNCHANGED <<runtime, version, nextVersion, retired, unclaimed, ended, shown,
                 requests>>

(* The answer of a creation that is no longer the last one: the session is *)
(* given up.                                                               *)
ReceiveStale(a) ==
  /\ a.op = "created"
  /\ runtime = NoRuntime \/ version # a.version
  /\ IF a.session \in retired
       THEN UNCHANGED <<retired, unclaimed, ended, requests>>
       ELSE GiveUp(a.session, FALSE)
  /\ UNCHANGED <<runtime, version, nextVersion, shown>>

(* Mutants: what came of the session before its id is thrown away; its     *)
(* exit is.                                                                *)
ReceiveCreatedAfresh(a) ==
  /\ a.op = "created"
  /\ runtime # NoRuntime /\ version = a.version
  /\ runtime' = [session |-> a.session, busy |-> FALSE,
                 status |-> IF a.session \in ended THEN "exited" ELSE a.status]
  /\ unclaimed' = [unclaimed EXCEPT ![a.session] = << >>]
  /\ ended' = ended \ {a.session}
  /\ UNCHANGED <<retired, shown, version, nextVersion, requests>>

ReceiveCreatedAlive(a) ==
  /\ a.op = "created"
  /\ runtime # NoRuntime /\ version = a.version
  /\ runtime' = [session |-> a.session, busy |-> FALSE, status |-> a.status]
  /\ Write(a.session, unclaimed[a.session])
  /\ unclaimed' = [unclaimed EXCEPT ![a.session] = << >>]
  /\ ended' = ended \ {a.session}
  /\ UNCHANGED <<retired, version, nextVersion, requests>>

(* The tab takes the session, with what came of it so far.                 *)
ReceiveCreated(a) ==
  /\ a.op = "created"
  /\ runtime # NoRuntime /\ version = a.version
  /\ runtime' = [session |-> a.session, busy |-> FALSE,
                 status |-> IF a.session \in ended THEN "exited" ELSE a.status]
  /\ Write(a.session, unclaimed[a.session])
  /\ unclaimed' = [unclaimed EXCEPT ![a.session] = << >>]
  /\ ended' = ended \ {a.session}
  /\ UNCHANGED <<retired, version, nextVersion, requests>>

ReceiveFailure(a) ==
  /\ a.op = "failed"
  /\ runtime' = IF runtime # NoRuntime /\ version = a.version
                  THEN [runtime EXCEPT !.busy = FALSE, !.status = "error"]
                  ELSE runtime
  /\ UNCHANGED <<retired, unclaimed, ended, shown, version, nextVersion, requests>>

(* The old session of a restart is closed: now the new one is asked for.   *)
ReceiveClosed(a) ==
  /\ a.op = "closed"
  /\ IF a.recreate THEN AskForSession
                   ELSE UNCHANGED <<version, nextVersion, requests>>
  /\ UNCHANGED <<runtime, retired, unclaimed, ended, shown>>

(* resyncSessions: what the list has of the tab's terminal is taken over,  *)
(* and a terminal the list does not have is left as it was.                *)
ReceiveList(a) ==
  /\ a.op = "listed"
  /\ runtime' = IF runtime # NoRuntime /\ a.session # NoSession
                  THEN [session |-> a.session, busy |-> FALSE, status |-> a.status]
                  ELSE runtime
  /\ UNCHANGED <<retired, unclaimed, ended, shown, version, nextVersion, requests>>

ReceiveAnswer ==
  /\ answers # << >>
  /\ answers' = Tail(answers)
  /\ LET a == Head(answers)
     IN /\ \/ ReceiveStale(a) \/ ReceiveCreated(a) \/ ReceiveFailure(a)
           \/ ReceiveClosed(a) \/ ReceiveList(a)
        /\ heard' = IF a.op = "listed" THEN heard \ {a.session} ELSE heard
        /\ early' = IF a.op = "listed" /\ runtime.busy
                     THEN early \cup {a.session} ELSE early
  /\ UNCHANGED <<native, events, visible, reloads, steps, lost>>

-----------------------------------------------------------------------------
Threads(s) ==
  \/ ReaderReads(s) \/ ReaderSends(s)
  \/ MonitorPolls(s) \/ MonitorRemoves(s) \/ MonitorReports(s) \/ Flush(s)

Receive(s) == ReceiveOutput(s) \/ ReceiveExit(s)

Next ==
  \/ EnsureTerminal \/ Restart \/ CloseTerminal
  \/ Hide \/ Show \/ Reload
  \/ Serve \/ ReceiveAnswer
  \/ \E s \in Sessions :
       Threads(s) \/ Receive(s)

Spec == Init /\ [][Next]_vars

(* The main loop serves, the threads run and the renderer receives; the    *)
(* user, the surface and the processes need not do anything.               *)
FairSpec ==
  /\ Spec
  /\ WF_vars(Serve) /\ WF_vars(ReceiveAnswer)
  /\ \A s \in Sessions :
       /\ WF_vars(MonitorRemoves(s))
       /\ WF_vars(MonitorReports(s)) /\ WF_vars(Flush(s)) /\ WF_vars(Receive(s))

-----------------------------------------------------------------------------
(* Every variable has the values the code gives it.                        *)
TypeOK ==
  /\ created \in 0 .. MaxSessions
  /\ registered \subseteq 1 .. created
  /\ owner \in 0 .. created
  /\ status \in [Sessions -> {"running", "exited"}]
  /\ closed \in [Sessions -> BOOLEAN]
  /\ taken \in [Sessions -> 0 .. MaxOutput]
  /\ holding \subseteq 1 .. created
  /\ monitor \in [Sessions -> {"none", "watching", "removing", "reporting", "done"}]
  /\ \A s \in Sessions : /\ pending[s] \in Seq(Chunks)
                         /\ events[s] \in Seq(Chunks \cup {Exit})
                         /\ unclaimed[s] \in Seq(Chunks)
                         /\ lost[s] \subseteq Chunks
  /\ requests \in Seq(Request) /\ answers \in Seq(Answer)
  /\ runtime \in [session : Sessions \cup {NoSession}, busy : BOOLEAN,
                  status : Statuses \cup {"none"}]
  /\ version \in 0 .. nextVersion - 1 /\ nextVersion \in Nat \ {0}
  /\ retired \subseteq 1 .. created /\ ended \subseteq 1 .. created
  /\ heard \subseteq 1 .. created /\ early \subseteq 0 .. created
  /\ shown \in Seq([session : Sessions, chunk : Chunks])
  /\ visible \in BOOLEAN /\ reloads \in 0 .. MaxReloads /\ steps \in 0 .. MaxActivity

(* The service never has two sessions for one terminal, and can find the   *)
(* one it has under the terminal's id, although the monitor of an ended    *)
(* session removes it at a time of its own, after the user has closed it   *)
(* and opened the next one.                                                *)
OneSessionPerTerminal == registered \subseteq {owner}

(* What a viewport shows of a session is what the process printed, in      *)
(* order, once, and without a gap that a hidden surface or a torn down     *)
(* viewport does not explain.                                              *)
ShownInOrder(j) ==
  LET s == shown[j].session
      before == {shown[i].chunk : i \in {k \in 1 .. j - 1 : shown[k].session = s}}
  IN /\ \A c \in before : c < shown[j].chunk
     /\ 1 .. shown[j].chunk - 1 \subseteq before \cup lost[s]

(* A viewport shows a session's output whole and in order, whether it came *)
(* before or after the tab learned its session's id from the answer of its *)
(* creation; not, if a list gave the tab the session before that.          *)
OutputInOrder ==
  \A j \in DOMAIN shown : shown[j].session \notin early => ShownInOrder(j)

(* The end of a session is kept until the tab holds the session: a         *)
(* terminal is not shown as running once the store was told of its end,    *)
(* unless the store has given that session up itself, or a list has given  *)
(* the tab some session before the answer of its creation did.             *)
EndIsNotForgotten ==
  early = {} /\ runtime.session \in heard \ retired => runtime.status = "exited"

(* Behind a session's exit there is at most the one chunk the reader had   *)
(* in hand when the session was marked closed.                             *)
LittleFollowsTheExit ==
  \A s \in Sessions :
    \A i \in DOMAIN events[s] :
      events[s][i] = Exit => Len(events[s]) + Len(pending[s]) <= i + 1

(* A session is the tab's or it is closed: none is left running that no    *)
(* tab holds, unless the surface was torn down and the tab not reopened.   *)
NoSessionIsForgotten ==
  \A s \in Sessions :
    s \in registered ~> \/ s \notin registered
                        \/ runtime.session = s
                        \/ reloads > 0 /\ runtime = NoRuntime

=============================================================================
