---------------------------- MODULE PromptTurns ----------------------------
(***************************************************************************)
(* The prompt queue of one session closed with the sidecar that runs its   *)
(* turns: AiEngine (crates/comando-ai/src/engine.rs) admits one prompt at  *)
(* a time and passes it to the agent over ACP (acp.rs), the main loop of   *)
(* the sidecar (apps/native-backend/src/lib.rs) writes what a command      *)
(* answers at once and the events of the agent's threads when it comes to  *)
(* them, and the main process reads both from one pipe.                    *)
(*                                                                         *)
(* The session is never closed or deleted here, the main process does not  *)
(* stop, no request times out, and every snapshot reaches the store at     *)
(* once (MaxLag is irrelevant): PromptQueue covers these.  The message that *)
(* the main process echoes after an accepted answer marks the prompt as     *)
(* running just before the answer does, and is left to the answer.          *)
(***************************************************************************)
EXTENDS PromptQueue

CONSTANTS
    Reprepare,   \* may a window prepare a session that is already live?
    LateStatus,  \* may the agent's threads report a waiting status?
    SendsFail,   \* may preparing the session, and sending a prompt, fail?
    CancelsFail, \* may a cancellation fail for a session that exists?
    MaxCommands, \* bound: cancellations are asked for while so few are pending
    MaxEvents,   \* bound: a waiting status is reported while so few are pending
    MaxMisled    \* bound: prompts of which a failure is reported falsely

ASSUME SwitchesAssumption ==
    {Reprepare, LateStatus, SendsFail, CancelsFail} \subseteq BOOLEAN
ASSUME BoundsAssumption == {MaxCommands, MaxEvents, MaxMisled} \subseteq Nat

VARIABLES
    stage,   \* per prompt, how far sendPrompt has come
    prep,    \* how far prepareSession has come
    cmds,    \* commands to the sidecar, in order
    pipe,    \* what the sidecar's main loop wrote, in order
    bg,      \* events of the agent's threads, on their way to the main loop
    session, \* the engine's status of the session
    turn,    \* the prompt in active_prompt_message_ids
    agent,   \* prompts whose ACP request the agent has not answered
    misled   \* history: prompts of which a send, or a cancellation, was answered
             \* as failed after the engine had begun, or ended, their turn

sidecar == <<session, turn, agent>>

channels == <<cmds, pipe, bg>>

turnVars == <<queue, live, flight, steers, disk, lag, used, gone, hold,
              stage, prep, cmds, pipe, bg, session, turn, agent, misled>>

Answers == {"accepted", "busy", "failed"}

\* A prompt that #drain has just dispatched.
Dispatched == {p \in Prompts : flight'[p] > flight[p]}

StagesFollow == stage' = [p \in Prompts |->
                            IF p \in Dispatched THEN "preparing" ELSE stage[p]]

\* What stays as it is when the queue reacts, but for the dispatch it starts.
Elsewhere(vs) == StagesFollow /\ UNCHANGED <<vs, misled>>

-----------------------------------------------------------------------------
(* The main process.  The continuation of an answered request runs before   *)
(* the event loop takes up anything but the rest of the same chunk.          *)

Pending == \E p \in Prompts : stage[p] \in Answers

Quiet == ~Pending /\ prep \in {"none", "asked"}

\* Only what the user can repeat without end is bounded.
Room == Len(cmds) + Len(pipe) + Cardinality(misled) < MaxCommands

\* Bound: the user does not take a prompt up again while an earlier sendPrompt of
\* it is under way, which only the late event of a misled turn makes possible.
TakesUp(p) == stage[p] # "none" => queue.active # None /\ queue.active.id = p

Edits ==
    /\ Quiet
    /\ \/ CancelEdit
       \/ Clear
       \/ \E p \in Prompts :
            \/ Enqueue(p) \/ Remove(p)
            \/ TakesUp(p) /\ (BeginEdit(p) \/ Update(p))
    /\ Elsewhere(<<prep, channels, sidecar>>)

Cancel(steer) == cmds' = Append(cmds, [op |-> "cancel", steer |-> steer])

SteerTurn(p) ==
    /\ Quiet
    /\ Room
    /\ TakesUp(p)
    /\ Steer(p)
    /\ IF steers' > steers THEN Cancel(TRUE) ELSE cmds' = cmds
    /\ Elsewhere(<<prep, pipe, bg, sidecar>>)

StopTurn ==
    /\ Quiet
    /\ Room
    /\ Stop
    /\ Cancel(FALSE)
    /\ Elsewhere(<<prep, pipe, bg, sidecar>>)

\* A window shows the session, or sendPrompt finds it not prepared.
Prepare ==
    /\ Quiet
    /\ prep = "none"
    /\ live = "none" \/ (Reprepare /\ Room)
    /\ prep' = "asked"
    /\ cmds' = Append(cmds, [op |-> "prepare"])
    /\ UNCHANGED <<vars, stage, pipe, bg, sidecar, misled>>

\* #acceptPreparedLiveSnapshot
Prepared ==
    /\ prep \in {"idle", "busy"}
    /\ SessionSnapshot(prep)
    /\ prep' = "none"
    /\ Elsewhere(<<channels, sidecar>>)

\* sendPrompt reaches nativeAi.sendPrompt, or fails before it.
Send(p) ==
    /\ Quiet
    /\ stage[p] = "preparing"
    /\ live # "none"
    /\ stage' = [stage EXCEPT ![p] = "asked"]
    /\ cmds' = Append(cmds, [op |-> "send", id |-> p])
    /\ UNCHANGED <<vars, prep, pipe, bg, sidecar, misled>>

SendFails(p) ==
    /\ SendsFail
    /\ Quiet
    /\ stage[p] = "preparing"
    /\ stage' = [stage EXCEPT ![p] = "failed"]
    /\ UNCHANGED <<vars, prep, channels, sidecar, misled>>

Settle(p) ==
    /\ stage[p] \in Answers
    /\ DispatchSettles(p, stage[p])
    /\ stage' = [stage EXCEPT ![p] = "none"]
    /\ UNCHANGED <<prep, channels, sidecar, misled>>

-----------------------------------------------------------------------------
(* The sidecar's main loop handles one command at a time.                    *)

PreparedAs(status) == [k |-> "prepared", status |-> status]

\* Preparing may fail before the engine looks for the session, when the session
\* does not start, or when it cannot be recorded although the engine has it.
EnginePrepare ==
    /\ cmds # <<>>
    /\ Head(cmds).op = "prepare"
    /\ \/ /\ session' = IF session = "none" THEN "idle" ELSE session
          /\ pipe' = pipe \o <<PreparedAs(session'),
                                   [k |-> "status", status |-> session']>>
       \/ /\ SendsFail
          /\ session' = session \/ (session = "none" /\ session' = "idle")
          /\ pipe' = Append(pipe, PreparedAs("failed"))
    /\ cmds' = Tail(cmds)
    /\ UNCHANGED <<vars, stage, prep, bg, turn, agent, misled>>

Answer(p, outcome) == [k |-> "answer", id |-> p, outcome |-> outcome]

\* Bound: each prompt is misled once, and only so many are.
Misleads(p) ==
    /\ p \notin misled
    /\ Cardinality(misled) < MaxMisled
    /\ misled' = misled \cup {p}

\* begin_prompt
Admits(p) == turn = None

EngineRefuses(p) ==
    /\ ~Admits(p)
    /\ pipe' = Append(pipe, Answer(p, "busy"))
    /\ UNCHANGED <<sidecar, misled>>

\* The prompt is not valid, or the ACP controller does not take it: finish_prompt.
EngineRejects(p) ==
    /\ SendsFail
    /\ session' = session \/ (Admits(p) /\ session' = "error")
    /\ pipe' = Append(pipe, Answer(p, "failed"))
    /\ UNCHANGED <<turn, agent, misled>>

\* The agent has the prompt.  Recording it in the history may fail, and then
\* so does the command, with the turn left running.
EngineStarts(p) ==
    /\ Admits(p)
    /\ turn' = p
    /\ agent' = agent \cup {p}
    /\ session' = "busy"
    /\ \/ /\ pipe' = pipe \o <<[k |-> "status", status |-> "busy"],
                                   Answer(p, "accepted")>>
          /\ misled' = misled
       \/ /\ SendsFail
          /\ pipe' = Append(pipe, Answer(p, "failed"))
          /\ Misleads(p)

EngineSend ==
    /\ cmds # <<>>
    /\ Head(cmds).op = "send"
    /\ LET p == Head(cmds).id
       IN  EngineRefuses(p) \/ EngineRejects(p) \/ EngineStarts(p)
    /\ cmds' = Tail(cmds)
    /\ UNCHANGED <<vars, stage, prep, bg>>

TurnEvent(p, result) == [k |-> "turn", id |-> p, result |-> result]

\* Mutant: a cancelled turn is not reported as settled.
CancelEventsNone(t) == <<>>

CancelEvents(t) == IF t = None THEN <<>> ELSE <<TurnEvent(t, "settled")>>

Cancelled(ok) == [k |-> "cancelled", ok |-> ok, steer |-> Head(cmds).steer]

\* Once the turn is gone, the ACP loop may turn out to have ended, or recording
\* the status may fail: then nothing is said of the turn.
EngineCancel ==
    /\ cmds # <<>>
    /\ Head(cmds).op = "cancel"
    /\ \/ /\ session = "none"
          /\ pipe' = Append(pipe, Cancelled(FALSE))
          /\ UNCHANGED <<session, turn, bg, misled>>
       \/ /\ session # "none"
          /\ session' = "idle"
          /\ turn' = None
          /\ bg' = bg \o CancelEvents(turn)
          /\ pipe' = pipe \o <<Cancelled(TRUE),
                                   [k |-> "status", status |-> "idle"]>>
          /\ misled' = misled
       \/ /\ CancelsFail
          /\ session # "none"
          /\ session' \in {session, "idle"}
          /\ turn' = None
          /\ pipe' = Append(pipe, Cancelled(FALSE))
          /\ IF turn = None THEN misled' = misled ELSE Misleads(turn)
          /\ bg' = bg
    /\ cmds' = Tail(cmds)
    /\ UNCHANGED <<vars, stage, prep, agent>>

-----------------------------------------------------------------------------
(* The agent's threads.                                                      *)

\* run_prompt: the agent answers; finish_prompt fails for a cancelled turn.
AgentFinishes(p, ok) ==
    /\ p \in agent
    /\ agent' = agent \ {p}
    /\ IF turn # p
       THEN UNCHANGED <<session, turn, bg>>
       ELSE /\ turn' = None
            /\ session' = IF ok THEN "idle" ELSE "error"
            /\ bg' = bg \o <<[k |-> "status", status |-> session'],
                             TurnEvent(p, IF ok THEN "settled" ELSE "failed")>>
    /\ UNCHANGED <<vars, stage, prep, cmds, pipe, misled>>

\* The agent asks for a permission or for an answer of the user.
AgentWaits ==
    /\ LateStatus
    /\ agent # {}
    /\ Len(bg) + Len(pipe) + Cardinality(misled) < MaxEvents
    /\ session' = "busy"
    /\ bg' = Append(bg, [k |-> "status", status |-> "busy"])
    /\ UNCHANGED <<vars, stage, prep, cmds, pipe, turn, agent, misled>>

-----------------------------------------------------------------------------
(* The pipe to the main process.                                             *)

\* The bridge thread hands an event to the main loop, which writes it after a
\* command or when no command came for 50 ms.
Drain ==
    /\ bg # <<>>
    /\ pipe' = Append(pipe, Head(bg))
    /\ bg' = Tail(bg)
    /\ UNCHANGED <<vars, stage, prep, cmds, sidecar, misled>>

React(m) ==
    CASE m.k = "status" ->
           /\ StatusEvent(m.status)
           /\ Elsewhere(<<prep>>)
      [] m.k = "turn" ->
           /\ TurnStatus(m.id, m.result)
           /\ Elsewhere(<<prep>>)
      [] m.k = "answer" ->
           /\ stage' = [stage EXCEPT ![m.id] = m.outcome]
           /\ UNCHANGED <<vars, prep, misled>>
      [] m.k = "prepared" ->
           /\ prep' = CASE m.status = "busy" -> "busy"
                        [] m.status = "failed" -> "none"
                        [] OTHER -> "idle"
           /\ UNCHANGED <<vars, stage, misled>>
      [] m.k = "cancelled" ->
           /\ IF m.steer THEN SteerSettles(m.ok) ELSE UNCHANGED vars
           /\ UNCHANGED <<stage, prep, misled>>

Deliver ==
    /\ pipe # <<>>
    /\ React(Head(pipe))
    /\ pipe' = Tail(pipe)
    /\ UNCHANGED <<cmds, bg, sidecar>>

-----------------------------------------------------------------------------
TurnInit ==
    /\ Init
    /\ stage = [p \in Prompts |-> "none"]
    /\ prep = "none"
    /\ cmds = <<>>
    /\ pipe = <<>>
    /\ bg = <<>>
    /\ session = "none"
    /\ turn = None
    /\ agent = {}
    /\ misled = {}

Engine == EnginePrepare \/ EngineSend \/ EngineCancel

TurnNext ==
    \/ Edits
    \/ StopTurn
    \/ Prepare
    \/ Prepared
    \/ Deliver
    \/ Drain
    \/ \E p \in Prompts : SteerTurn(p) \/ Send(p) \/ SendFails(p) \/ Settle(p)
    \/ Engine
    \/ \E p \in Prompts, ok \in BOOLEAN : AgentFinishes(p, ok)
    \/ AgentWaits

TurnSpec == TurnInit /\ [][TurnNext]_turnVars

\* The event loop and the sidecar's threads keep running.  The main loop drains
\* the events after every command, so however many commands arrive, they are
\* written.  A session that a dispatch needs is prepared, and the agent answers
\* every prompt in the end.
Fairness ==
    /\ WF_turnVars(Prepare)
    /\ WF_turnVars(Prepared)
    /\ WF_turnVars(Deliver)
    /\ WF_turnVars(Drain)
    /\ WF_turnVars(Engine)
    /\ \A p \in Prompts :
         /\ WF_turnVars(Send(p))
         /\ WF_turnVars(Settle(p))
         /\ WF_turnVars(\E ok \in BOOLEAN : AgentFinishes(p, ok))

FairTurnSpec == TurnSpec /\ Fairness

-----------------------------------------------------------------------------
(* Properties *)

\* The main process never loses the turn that runs: it is the queue's active
\* prompt until the turn has ended, whatever is cancelled, edited or answered
\* late.  Only a prompt whose send was answered as failed may run without it.
TurnIsActive ==
    turn # None /\ turn \notin misled =>
        queue.active # None /\ queue.active.id = turn

\* The queue sends one prompt at a time: a prompt never reaches the engine
\* while it still runs another, so no user prompt is refused as busy, unless
\* the other, or this one before, was reported as failed while it ran.
EngineNeverRefuses ==
    cmds # <<>> /\ Head(cmds).op = "send" =>
        turn = None \/ {turn, Head(cmds).id} \cap misled # {}

\* Nothing is on its way between the main process and the agent.
AtRest ==
    /\ cmds = <<>> /\ pipe = <<>> /\ bg = <<>>
    /\ agent = {}
    /\ prep = "none"
    /\ \A p \in Prompts : stage[p] = "none"

\* When everything has come to rest, no prompt waits in a queue that was not
\* paused, unless a turn before it failed, the user is editing or a prompt was
\* misreported: nothing would ever send it.
NoStall ==
    /\ AtRest /\ misled = {}
    /\ ~queue.paused /\ queue.editing = None /\ Waiting(queue) # {}
    => \E i \in DOMAIN queue.items : queue.items[i].st = "failed"

\* A prompt in progress is settled in the end, by its turn, by a failure or by
\* a cancellation, unless a failed cancellation took its turn away.
ActiveSettles ==
    \A p \in Prompts :
        (queue.active # None /\ queue.active.id = p)
            ~> (queue.active = None \/ queue.active.id # p \/ p \in misled)

\* "Send now" is not forgotten: once the queue has been told to resume after
\* the turn in progress, it does, unless the user takes it back, or a failed
\* cancellation before took that turn away.
SteerResumes ==
    queue.resume ~>
        (~queue.resume \/ (queue.active # None /\ queue.active.id \in misled))
=============================================================================
