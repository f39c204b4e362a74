----------------------------- MODULE SidecarLoop -----------------------------
(***************************************************************************)
(* The sidecar's main loop (native-backend/src/lib.rs): it takes one        *)
(* command at a time from stdin, and alone writes to stdout.  What other    *)
(* threads have to say comes to it over the bounded background channel:     *)
(* answers of searches, and the events of the AI engine, which a bridge     *)
(* takes from a bounded channel of their own (commands.rs).                 *)
(*                                                                         *)
(* Events of the engine carry numbers, in the order of their emission, that *)
(* stop growing at MaxEvents: an agent may go on for ever.  An output is a  *)
(* batch of one line.  Terminals have a bridge of the same form.            *)
(***************************************************************************)
EXTENDS Naturals, Sequences, FiniteSets

CONSTANT
    AiCapacity,         \* AI_EVENT_CHANNEL_CAPACITY
    BackgroundCapacity, \* BACKGROUND_CHANNEL_CAPACITY
    DrainLimit,         \* BACKGROUND_DRAIN_OUTPUT_LIMIT
    MaxRequests,        \* bound: commands that arrive
    MaxEvents           \* bound: events told apart

ASSUME CapacityAssumption ==
    /\ AiCapacity \in Nat \ {0}
    /\ BackgroundCapacity \in Nat \ {0}
    /\ DrainLimit \in Nat \ {0}

ASSUME BoundAssumption == MaxRequests \in Nat /\ MaxEvents \in Nat \ {0}

VARIABLES
    asked,     \* commands that have arrived
    stdin,     \* those the loop has not taken
    closed,    \* is stdin at its end?
    main,      \* where the loop stands
    command,   \* the command it is at
    drained,   \* outputs written in this drain
    turn,      \* the prompt whose turn the engine knows, or 0
    agents,    \* the prompts agents are at, the cancelled ones included
    emitted,   \* number of the engine's last event
    ai,        \* the channel of the engine's events
    bridge,    \* the event the bridge forwards, or none
    searching, \* searches that run
    background,\* the background channel
    answered,  \* the requests answered on stdout
    heard      \* the last event on stdout

feed == <<asked, stdin, closed>>

engine == <<turn, agents, emitted, ai>>

stdout == <<answered, heard>>

vars == <<asked, stdin, closed, main, command, drained, turn, agents, emitted,
          ai, bridge, searching, background, answered, heard>>

Requests == 1 .. MaxRequests

Kinds == {"plain", "search", "prompt", "cancel", "shutdown"}

Commands == [id : Requests, kind : Kinds]

Nothing == [k |-> "event", n |-> 0, of |-> 0]

Event(n, r) == [k |-> "event", n |-> n, of |-> r]

Answer(r) == [k |-> "answer", n |-> 0, of |-> r]

Outputs == [k : {"event", "answer"}, n : 0 .. MaxEvents, of : 0 .. MaxRequests]

Following(n) == IF n < MaxEvents THEN n + 1 ELSE n

-----------------------------------------------------------------------------
\* write_outputs
Written(output) ==
    IF output.k = "event"
    THEN heard' = output /\ UNCHANGED answered
    ELSE answered' = answered \cup {output.of} /\ UNCHANGED heard

\* A blocking send into the engine's channel, by whatever thread.
Emitted(r) ==
    /\ Len(ai) < AiCapacity
    /\ emitted' = Following(emitted)
    /\ ai' = Append(ai, Event(Following(emitted), r))

\* Mutant: nothing bounds the channel.
QueuedUnbounded(output) == background' = Append(background, output)

\* A blocking send into the background channel.
Queued(output) ==
    /\ Len(background) < BackgroundCapacity
    /\ background' = Append(background, output)

Init ==
    /\ asked = 0
    /\ stdin = <<>>
    /\ closed = FALSE
    /\ main = "waiting"
    /\ command = [id |-> 0, kind |-> "plain"]
    /\ drained = 0
    /\ turn = 0
    /\ agents = {}
    /\ emitted = 0
    /\ ai = <<>>
    /\ bridge = Nothing
    /\ searching = {}
    /\ background = <<>>
    /\ answered = {}
    /\ heard = Nothing

-----------------------------------------------------------------------------
(* The main process and the reader thread.                                   *)

Arrive(kind) ==
    /\ ~closed
    /\ asked < MaxRequests
    /\ asked' = asked + 1
    /\ stdin' = Append(stdin, [id |-> asked', kind |-> kind])
    /\ UNCHANGED <<closed, main, command, drained, engine, bridge, searching,
                   background, stdout>>

EndOfInput ==
    /\ ~closed
    /\ closed' = TRUE
    /\ UNCHANGED <<asked, stdin, main, command, drained, engine, bridge,
                   searching, background, stdout>>

-----------------------------------------------------------------------------
(* The main loop.                                                            *)

Receive ==
    /\ main = "waiting"
    /\ stdin # <<>>
    /\ command' = Head(stdin)
    /\ stdin' = Tail(stdin)
    /\ main' = "working"
    /\ UNCHANGED <<asked, closed, drained, engine, bridge, searching,
                   background, stdout>>

\* recv_timeout gives up after 50 ms.
Idle ==
    /\ main = "waiting"
    /\ stdin = <<>>
    /\ ~closed
    /\ main' = "draining"
    /\ drained' = 0
    /\ UNCHANGED <<feed, command, engine, bridge, searching, background, stdout>>

\* handle_request_background: a search goes to a thread of its own, any
\* other command is carried out here; a prompt begins a turn and a
\* cancellation ends one, and the loop itself sends the turn's status.
Work ==
    /\ main = "working"
    /\ searching' = IF command.kind = "search"
                    THEN searching \cup {command.id} ELSE searching
    /\ \/ /\ command.kind = "prompt" /\ turn = 0
          /\ turn' = command.id
          /\ agents' = agents \cup {command.id}
          /\ main' \in {"sending", "answering"}
       \/ /\ command.kind = "cancel" /\ turn # 0
          /\ turn' = 0
          /\ main' = "sending"
          /\ UNCHANGED agents
       \/ /\ \/ command.kind \in {"plain", "search", "shutdown"}
             \/ command.kind = "prompt" /\ turn # 0
             \/ command.kind = "cancel" /\ turn = 0
          /\ main' = IF command.kind = "search" THEN "draining" ELSE "answering"
          /\ UNCHANGED <<turn, agents>>
    /\ drained' = 0
    /\ UNCHANGED <<feed, command, emitted, ai, bridge, background, stdout>>

\* The loop waits for room in the engine's channel.
SendStatus ==
    /\ main = "sending"
    /\ Emitted(command.id)
    /\ main' = "answering"
    /\ UNCHANGED <<feed, command, drained, turn, agents, bridge, searching,
                   background, stdout>>

\* Mutant: what is waiting is written before the command's own answer.
RespondLast ==
    /\ main = "answering"
    /\ IF background = <<>>
       THEN /\ Written(Answer(command.id))
            /\ main' = "draining"
            /\ UNCHANGED background
       ELSE /\ Written(Head(background))
            /\ background' = Tail(background)
            /\ UNCHANGED main
    /\ UNCHANGED <<feed, command, drained, engine, bridge, searching>>

Respond ==
    /\ main = "answering"
    /\ Written(Answer(command.id))
    /\ main' = "draining"
    /\ UNCHANGED <<feed, command, drained, engine, bridge, searching, background>>

\* Mutant: nothing bounds a drain.
DrainWithoutLimit ==
    /\ main = "draining"
    /\ IF background = <<>>
       THEN /\ main' = IF command.kind = "shutdown" THEN "ended" ELSE "waiting"
            /\ UNCHANGED <<drained, background, stdout>>
       ELSE /\ background' = Tail(background)
            /\ Written(Head(background))
            /\ UNCHANGED <<main, drained>>
    /\ UNCHANGED <<feed, command, engine, bridge, searching>>

\* write_background_outputs: the batch that is taken when the limit has been
\* reached is dropped.
Drain ==
    /\ main = "draining"
    /\ IF background # <<>> /\ drained < DrainLimit
       THEN /\ background' = Tail(background)
            /\ drained' = drained + 1
            /\ Written(Head(background))
            /\ UNCHANGED main
       ELSE /\ background' = IF background = <<>> THEN background ELSE Tail(background)
            /\ main' = IF command.kind = "shutdown" THEN "ended" ELSE "waiting"
            /\ UNCHANGED <<drained, stdout>>
    /\ UNCHANGED <<feed, command, engine, bridge, searching>>

\* InputMessage::Eof: everything that is waiting is written, then the loop ends.
Flush ==
    /\ main \in {"waiting", "flushing"}
    /\ stdin = <<>>
    /\ closed
    /\ IF background = <<>>
       THEN main' = "ended" /\ UNCHANGED <<background, stdout>>
       ELSE /\ main' = "flushing"
            /\ background' = Tail(background)
            /\ Written(Head(background))
    /\ UNCHANGED <<feed, command, drained, engine, bridge, searching>>

-----------------------------------------------------------------------------
(* The other threads; they end with the process.                             *)

AgentEmits(r) ==
    /\ main # "ended"
    /\ r \in agents
    /\ Emitted(r)
    /\ UNCHANGED <<feed, main, command, drained, turn, agents, bridge, searching,
                   background, stdout>>

\* finish_prompt; the events that report it follow.
AgentFinishes(r) ==
    /\ main # "ended"
    /\ turn = r /\ r # 0
    /\ turn' = 0
    /\ UNCHANGED <<feed, main, command, drained, agents, emitted, ai, bridge,
                   searching, background, stdout>>

AgentEnds(r) ==
    /\ main # "ended"
    /\ r \in agents /\ turn # r
    /\ agents' = agents \ {r}
    /\ UNCHANGED <<feed, main, command, drained, turn, emitted, ai, bridge,
                   searching, background, stdout>>

BridgeTakes ==
    /\ main # "ended"
    /\ bridge = Nothing
    /\ ai # <<>>
    /\ bridge' = Head(ai)
    /\ ai' = Tail(ai)
    /\ UNCHANGED <<feed, main, command, drained, turn, agents, emitted, searching,
                   background, stdout>>

BridgeSends ==
    /\ main # "ended"
    /\ bridge # Nothing
    /\ Queued(bridge)
    /\ bridge' = Nothing
    /\ UNCHANGED <<feed, main, command, drained, engine, searching, stdout>>

\* spawn_search_project_entries
SearchEnds(r) ==
    /\ main # "ended"
    /\ r \in searching
    /\ Queued(Answer(r))
    /\ searching' = searching \ {r}
    /\ UNCHANGED <<feed, main, command, drained, engine, bridge, stdout>>

-----------------------------------------------------------------------------
Loop == Receive \/ Idle \/ Work \/ SendStatus \/ Respond \/ Drain \/ Flush

Threads ==
    \/ BridgeTakes
    \/ BridgeSends
    \/ \E r \in Requests :
          AgentEmits(r) \/ AgentFinishes(r) \/ AgentEnds(r) \/ SearchEnds(r)

Next == Loop \/ Threads \/ EndOfInput \/ \E kind \in Kinds : Arrive(kind)

Spec == Init /\ [][Next]_vars

\* The threads are scheduled, and a search ends.  An agent owes nothing: it may
\* be silent, or emit for ever.
Fairness ==
    /\ WF_vars(Loop)
    /\ WF_vars(BridgeTakes)
    /\ WF_vars(BridgeSends)
    /\ \A r \in Requests : WF_vars(SearchEnds(r))

FairSpec == Spec /\ Fairness

-----------------------------------------------------------------------------
(* Properties *)

TypeOK ==
    /\ asked \in 0 .. MaxRequests
    /\ stdin \in Seq(Commands)
    /\ closed \in BOOLEAN
    /\ main \in {"waiting", "working", "sending", "answering", "draining",
                  "flushing", "ended"}
    /\ command.id \in 0 .. MaxRequests /\ command.kind \in Kinds
    /\ drained \in 0 .. DrainLimit
    /\ turn \in 0 .. MaxRequests
    /\ agents \subseteq Requests
    /\ emitted \in 0 .. MaxEvents
    /\ ai \in Seq(Outputs) /\ Len(ai) <= AiCapacity
    /\ bridge \in Outputs
    /\ searching \subseteq Requests
    /\ background \in Seq(Outputs) /\ Len(background) <= BackgroundCapacity
    /\ answered \subseteq Requests
    /\ heard \in Outputs

\* The main process hears of what a command has caused only after it has the
\* command's answer, though events and answer come from different threads; and
\* whatever is lost on the way, the engine's events reach it in the order they
\* were emitted, though the loop and the agents both emit them.
HeardInOrder ==
    [][/\ heard'.of \in answered' \cup {0}
       /\ heard'.n >= heard.n]_vars

\* The loop has come past command r.
Passed(r) ==
    \/ main = "ended"
    \/ command.id > r
    \/ command.id = r /\ main \in {"waiting", "flushing"}

\* However much the agents have to say, the loop comes to every command and past
\* it, unless it stands still in a send of its own.
CommandsServed ==
    []<>(main # "sending") => \A r \in Requests : asked >= r ~> Passed(r)

\* No event is lost between the engine and the main process.
NoEventIsLost == [][heard'.n # heard.n => heard'.n = heard.n + 1]_vars
=============================================================================
