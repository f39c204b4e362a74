------------------------- MODULE SidecarLoopProofs -------------------------
(***************************************************************************)
(* Theorems about SidecarLoop, for channels of any size, any drain limit   *)
(* and any number of commands and events.                                  *)
(*                                                                         *)
(* That the main process hears of things in order rests on two facts about *)
(* everything an event passes: whatever is in a channel, in the bridge's   *)
(* hand or still to come from an agent was caused by a command that is     *)
(* answered or that the loop is at; and the numbers never fall from stdout *)
(* back to the engine, whatever the loop drops on the way.                 *)
(***************************************************************************)
EXTENDS SidecarLoop, SequenceTheorems, TLAPS

-----------------------------------------------------------------------------
(* Sequences *)

LEMMA AppendAt ==
  ASSUME NEW S, NEW q \in Seq(S), NEW e \in S
  PROVE  /\ Len(q) \in Nat /\ DOMAIN q = 1 .. Len(q)
         /\ Append(q, e) \in Seq(S)
         /\ Len(Append(q, e)) = Len(q) + 1
         /\ DOMAIN Append(q, e) = 1 .. Len(q) + 1
         /\ \A i \in 1 .. Len(q) : Append(q, e)[i] = q[i]
         /\ Append(q, e)[Len(q) + 1] = e
OBVIOUS

LEMMA TailAt ==
  ASSUME NEW S, NEW q \in Seq(S), q # << >>
  PROVE  /\ Len(q) \in Nat \ {0} /\ DOMAIN q = 1 .. Len(q)
         /\ Head(q) = q[1] /\ Head(q) \in S
         /\ Tail(q) \in Seq(S)
         /\ Len(Tail(q)) = Len(q) - 1
         /\ DOMAIN Tail(q) = 1 .. Len(q) - 1
         /\ \A i \in 1 .. Len(q) - 1 : Tail(q)[i] = q[i + 1]
OBVIOUS

-----------------------------------------------------------------------------
(* Types.  A command that is carried out has arrived; an answer is that of  *)
(* a command.                                                               *)

Events == {o \in Outputs : o.k = "event"}

Sent == {o \in Outputs : o.k = "answer" => o.of \in Requests}

Busy == main \in {"working", "sending", "answering"}

InputTyped ==
    /\ asked \in 0 .. MaxRequests
    /\ stdin \in Seq(Commands)
    /\ closed \in BOOLEAN

LoopTyped ==
    /\ main \in {"waiting", "working", "sending", "answering", "draining",
                  "flushing", "ended"}
    /\ command \in [id : 0 .. MaxRequests, kind : Kinds]
    /\ Busy => command.id \in Requests
    /\ drained \in 0 .. DrainLimit

EngineTyped ==
    /\ turn \in 0 .. MaxRequests
    /\ agents \subseteq Requests
    /\ emitted \in 0 .. MaxEvents
    /\ ai \in Seq(Events) /\ Len(ai) <= AiCapacity
    /\ bridge \in Events
    /\ searching \subseteq Requests

OutputTyped ==
    /\ background \in Seq(Sent) /\ Len(background) <= BackgroundCapacity
    /\ answered \subseteq Requests
    /\ heard \in Events

Typed == InputTyped /\ LoopTyped /\ EngineTyped /\ OutputTyped

LEMMA TypedIsTypeOK == Typed => TypeOK
<1>1. Events \subseteq Outputs /\ Sent \subseteq Outputs
  BY DEF Events, Sent
<1>2. \A q : (q \in Seq(Events) => q \in Seq(Outputs)) /\ (q \in Seq(Sent) => q \in Seq(Outputs))
  BY <1>1
<1>. QED
  BY <1>1, <1>2 DEF Typed, TypeOK, InputTyped, LoopTyped, EngineTyped, OutputTyped

LEMMA Messages ==
  /\ Nothing \in Events /\ Events \subseteq Sent
  /\ \A n \in 0 .. MaxEvents, r \in 0 .. MaxRequests : Event(n, r) \in Events
  /\ \A r \in Requests : Answer(r) \in Sent
  /\ \A n \in 0 .. MaxEvents : Following(n) \in 0 .. MaxEvents /\ n <= Following(n)
                               /\ Following(n) # 0
<1>1. MaxEvents \in Nat \ {0} /\ MaxRequests \in Nat
  BY BoundAssumption
<1>2. Nothing \in Events
  BY <1>1 DEF Nothing, Events, Outputs
<1>3. \A n \in 0 .. MaxEvents, r \in 0 .. MaxRequests : Event(n, r) \in Events
  BY <1>1 DEF Event, Events, Outputs
<1>4. \A r \in Requests : Answer(r) \in Sent
  BY <1>1 DEF Answer, Sent, Outputs, Requests
<1>5. \A n \in 0 .. MaxEvents : Following(n) \in 0 .. MaxEvents /\ n <= Following(n)
                               /\ Following(n) # 0
  BY <1>1 DEF Following
<1>. QED
  BY <1>2, <1>3, <1>4, <1>5 DEF Events, Sent

\* What is written to stdout: an event is heard, an answer is an answer.
LEMMA WrittenType ==
  ASSUME OutputTyped, NEW o \in Sent, Written(o)
  PROVE  /\ answered' \subseteq Requests /\ heard' \in Events
         /\ answered \subseteq answered'
         /\ o.k = "event" => heard' = o /\ answered' = answered
         /\ o.k # "event" => heard' = heard /\ answered' = answered \cup {o.of}
<1>1. o \in Outputs /\ (o.k # "event" => o.of \in Requests)
  BY DEF Sent, Outputs
<1>. QED
  BY <1>1 DEF Written, OutputTyped, Events

LEMMA EmittedType ==
  ASSUME EngineTyped, NEW r \in Requests, Emitted(r)
  PROVE  emitted' \in 0 .. MaxEvents /\ ai' \in Seq(Events) /\ Len(ai') <= AiCapacity
<1>1. Event(Following(emitted), r) \in Events /\ Following(emitted) \in 0 .. MaxEvents
  BY Messages, BoundAssumption DEF EngineTyped, Requests
<1>2. ai \in Seq(Events) /\ ai' = Append(ai, Event(Following(emitted), r)) /\ Len(ai) < AiCapacity
  BY DEF EngineTyped, Emitted
<1>3. ai' \in Seq(Events) /\ Len(ai') = Len(ai) + 1 /\ Len(ai) \in Nat
  BY <1>1, <1>2, AppendAt
<1>. QED
  BY <1>1, <1>2, <1>3, CapacityAssumption DEF Emitted

LEMMA QueuedType ==
  ASSUME OutputTyped, NEW o \in Sent, Queued(o)
  PROVE  background' \in Seq(Sent) /\ Len(background') <= BackgroundCapacity
<1>1. background \in Seq(Sent) /\ background' = Append(background, o)
      /\ Len(background) < BackgroundCapacity
  BY DEF OutputTyped, Queued
<1>2. background' \in Seq(Sent) /\ Len(background') = Len(background) + 1 /\ Len(background) \in Nat
  BY <1>1, AppendAt
<1>. QED
  BY <1>1, <1>2, CapacityAssumption

\* Taking the first of what waits.
LEMMA TakenType ==
  ASSUME OutputTyped, background # << >>
  PROVE  /\ Tail(background) \in Seq(Sent) /\ Len(Tail(background)) <= BackgroundCapacity
         /\ Head(background) \in Sent
<1>1. background \in Seq(Sent) /\ Len(background) <= BackgroundCapacity
  BY DEF OutputTyped
<1>2. /\ Tail(background) \in Seq(Sent) /\ Head(background) \in Sent
      /\ Len(Tail(background)) = Len(background) - 1 /\ Len(background) \in Nat
  BY <1>1, TailAt
<1>. QED
  BY <1>1, <1>2, CapacityAssumption

LEMMA LoopType ==
  ASSUME Typed, Loop
  PROVE  Typed'
<1>. USE DEF feed, engine, stdout
<1>0. InputTyped /\ LoopTyped /\ EngineTyped /\ OutputTyped
  BY DEF Typed
<1>1. CASE Receive
  <2>1. stdin \in Seq(Commands) /\ stdin # << >> /\ stdin' = Tail(stdin)
        /\ command' = Head(stdin)
    BY <1>1 DEF Receive, Typed, InputTyped
  <2>2. stdin' \in Seq(Commands) /\ command' \in Commands
    BY <2>1, TailAt
  <2>3. LoopTyped'
    BY <1>0, <1>1, <2>2, BoundAssumption DEF Receive, LoopTyped, Commands, Requests
  <2>. QED
    BY <1>0, <1>1, <2>2, <2>3 DEF Receive, Typed, InputTyped, EngineTyped, OutputTyped
<1>2. CASE Idle
  BY <1>0, <1>2, CapacityAssumption
     DEF Idle, Typed, InputTyped, LoopTyped, EngineTyped, OutputTyped, Busy
<1>3. CASE Work
  <2>1. command.id \in Requests /\ command.id \in 0 .. MaxRequests
    BY <1>0, <1>3 DEF Work, LoopTyped, Busy
  <2>2. LoopTyped'
    BY <1>0, <1>3, <2>1, CapacityAssumption DEF Work, LoopTyped
  <2>3. EngineTyped'
    BY <1>0, <1>3, <2>1, BoundAssumption DEF Work, EngineTyped
  <2>. QED
    BY <1>0, <1>3, <2>2, <2>3 DEF Work, Typed, InputTyped, OutputTyped
<1>4. CASE SendStatus
  <2>1. command.id \in Requests /\ Emitted(command.id)
    BY <1>0, <1>4 DEF SendStatus, LoopTyped, Busy
  <2>2. EngineTyped'
    BY <1>0, <1>4, <2>1, EmittedType DEF SendStatus, EngineTyped
  <2>3. LoopTyped'
    BY <1>0, <1>4, <2>1 DEF SendStatus, LoopTyped
  <2>. QED
    BY <1>0, <1>4, <2>2, <2>3 DEF SendStatus, Typed, InputTyped, OutputTyped
<1>5. CASE Respond
  <2>1. Answer(command.id) \in Sent /\ Written(Answer(command.id))
    BY <1>0, <1>5, Messages DEF Respond, LoopTyped, Busy
  <2>2. OutputTyped'
    BY <1>0, <1>5, <2>1, WrittenType DEF Respond, OutputTyped
  <2>3. LoopTyped'
    BY <1>0, <1>5 DEF Respond, LoopTyped, Busy
  <2>. QED
    BY <1>0, <1>5, <2>2, <2>3 DEF Respond, Typed, InputTyped, EngineTyped
<1>6. CASE Drain
  <2>1. /\ OutputTyped'
    <3>1. CASE background # << >> /\ drained < DrainLimit
      BY <1>0, <1>6, <3>1, TakenType, WrittenType DEF Drain, OutputTyped
    <3>2. CASE ~(background # << >> /\ drained < DrainLimit)
      BY <1>0, <1>6, <3>2, TakenType DEF Drain, OutputTyped
    <3>. QED
      BY <3>1, <3>2
  <2>2. LoopTyped'
    BY <1>0, <1>6, CapacityAssumption DEF Drain, LoopTyped, Busy
  <2>. QED
    BY <1>0, <1>6, <2>1, <2>2 DEF Drain, Typed, InputTyped, EngineTyped
<1>7. CASE Flush
  <2>1. OutputTyped'
    <3>1. CASE background = << >>
      BY <1>0, <1>7, <3>1 DEF Flush, OutputTyped
    <3>2. CASE background # << >>
      BY <1>0, <1>7, <3>2, TakenType, WrittenType DEF Flush, OutputTyped
    <3>. QED
      BY <3>1, <3>2
  <2>2. LoopTyped'
    BY <1>0, <1>7 DEF Flush, LoopTyped, Busy
  <2>. QED
    BY <1>0, <1>7, <2>1, <2>2 DEF Flush, Typed, InputTyped, EngineTyped
<1>. QED
  BY <1>1, <1>2, <1>3, <1>4, <1>5, <1>6, <1>7 DEF Loop

LEMMA OthersType ==
  ASSUME Typed, Threads \/ EndOfInput \/ \E kind \in Kinds : Arrive(kind)
  PROVE  Typed'
<1>. USE DEF feed, engine, stdout
<1>0. InputTyped /\ LoopTyped /\ EngineTyped /\ OutputTyped
  BY DEF Typed
<1>1. CASE EndOfInput
  BY <1>0, <1>1 DEF EndOfInput, Typed, InputTyped, LoopTyped, EngineTyped, OutputTyped, Busy
<1>2. ASSUME NEW kind \in Kinds, Arrive(kind)
      PROVE  Typed'
  <2>1. asked' \in 0 .. MaxRequests /\ asked' \in Requests
    BY <1>0, <1>2, BoundAssumption DEF Arrive, InputTyped, Requests
  <2>2. [id |-> asked', kind |-> kind] \in Commands
    BY <2>1 DEF Commands
  <2>3. stdin' = Append(stdin, [id |-> asked', kind |-> kind]) /\ stdin \in Seq(Commands)
    BY <1>0, <1>2 DEF Arrive, InputTyped
  <2>4. stdin' \in Seq(Commands)
    BY <2>2, <2>3, AppendAt
  <2>. QED
    BY <1>0, <1>2, <2>1, <2>4
       DEF Arrive, Typed, InputTyped, LoopTyped, EngineTyped, OutputTyped, Busy
<1>3. CASE BridgeTakes
  <2>1. ai \in Seq(Events) /\ ai # << >> /\ ai' = Tail(ai) /\ bridge' = Head(ai)
    BY <1>0, <1>3 DEF BridgeTakes, EngineTyped
  <2>2. ai' \in Seq(Events) /\ bridge' \in Events /\ Len(ai') = Len(ai) - 1 /\ Len(ai) \in Nat
    BY <2>1, TailAt
  <2>3. EngineTyped'
    BY <1>0, <1>3, <2>2, CapacityAssumption DEF BridgeTakes, EngineTyped
  <2>. QED
    BY <1>0, <1>3, <2>3 DEF BridgeTakes, Typed, InputTyped, LoopTyped, OutputTyped, Busy
<1>4. CASE BridgeSends
  <2>1. bridge \in Sent /\ Queued(bridge) /\ Nothing \in Events
    BY <1>0, <1>4, Messages DEF BridgeSends, EngineTyped
  <2>2. OutputTyped'
    BY <1>0, <1>4, <2>1, QueuedType DEF BridgeSends, OutputTyped
  <2>. QED
    BY <1>0, <1>4, <2>1, <2>2 DEF BridgeSends, Typed, InputTyped, LoopTyped, EngineTyped, Busy
<1>5. ASSUME NEW r \in Requests, AgentEmits(r)
      PROVE  Typed'
  <2>1. EngineTyped'
    BY <1>0, <1>5, EmittedType DEF AgentEmits, EngineTyped
  <2>. QED
    BY <1>0, <1>5, <2>1 DEF AgentEmits, Typed, InputTyped, LoopTyped, OutputTyped, Busy
<1>6. ASSUME NEW r \in Requests, AgentFinishes(r) \/ AgentEnds(r)
      PROVE  Typed'
  BY <1>0, <1>6, BoundAssumption
     DEF AgentFinishes, AgentEnds, Typed, InputTyped, LoopTyped, EngineTyped, OutputTyped, Busy
<1>7. ASSUME NEW r \in Requests, SearchEnds(r)
      PROVE  Typed'
  <2>1. Answer(r) \in Sent /\ Queued(Answer(r))
    BY <1>7, Messages DEF SearchEnds
  <2>2. OutputTyped'
    BY <1>0, <1>7, <2>1, QueuedType DEF SearchEnds, OutputTyped
  <2>. QED
    BY <1>0, <1>7, <2>2 DEF SearchEnds, Typed, InputTyped, LoopTyped, EngineTyped, Busy
<1>. QED
  BY <1>1, <1>2, <1>3, <1>4, <1>5, <1>6, <1>7 DEF Threads

LEMMA InitType == Init => Typed
<1>. SUFFICES ASSUME Init PROVE Typed
  OBVIOUS
<1>1. InputTyped
  <2>1. asked = 0 /\ stdin = <<>> /\ closed = FALSE
    BY DEF Init
  <2>2. 0 \in 0 .. MaxRequests
    BY BoundAssumption
  <2>3. <<>> \in Seq(Commands)
    OBVIOUS
  <2>4. stdin \in Seq(Commands)
    BY <2>1, <2>3
  <2>. QED
    BY <2>1, <2>2, <2>4 DEF InputTyped
<1>3. LoopTyped
  <2>1. 0 \in 0 .. MaxRequests /\ 0 \in 0 .. DrainLimit
    BY BoundAssumption, CapacityAssumption
  <2>2. command \in [id : 0 .. MaxRequests, kind : Kinds]
    BY <2>1 DEF Init, Kinds
  <2>. QED
    BY <2>1, <2>2 DEF Init, LoopTyped, Busy
<1>2. EngineTyped /\ OutputTyped
  BY Messages, BoundAssumption, CapacityAssumption DEF Init, EngineTyped, OutputTyped
<1>. QED
  BY <1>1, <1>2, <1>3 DEF Typed

LEMMA NextType == Typed /\ [Next]_vars => Typed'
<1>1. ASSUME Typed, UNCHANGED vars PROVE Typed'
  BY <1>1 DEF vars, Typed, InputTyped, LoopTyped, EngineTyped, OutputTyped, Busy
<1>. QED
  BY <1>1, LoopType, OthersType DEF Next

LEMMA TypedAlways == Spec => []Typed
BY InitType, NextType, PTL DEF Spec

\* Every reachable state of the loop, the channels and stdout is well typed; in
\* particular neither channel ever holds more than it was made for, however many
\* agents, searches and statuses have something to say.
THEOREM TypeCorrect == Spec => []TypeOK
BY TypedAlways, TypedIsTypeOK, PTL

-----------------------------------------------------------------------------
(* Order *)

\* The command that caused an event is answered, or the loop is at it.
Known(r) == r \in answered \cup {0} \/ (main \in {"sending", "answering"} /\ r = command.id)

Caused ==
    /\ heard.of \in answered \cup {0}
    /\ \A r \in agents : Known(r)
    /\ \A i \in DOMAIN ai : Known(ai[i].of)
    /\ Known(bridge.of)
    /\ \A i \in DOMAIN background : background[i].k = "event" => Known(background[i].of)

\* Numbers do not fall from stdout, over the background channel (bg), the bridge
\* (b) and the engine's channel (a), to the engine.
Ordered(h, bg, b, a, last) ==
    /\ h <= last
    /\ \A i \in DOMAIN a : h <= a[i].n /\ a[i].n <= last
    /\ \A i, j \in DOMAIN a : i < j => a[i].n <= a[j].n
    /\ b # Nothing =>
         /\ h <= b.n /\ b.n <= last
         /\ \A i \in DOMAIN a : b.n <= a[i].n
    /\ \A i \in DOMAIN bg :
         bg[i].k = "event" =>
           /\ h <= bg[i].n /\ bg[i].n <= last
           /\ b # Nothing => bg[i].n <= b.n
           /\ \A j \in DOMAIN a : bg[i].n <= a[j].n
           /\ \A j \in DOMAIN bg : i < j /\ bg[j].k = "event" => bg[i].n <= bg[j].n

InOrder == Ordered(heard.n, background, bridge, ai, emitted)

LineInv == Caused /\ InOrder

\* The fields of what is on its way.
LEMMA Fields ==
  /\ \A o \in Outputs : o.n \in 0 .. MaxEvents /\ o.of \in 0 .. MaxRequests
                        /\ o.n \in Nat /\ o.k \in {"event", "answer"}
  /\ \A n, r : Event(n, r).n = n /\ Event(n, r).of = r /\ Event(n, r).k = "event"
  /\ Nothing.n = 0 /\ Nothing.of = 0
BY BoundAssumption DEF Outputs, Event, Nothing

\* The bridge takes the first event of the engine's channel.
LEMMA OrderTaken ==
  ASSUME NEW a \in Seq(Events), a # << >>, NEW bg \in Seq(Sent), NEW last \in Nat, NEW h \in Nat,
         Ordered(h, bg, Nothing, a, last)
  PROVE  Ordered(h, bg, Head(a), Tail(a), last)
<1>1. /\ Len(a) \in Nat \ {0} /\ DOMAIN a = 1 .. Len(a) /\ Head(a) = a[1]
      /\ DOMAIN Tail(a) = 1 .. Len(a) - 1
      /\ \A i \in 1 .. Len(a) - 1 : Tail(a)[i] = a[i + 1]
  BY TailAt
<1> DEFINE t == Tail(a)
           e == Head(a)
<1>2. /\ DOMAIN t = 1 .. Len(a) - 1 /\ e = a[1] /\ 1 \in DOMAIN a
      /\ \A i \in DOMAIN t : t[i] = a[i + 1] /\ i + 1 \in DOMAIN a /\ i \in Nat /\ 1 < i + 1
      /\ \A i, j \in DOMAIN t : i < j => i + 1 < j + 1
  BY <1>1
<1> HIDE DEF t, e
<1>3. /\ h <= last
      /\ \A i \in DOMAIN a : h <= a[i].n /\ a[i].n <= last
      /\ \A i, j \in DOMAIN a : i < j => a[i].n <= a[j].n
      /\ \A i \in DOMAIN bg :
           bg[i].k = "event" =>
             /\ h <= bg[i].n /\ bg[i].n <= last
             /\ \A j \in DOMAIN a : bg[i].n <= a[j].n
             /\ \A j \in DOMAIN bg : i < j /\ bg[j].k = "event" => bg[i].n <= bg[j].n
  BY DEF Ordered
<1>4. Ordered(h, bg, e, t, last)
  BY <1>2, <1>3 DEF Ordered
<1>. QED
  BY <1>4 DEF t, e

\* An agent or the loop sends the next event.
LEMMA OrderEmitted ==
  ASSUME NEW a \in Seq(Events), NEW bg \in Seq(Sent), NEW b \in Events,
         NEW last \in 0 .. MaxEvents, NEW h \in Nat,
         NEW r \in 0 .. MaxRequests, Ordered(h, bg, b, a, last)
  PROVE  Ordered(h, bg, b, Append(a, Event(Following(last), r)), Following(last))
<1> DEFINE e == Event(Following(last), r)
           w == Append(a, e)
           next == Following(last)
<1>1. next \in 0 .. MaxEvents /\ last <= next /\ e \in Events /\ e.n = next
      /\ next \in Nat /\ last \in Nat
  BY Messages, Fields, BoundAssumption
<1>2. /\ Len(a) \in Nat /\ DOMAIN a = 1 .. Len(a) /\ DOMAIN w = 1 .. Len(a) + 1
      /\ \A i \in 1 .. Len(a) : w[i] = a[i]
      /\ w[Len(a) + 1] = e
  BY <1>1, AppendAt
<1> HIDE DEF e, w, next
<1>3. /\ \A i \in DOMAIN w : i \in DOMAIN a \/ w[i] = e
      /\ \A i \in DOMAIN a : w[i] = a[i] /\ i \in DOMAIN w
      /\ \A i, j \in DOMAIN w : i < j => i \in DOMAIN a
  BY <1>2
<1>4. /\ \A i \in DOMAIN a : a[i].n \in Nat
      /\ \A i \in DOMAIN bg : bg[i].n \in Nat
      /\ b.n \in Nat
  <2>1. \A i \in DOMAIN a : a[i] \in Outputs
    BY DEF Events
  <2>2. \A i \in DOMAIN bg : bg[i] \in Outputs
    BY DEF Sent
  <2>. QED
    BY <2>1, <2>2, Fields DEF Events
<1>5. /\ h <= last
      /\ \A i \in DOMAIN a : h <= a[i].n /\ a[i].n <= last
      /\ \A i, j \in DOMAIN a : i < j => a[i].n <= a[j].n
      /\ b # Nothing =>
           /\ h <= b.n /\ b.n <= last
           /\ \A i \in DOMAIN a : b.n <= a[i].n
      /\ \A i \in DOMAIN bg :
           bg[i].k = "event" =>
             /\ h <= bg[i].n /\ bg[i].n <= last
             /\ b # Nothing => bg[i].n <= b.n
             /\ \A j \in DOMAIN a : bg[i].n <= a[j].n
             /\ \A j \in DOMAIN bg : i < j /\ bg[j].k = "event" => bg[i].n <= bg[j].n
  BY DEF Ordered
<1>6. h <= next /\ \A i \in DOMAIN w : h <= w[i].n /\ w[i].n <= next
  BY <1>1, <1>3, <1>4, <1>5
<1>7. \A i, j \in DOMAIN w : i < j => w[i].n <= w[j].n
  BY <1>1, <1>3, <1>4, <1>5
<1>8. b # Nothing => /\ h <= b.n /\ b.n <= next
                     /\ \A i \in DOMAIN w : b.n <= w[i].n
  BY <1>1, <1>3, <1>4, <1>5
<1>9. \A i \in DOMAIN bg :
        bg[i].k = "event" => bg[i].n <= next /\ \A j \in DOMAIN w : bg[i].n <= w[j].n
  BY <1>1, <1>3, <1>4, <1>5
<1>10. Ordered(h, bg, b, w, next)
  BY <1>5, <1>6, <1>7, <1>8, <1>9 DEF Ordered
<1>. QED
  BY <1>10 DEF w, e, next

\* The bridge, or a search, sends into the background channel.
LEMMA OrderQueued ==
  ASSUME NEW a \in Seq(Events), NEW bg \in Seq(Sent), NEW b \in Events, NEW o \in Sent,
         NEW last \in Nat, NEW h \in Nat, NEW c \in {b, Nothing},
         Ordered(h, bg, b, a, last),
         o.k # "event" \/ (b # Nothing /\ o = b /\ c = Nothing)
  PROVE  Ordered(h, Append(bg, o), c, a, last)
<1> DEFINE w == Append(bg, o)
<1>1. /\ Len(bg) \in Nat /\ DOMAIN bg = 1 .. Len(bg) /\ DOMAIN w = 1 .. Len(bg) + 1
      /\ \A i \in 1 .. Len(bg) : w[i] = bg[i]
      /\ w[Len(bg) + 1] = o
  BY AppendAt
<1> HIDE DEF w
<1>2. /\ \A i \in DOMAIN w : (i \in DOMAIN bg /\ w[i] = bg[i]) \/ w[i] = o
      /\ \A i, j \in DOMAIN w : i < j => i \in DOMAIN bg /\ w[i] = bg[i]
  BY <1>1
<1>4. /\ h <= last
      /\ \A i \in DOMAIN a : h <= a[i].n /\ a[i].n <= last
      /\ \A i, j \in DOMAIN a : i < j => a[i].n <= a[j].n
      /\ b # Nothing =>
           /\ h <= b.n /\ b.n <= last
           /\ \A i \in DOMAIN a : b.n <= a[i].n
      /\ \A i \in DOMAIN bg :
           bg[i].k = "event" =>
             /\ h <= bg[i].n /\ bg[i].n <= last
             /\ b # Nothing => bg[i].n <= b.n
             /\ \A j \in DOMAIN a : bg[i].n <= a[j].n
             /\ \A j \in DOMAIN bg : i < j /\ bg[j].k = "event" => bg[i].n <= bg[j].n
  BY DEF Ordered
<1>5. ASSUME NEW i \in DOMAIN w, w[i].k = "event"
      PROVE  /\ h <= w[i].n /\ w[i].n <= last
             /\ c # Nothing => w[i].n <= c.n
             /\ \A j \in DOMAIN a : w[i].n <= a[j].n
             /\ \A j \in DOMAIN w : i < j /\ w[j].k = "event" => w[i].n <= w[j].n
  <2>1. CASE i \in DOMAIN bg /\ w[i] = bg[i]
    <3>1. ASSUME NEW j \in DOMAIN w, i < j, w[j].k = "event" PROVE w[i].n <= w[j].n
      <4>1. CASE j \in DOMAIN bg /\ w[j] = bg[j]
        BY <1>4, <1>5, <2>1, <3>1, <4>1
      <4>2. CASE w[j] = o
        BY <1>4, <1>5, <2>1, <3>1, <4>2
      <4>. QED
        BY <1>2, <4>1, <4>2
    <3>. QED
      BY <1>4, <1>5, <2>1, <3>1
  <2>2. CASE w[i] = o /\ i \notin DOMAIN bg
    BY <1>2, <1>4, <1>5, <2>2
  <2>. QED
    BY <1>2, <1>1, <2>1, <2>2
<1>6. Ordered(h, w, c, a, last)
  BY <1>4, <1>5 DEF Ordered
<1>. QED
  BY <1>6 DEF w

\* The loop takes the first of what waits, and writes it or not.
LEMMA OrderWritten ==
  ASSUME NEW a \in Seq(Events), NEW bg \in Seq(Sent), bg # << >>, NEW b \in Events,
         NEW last \in Nat, NEW h \in Nat, Ordered(h, bg, b, a, last)
  PROVE  /\ Ordered(h, Tail(bg), b, a, last)
         /\ Head(bg).k = "event" =>
              h <= Head(bg).n /\ Ordered(Head(bg).n, Tail(bg), b, a, last)
<1> DEFINE t == Tail(bg)
           e == Head(bg)
<1>1. /\ Len(bg) \in Nat \ {0} /\ DOMAIN bg = 1 .. Len(bg) /\ e = bg[1]
      /\ DOMAIN t = 1 .. Len(bg) - 1
      /\ \A i \in 1 .. Len(bg) - 1 : t[i] = bg[i + 1]
  BY TailAt
<1> HIDE DEF t, e
<1>2. /\ 1 \in DOMAIN bg
      /\ \A i \in DOMAIN t : t[i] = bg[i + 1] /\ i + 1 \in DOMAIN bg /\ 1 < i + 1
      /\ \A i, j \in DOMAIN t : i < j => i + 1 < j + 1
  BY <1>1
<1>4. /\ h <= last
      /\ \A i \in DOMAIN a : h <= a[i].n /\ a[i].n <= last
      /\ \A i, j \in DOMAIN a : i < j => a[i].n <= a[j].n
      /\ b # Nothing =>
           /\ h <= b.n /\ b.n <= last
           /\ \A i \in DOMAIN a : b.n <= a[i].n
      /\ \A i \in DOMAIN bg :
           bg[i].k = "event" =>
             /\ h <= bg[i].n /\ bg[i].n <= last
             /\ b # Nothing => bg[i].n <= b.n
             /\ \A j \in DOMAIN a : bg[i].n <= a[j].n
             /\ \A j \in DOMAIN bg : i < j /\ bg[j].k = "event" => bg[i].n <= bg[j].n
  BY DEF Ordered
<1>5. \A i \in DOMAIN t :
        t[i].k = "event" =>
          /\ h <= t[i].n /\ t[i].n <= last
          /\ b # Nothing => t[i].n <= b.n
          /\ \A j \in DOMAIN a : t[i].n <= a[j].n
          /\ \A j \in DOMAIN t : i < j /\ t[j].k = "event" => t[i].n <= t[j].n
          /\ e.k = "event" => e.n <= t[i].n
  BY <1>1, <1>2, <1>4
<1>6. Ordered(h, t, b, a, last)
  BY <1>4, <1>5 DEF Ordered
<1>7. e.k = "event" => h <= e.n /\ Ordered(e.n, t, b, a, last)
  BY <1>1, <1>2, <1>4, <1>5 DEF Ordered
<1>. QED
  BY <1>6, <1>7 DEF t, e

LEMMA Members ==
  ASSUME Typed
  PROVE  /\ ai \in Seq(Events) /\ background \in Seq(Sent) /\ bridge \in Events /\ heard \in Events
         /\ emitted \in 0 .. MaxEvents /\ emitted \in Nat /\ heard.n \in Nat
         /\ agents \subseteq Requests
<1>1. heard \in Outputs /\ MaxEvents \in Nat
  BY BoundAssumption DEF Typed, OutputTyped, Events
<1>2. heard.n \in Nat
  BY <1>1, Fields
<1>. QED
  BY <1>1, <1>2 DEF Typed, EngineTyped, OutputTyped

\* A step that moves no output.
LEMMA LineStays ==
  ASSUME LineInv, UNCHANGED <<emitted, ai, bridge, background, stdout>>,
         \A r : Known(r) => Known(r)',
         \A r \in agents' \ agents : Known(r)'
  PROVE  LineInv'
<1>1. Caused'
  BY DEF LineInv, Caused, stdout
<1>2. InOrder'
  BY DEF LineInv, InOrder, stdout
<1>. QED
  BY <1>1, <1>2 DEF LineInv

\* The loop or an agent emits an event of a command that is known.
LEMMA LineEmits ==
  ASSUME Typed, LineInv, NEW r \in Requests, Emitted(r), Known(r)',
         \A s : Known(s) => Known(s)', UNCHANGED <<agents, bridge, background, stdout>>
  PROVE  LineInv'
<1>1. /\ ai \in Seq(Events) /\ background \in Seq(Sent) /\ bridge \in Events
      /\ emitted \in 0 .. MaxEvents /\ heard.n \in Nat
  BY Members
<1> DEFINE e == Event(Following(emitted), r)
<1>2. /\ e \in Events /\ e.of = r /\ ai' = Append(ai, e) /\ emitted' = Following(emitted)
      /\ r \in 0 .. MaxRequests
  BY <1>1, Messages, Fields, BoundAssumption DEF Emitted, Requests
<1>3. InOrder'
  <2>1. Ordered(heard.n, background, bridge, Append(ai, e), Following(emitted))
    BY <1>1, <1>2, OrderEmitted DEF LineInv, InOrder
  <2>. QED
    BY <1>2, <2>1 DEF InOrder, stdout
<1> HIDE DEF e
<1>4. \A i \in DOMAIN ai' : (i \in DOMAIN ai /\ ai'[i] = ai[i]) \/ ai'[i] = e
  <2>1. /\ Len(ai) \in Nat /\ DOMAIN ai = 1 .. Len(ai) /\ DOMAIN ai' = 1 .. Len(ai) + 1
        /\ \A i \in 1 .. Len(ai) : ai'[i] = ai[i]
        /\ ai'[Len(ai) + 1] = e
    BY <1>1, <1>2, AppendAt
  <2>. QED
    BY <2>1
<1>5. Caused'
  BY <1>2, <1>4 DEF LineInv, Caused, stdout
<1>. QED
  BY <1>3, <1>5 DEF LineInv

\* The loop takes the first of what waits, once every command whose events wait
\* is answered, and writes it or drops it.
LEMMA LineTakes ==
  ASSUME Typed, LineInv, ~Busy, ~Busy', background # << >>, background' = Tail(background),
         UNCHANGED <<agents, emitted, ai, bridge>>,
         Written(Head(background)) \/ UNCHANGED stdout
  PROVE  /\ LineInv'
         /\ heard'.of \in answered' \cup {0} /\ heard.n <= heard'.n
<1> DEFINE o == Head(background)
<1>1. /\ ai \in Seq(Events) /\ background \in Seq(Sent) /\ bridge \in Events
      /\ emitted \in Nat /\ heard.n \in Nat /\ OutputTyped
  BY Members DEF Typed
<1>2. /\ Ordered(heard.n, Tail(background), bridge, ai, emitted)
      /\ o.k = "event" => /\ heard.n <= o.n
                          /\ Ordered(o.n, Tail(background), bridge, ai, emitted)
  BY <1>1, OrderWritten DEF LineInv, InOrder
<1>3. /\ o = background[1] /\ o \in Sent /\ 1 \in DOMAIN background
      /\ \A i \in DOMAIN background' : i + 1 \in DOMAIN background /\ background'[i] = background[i + 1]
  <2>1. /\ Len(background) \in Nat \ {0} /\ DOMAIN background = 1 .. Len(background)
        /\ o = background[1] /\ o \in Sent
        /\ DOMAIN background' = 1 .. Len(background) - 1
        /\ \A i \in 1 .. Len(background) - 1 : background'[i] = background[i + 1]
    BY <1>1, TailAt
  <2>. QED
    BY <2>1
<1> HIDE DEF o
<1>4. \/ o.k = "event" /\ heard' = o /\ answered' = answered
      \/ heard' = heard /\ answered \subseteq answered'
  <2>1. CASE Written(o)
    BY <1>1, <1>3, <2>1, WrittenType
  <2>2. CASE UNCHANGED stdout
    BY <2>2 DEF stdout
  <2>. QED
    BY <2>1, <2>2 DEF o
<1>5. \A r : Known(r) <=> r \in answered \cup {0}
  BY DEF Known, Busy
<1>6. \A r : Known(r)' <=> r \in answered' \cup {0}
  BY DEF Known, Busy
<1>7. /\ heard.of \in answered \cup {0}
      /\ \A r \in agents : r \in answered \cup {0}
      /\ \A i \in DOMAIN ai : ai[i].of \in answered \cup {0}
      /\ bridge.of \in answered \cup {0}
      /\ \A i \in DOMAIN background :
           background[i].k = "event" => background[i].of \in answered \cup {0}
  BY <1>5 DEF LineInv, Caused
<1>8. heard'.of \in answered' \cup {0} /\ heard.n <= heard'.n
  BY <1>1, <1>2, <1>3, <1>4, <1>7
<1>9. Caused'
  BY <1>3, <1>4, <1>6, <1>7, <1>8 DEF Caused
<1>10. InOrder'
  BY <1>2, <1>4 DEF InOrder
<1>. QED
  BY <1>8, <1>9, <1>10 DEF LineInv

HeardStep == heard'.of \in answered' \cup {0} /\ heard'.n >= heard.n

LEMMA QuietStep ==
  ASSUME Typed, LineInv, answered \subseteq answered', heard' = heard
  PROVE  HeardStep
BY Members DEF LineInv, Caused, HeardStep

LEMMA LineLoop ==
  ASSUME Typed, LineInv, Loop
  PROVE  LineInv' /\ HeardStep
<1>. USE DEF engine, stdout
<1>1. CASE Receive \/ Idle
  BY <1>1, LineStays, QuietStep DEF Receive, Idle, Known
<1>2. CASE Work
  BY <1>2, LineStays, QuietStep DEF Work, Known
<1>3. CASE SendStatus
  <2>1. command.id \in Requests
    BY <1>3 DEF SendStatus, Typed, LoopTyped, Busy
  <2>2. Emitted(command.id) /\ Known(command.id)' /\ \A s : Known(s) => Known(s)'
    BY <1>3 DEF SendStatus, Known
  <2>. QED
    BY <1>3, <2>1, <2>2, LineEmits, QuietStep DEF SendStatus
<1>4. CASE Respond
  <2>1. Answer(command.id) \in Sent /\ Written(Answer(command.id)) /\ OutputTyped
    BY <1>4, Messages DEF Respond, Typed, LoopTyped, Busy
  <2>2. heard' = heard /\ answered' = answered \cup {command.id}
    BY <2>1, WrittenType DEF Answer
  <2>3. \A r : Known(r) => Known(r)'
    BY <1>4, <2>2 DEF Respond, Known
  <2>4. Caused' /\ InOrder'
    BY <1>4, <2>2, <2>3 DEF Respond, LineInv, Caused, InOrder
  <2>. QED
    BY <2>2, <2>4, QuietStep DEF LineInv
<1>5. CASE Drain
  <2>1. ~Busy /\ ~Busy' /\ UNCHANGED <<agents, emitted, ai, bridge>>
    BY <1>5 DEF Drain, Busy
  <2>2. CASE background # << >>
    <3>1. background' = Tail(background) /\ (Written(Head(background)) \/ UNCHANGED stdout)
      BY <1>5, <2>2 DEF Drain
    <3>. QED
      BY <2>1, <2>2, <3>1, LineTakes, Members DEF HeardStep
  <2>3. CASE background = << >>
    <3>1. UNCHANGED <<background, stdout>>
      BY <1>5, <2>3 DEF Drain
    <3>2. \A r : Known(r) => Known(r)'
      BY <1>5, <2>1, <3>1 DEF Known, Busy
    <3>. QED
      BY <2>1, <3>1, <3>2, LineStays, QuietStep
  <2>. QED
    BY <2>2, <2>3
<1>6. CASE Flush
  <2>1. ~Busy /\ ~Busy' /\ UNCHANGED <<agents, emitted, ai, bridge>>
    BY <1>6 DEF Flush, Busy
  <2>2. CASE background # << >>
    <3>1. background' = Tail(background) /\ Written(Head(background))
      BY <1>6, <2>2 DEF Flush
    <3>. QED
      BY <2>1, <2>2, <3>1, LineTakes, Members DEF HeardStep
  <2>3. CASE background = << >>
    <3>1. UNCHANGED <<background, stdout>>
      BY <1>6, <2>3 DEF Flush
    <3>2. \A r : Known(r) => Known(r)'
      BY <1>6, <2>1, <3>1 DEF Known, Busy
    <3>. QED
      BY <2>1, <3>1, <3>2, LineStays, QuietStep
  <2>. QED
    BY <2>2, <2>3
<1>. QED
  BY <1>1, <1>2, <1>3, <1>4, <1>5, <1>6 DEF Loop

LEMMA LineOthers ==
  ASSUME Typed, LineInv, Threads \/ EndOfInput \/ \E kind \in Kinds : Arrive(kind)
  PROVE  LineInv' /\ UNCHANGED stdout
<1>. USE DEF engine, stdout
<1>0. /\ ai \in Seq(Events) /\ background \in Seq(Sent) /\ bridge \in Events
      /\ emitted \in Nat /\ heard.n \in Nat
  BY Members
<1>1. CASE EndOfInput \/ \E kind \in Kinds : Arrive(kind)
  BY <1>1, LineStays DEF EndOfInput, Arrive, Known
<1>2. ASSUME NEW r \in Requests, AgentFinishes(r) \/ AgentEnds(r)
      PROVE  LineInv' /\ UNCHANGED stdout
  BY <1>2, LineStays DEF AgentFinishes, AgentEnds, Known
<1>3. ASSUME NEW r \in Requests, AgentEmits(r)
      PROVE  LineInv' /\ UNCHANGED stdout
  <2>1. Emitted(r) /\ Known(r)' /\ \A s : Known(s) => Known(s)'
    BY <1>3 DEF AgentEmits, Known, LineInv, Caused
  <2>. QED
    BY <1>3, <2>1, LineEmits DEF AgentEmits
<1>4. CASE BridgeTakes
  <2>1. /\ bridge = Nothing /\ ai # << >> /\ bridge' = Head(ai) /\ ai' = Tail(ai)
        /\ UNCHANGED <<main, command, agents, emitted, background, answered, heard>>
    BY <1>4 DEF BridgeTakes
  <2>2. InOrder'
    BY <1>0, <2>1, OrderTaken DEF LineInv, InOrder
  <2>3. /\ bridge' = ai[1] /\ 1 \in DOMAIN ai
        /\ \A i \in DOMAIN ai' : i + 1 \in DOMAIN ai /\ ai'[i] = ai[i + 1]
    <3>1. /\ Len(ai) \in Nat \ {0} /\ DOMAIN ai = 1 .. Len(ai) /\ Head(ai) = ai[1]
          /\ DOMAIN ai' = 1 .. Len(ai) - 1
          /\ \A i \in 1 .. Len(ai) - 1 : ai'[i] = ai[i + 1]
      BY <1>0, <2>1, TailAt
    <3>. QED
      BY <2>1, <3>1
  <2>4. Caused'
    BY <2>1, <2>3 DEF LineInv, Caused, Known
  <2>. QED
    BY <2>1, <2>2, <2>4 DEF LineInv
<1>5. ASSUME NEW o \in Sent, Queued(o),
             UNCHANGED <<main, command, agents, emitted, ai, answered, heard>>,
             \/ o.k # "event" /\ bridge' = bridge
             \/ bridge # Nothing /\ o = bridge /\ bridge' = Nothing
      PROVE  LineInv' /\ UNCHANGED stdout
  <2>1. background' = Append(background, o)
    BY <1>5 DEF Queued
  <2>2. bridge' \in {bridge, Nothing}
    BY <1>5
  <2>3. InOrder'
    BY <1>0, <1>5, <2>1, <2>2, OrderQueued DEF LineInv, InOrder
  <2>4. \A i \in DOMAIN background' :
          (i \in DOMAIN background /\ background'[i] = background[i]) \/ background'[i] = o
    <3>1. /\ Len(background) \in Nat /\ DOMAIN background = 1 .. Len(background)
          /\ DOMAIN background' = 1 .. Len(background) + 1
          /\ \A i \in 1 .. Len(background) : background'[i] = background[i]
          /\ background'[Len(background) + 1] = o
      BY <1>0, <1>5, <2>1, AppendAt
    <3>. QED
      BY <3>1
  <2>5. Caused'
    BY <1>5, <2>4, Fields DEF LineInv, Caused, Known
  <2>. QED
    BY <1>5, <2>3, <2>5 DEF LineInv
<1>6. CASE BridgeSends
  BY <1>0, <1>5, <1>6, Messages DEF BridgeSends
<1>7. ASSUME NEW r \in Requests, SearchEnds(r)
      PROVE  LineInv' /\ UNCHANGED stdout
  <2>1. Answer(r) \in Sent /\ Answer(r).k # "event"
    BY Messages DEF Answer
  <2>. QED
    BY <1>5, <1>7, <2>1 DEF SearchEnds
<1>. QED
  BY <1>1, <1>2, <1>3, <1>4, <1>6, <1>7 DEF Threads

LEMMA InitLine == Init => LineInv
BY Fields DEF Init, LineInv, Caused, InOrder, Ordered, Known

\* What the main process hears of was caused by a command whose answer it has,
\* and the engine's events reach it in the order of their emission: though loop
\* and agents both emit, searches answer in between, and a drain that has come
\* to its limit drops a batch (run_stdio, write_background_outputs).
THEOREM HeardInOrderAlways == Spec => HeardInOrder
<1>1. ASSUME Typed, LineInv, [Next]_vars
      PROVE  LineInv' /\ [HeardStep]_vars
  <2>1. CASE UNCHANGED vars
    BY <1>1, <2>1, LineStays DEF vars, stdout, Known
  <2>2. CASE Loop
    BY <1>1, <2>2, LineLoop
  <2>3. CASE Threads \/ EndOfInput \/ \E kind \in Kinds : Arrive(kind)
    BY <1>1, <2>3, LineOthers, QuietStep DEF stdout
  <2>. QED
    BY <1>1, <2>1, <2>2, <2>3 DEF Next
<1>. QED
  BY <1>1, InitLine, TypedAlways, PTL DEF Spec, HeardInOrder, HeardStep
=============================================================================
