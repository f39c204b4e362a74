------------------------- MODULE PromptTurnsProofs -------------------------
(***************************************************************************)
(* Theorems about PromptTurns, for every set of prompts, every bound and   *)
(* all settings of its switches but where a theorem says otherwise.        *)
(*                                                                         *)
(* A turn is one thing that passes from hand to hand: from sendPrompt to a *)
(* command, to the engine, to an event of the agent's thread or an answer  *)
(* on the pipe, and so back to the queue.  The invariant says that it is   *)
(* in one hand only, and that whoever has it has it for the prompt that is *)
(* active in the queue.  The queue sends the next only when none is        *)
(* active, so nothing else can be on its way by then.                      *)
(*                                                                         *)
(* A send or a cancellation that the engine answers as failed after it has *)
(* acted breaks this for the prompt it is about, and for that one alone:   *)
(* the prompts of `misled` are set aside, and the invariant is about the   *)
(* others.  The lemmas have them as M, a set of which nothing is known.    *)
(*                                                                         *)
(* A second invariant, Lively, says that the queue is never held back for  *)
(* longer than there is a reason: whenever the session is taken for busy   *)
(* there is a turn, the end of which makes the queue go on.  It is about   *)
(* behaviours without misled prompts (M = {}).                             *)
(***************************************************************************)
EXTENDS PromptTurns, PromptQueueProofs

-----------------------------------------------------------------------------
(* Sequences *)

LEMMA TailAt ==
  ASSUME NEW S, NEW q \in Seq(S), q # << >>
  PROVE  /\ Len(q) \in Nat \ {0} /\ DOMAIN q = 1 .. Len(q)
         /\ Head(q) = q[1] /\ Head(q) \in S /\ 1 \in DOMAIN q
         /\ Tail(q) \in Seq(S)
         /\ DOMAIN Tail(q) = 1 .. Len(q) - 1
         /\ \A i \in DOMAIN Tail(q) : i + 1 \in DOMAIN q /\ Tail(q)[i] = q[i + 1]
<1>1. /\ Len(q) \in Nat \ {0} /\ DOMAIN q = 1 .. Len(q)
      /\ Head(q) = q[1] /\ Head(q) \in S /\ 1 \in DOMAIN q
  BY EmptySeq, LenProperties, HeadTailProperties
<1>2. /\ Tail(q) \in Seq(S) /\ Len(Tail(q)) = Len(q) - 1
      /\ \A i \in 1 .. Len(q) - 1 : Tail(q)[i] = q[i + 1]
  BY <1>1, HeadTailProperties
<1>. QED
  BY <1>1, <1>2, LenProperties

LEMMA AppendAt ==
  ASSUME NEW S, NEW q \in Seq(S), NEW e \in S
  PROVE  /\ Len(q) \in Nat /\ DOMAIN q = 1 .. Len(q)
         /\ Append(q, e) \in Seq(S)
         /\ DOMAIN Append(q, e) = 1 .. Len(q) + 1
         /\ \A i \in DOMAIN q : Append(q, e)[i] = q[i]
         /\ Append(q, e)[Len(q) + 1] = e
BY AppendProperties, LenProperties

-----------------------------------------------------------------------------
(* Types *)

Commands ==
    [op : {"prepare"}] \cup [op : {"cancel"}, steer : BOOLEAN]
      \cup [op : {"send"}, id : Prompts]

Messages ==
    [k : {"status"}, status : {"idle", "busy", "error"}]
      \cup [k : {"prepared"}, status : {"idle", "busy", "error", "failed"}]
      \cup [k : {"turn"}, id : Prompts, result : {"settled", "failed"}]
      \cup [k : {"answer"}, id : Prompts, outcome : Answers]
      \cup [k : {"cancelled"}, ok : BOOLEAN, steer : BOOLEAN]

\* What the agent's threads, and a cancelled turn, leave to the main loop.
Events == {m \in Messages : m.k \in {"status", "turn"}}

TurnTyped ==
    /\ stage \in [Prompts -> {"none", "preparing", "asked"} \cup Answers]
    /\ prep \in {"none", "asked", "idle", "busy"}
    /\ cmds \in Seq(Commands)
    /\ pipe \in Seq(Messages)
    /\ bg \in Seq(Events)
    /\ session \in {"none", "idle", "busy", "error"}
    /\ turn \in Prompts \cup {None}

\* The session is open all the time, and an unknown one has nothing active.
Alive ==
    /\ live # "closed"
    /\ ~queue.terminal
    /\ queue.active # None => queue.known

-----------------------------------------------------------------------------
(* Whose turn it is *)

\* The ids of what is active in the queue: at most one.
Active == IdOf(queue.active)

\* In what follows M is a set of prompts of which nothing is known: those that
\* were misled.  Of the others, the turns that are on their way are one at most,
\* in one hand, and the one of the queue's active prompt.

\* The prompts that sendPrompt still has, and the one the engine has.
Started(M) == {p \in Prompts \ M : stage[p] \in {"preparing", "busy", "failed"}}

Running(M) == {turn} \ ({None} \cup M)

\* The commands that send a prompt, and the messages that end its turn.
Sending(M) == {c \in Commands : c.op = "send" /\ c.id \notin M}

Ending(M) ==
    {m \in Messages :
       /\ m.k = "turn" \/ (m.k = "answer" /\ m.outcome # "accepted")
       /\ m.id \notin M}

Accepting(M) ==
    {m \in Messages : m.k = "answer" /\ m.outcome = "accepted" /\ m.id \notin M}

\* The ids named by the elements of q that are in K, of which there may be few.
Places(q, K) == {i \in DOMAIN q : q[i] \in K}

Named(q, K) == {q[i].id : i \in Places(q, K)}

OneAtMost(q, K) == \A i, j \in Places(q, K) : i = j

\* The turns that are on their way, in whose hand ever.
Turns(M) ==
    Started(M) \cup Named(cmds, Sending(M)) \cup Running(M)
      \cup Named(pipe, Ending(M)) \cup Named(bg, Ending(M))

\* Nothing of a turn is anywhere but at w.
OnlyAt(w, M) ==
    /\ w # "stage" => Started(M) = {}
    /\ w # "cmds" => Named(cmds, Sending(M)) = {}
    /\ w # "engine" => Running(M) = {}
    /\ w # "pipe" => Named(pipe, Ending(M)) = {}
    /\ w # "bg" => Named(bg, Ending(M)) = {}

OneTurn(M) ==
    /\ \E w \in {"stage", "cmds", "engine", "pipe", "bg"} : OnlyAt(w, M)
    /\ OneAtMost(cmds, Sending(M))
    /\ OneAtMost(pipe, Ending(M))
    /\ OneAtMost(bg, Ending(M))

OfActive(M) == Turns(M) = Active \ M

\* The acceptance of a prompt is read while its sendPrompt waits for it, once,
\* and before the end of its turn.
Before(q, M) == \A i \in Places(q, Ending(M)), j \in Places(q, Accepting(M)) : j < i

AnswersFirst(M) ==
    /\ OneAtMost(pipe, Accepting(M)) /\ Before(pipe, M)
    /\ Named(cmds, Sending(M)) \cup Named(pipe, Accepting(M))
         \subseteq {p \in Prompts : stage[p] = "asked"}
    /\ Named(pipe, Accepting(M)) \subseteq Active
    /\ Named(cmds, Sending(M)) = {} \/ Named(pipe, Accepting(M)) = {}

Handed(M) == TurnTyped /\ Alive /\ OneTurn(M) /\ OfActive(M) /\ AnswersFirst(M)

HandsInv(M) == IInv /\ Handed(M)

\* The prompts of M are those that were misled.
TurnInv == IInv /\ \E M \in SUBSET Prompts : misled = M /\ Handed(M)

\* Places in a queue that grows and in one that is read.
LEMMA PlacesAppended ==
  ASSUME NEW S, NEW K, NEW s \in Seq(S), NEW e \in S
  PROVE  /\ Places(s, K) \subseteq 1 .. Len(s) /\ Len(s) \in Nat
         /\ Places(Append(s, e), K)
              = Places(s, K) \cup (IF e \in K THEN {Len(s) + 1} ELSE {})
         /\ \A i \in Places(s, K) : Append(s, e)[i] = s[i]
         /\ Append(s, e)[Len(s) + 1] = e
         /\ Append(s, e) \in Seq(S) /\ Len(Append(s, e)) = Len(s) + 1
<1> DEFINE w == Append(s, e)
<1>1. /\ Len(s) \in Nat /\ DOMAIN s = 1 .. Len(s)
      /\ w \in Seq(S) /\ DOMAIN w = 1 .. Len(s) + 1
      /\ \A i \in DOMAIN s : w[i] = s[i]
      /\ w[Len(s) + 1] = e
  BY AppendAt
<1>2. Len(w) = Len(s) + 1
  BY AppendProperties
<1> HIDE DEF w
<1>3. Places(w, K) = Places(s, K) \cup (IF e \in K THEN {Len(s) + 1} ELSE {})
  BY <1>1 DEF Places
<1>. QED
  BY <1>1, <1>2, <1>3 DEF Places, w

LEMMA PlacesTaken ==
  ASSUME NEW S, NEW K, NEW q \in Seq(S), q # << >>
  PROVE  /\ Places(q, K) \subseteq 1 .. Len(q) /\ Len(q) \in Nat \ {0}
         /\ Places(Tail(q), K) = {i \in 1 .. Len(q) - 1 : i + 1 \in Places(q, K)}
         /\ \A i \in Places(Tail(q), K) : Tail(q)[i] = q[i + 1]
         /\ 1 \in Places(q, K) <=> Head(q) \in K
         /\ Tail(q) \in Seq(S) /\ Len(Tail(q)) = Len(q) - 1
<1> DEFINE w == Tail(q)
<1>1. /\ Len(q) \in Nat \ {0} /\ DOMAIN q = 1 .. Len(q)
      /\ Head(q) = q[1] /\ 1 \in DOMAIN q
      /\ w \in Seq(S) /\ DOMAIN w = 1 .. Len(q) - 1
      /\ \A i \in DOMAIN w : i + 1 \in DOMAIN q /\ w[i] = q[i + 1]
  BY TailAt
<1>2. Len(w) = Len(q) - 1
  BY HeadTailProperties
<1> HIDE DEF w
<1>3. Places(w, K) = {i \in 1 .. Len(q) - 1 : i + 1 \in Places(q, K)}
  BY <1>1 DEF Places
<1>. QED
  BY <1>1, <1>2, <1>3 DEF Places, w

LEMMA NamesAndPlaces ==
  ASSUME NEW q, NEW K
  PROVE  Named(q, K) = {} <=> Places(q, K) = {}
BY DEF Named

LEMMA JoinedNames ==
  ASSUME NEW S, NEW K, NEW s \in Seq(S), NEW t \in Seq(S)
  PROVE  /\ Named(s \o t, K) = Named(s, K) \cup Named(t, K)
         /\ OneAtMost(s, K) /\ OneAtMost(t, K) /\ (Named(s, K) = {} \/ Named(t, K) = {})
              => OneAtMost(s \o t, K)
<1> DEFINE w == s \o t
<1>1. /\ Len(s) \in Nat /\ DOMAIN s = 1 .. Len(s)
      /\ Len(t) \in Nat /\ DOMAIN t = 1 .. Len(t)
      /\ DOMAIN w = 1 .. Len(s) + Len(t)
  BY ConcatProperties, LenProperties
<1>2. /\ \A i \in 1 .. Len(s) : w[i] = s[i]
      /\ \A i \in 1 .. Len(t) : w[Len(s) + i] = t[i]
      /\ \A i \in Len(s) + 1 .. Len(s) + Len(t) : w[i] = t[i - Len(s)]
  BY <1>1, ConcatProperties
<1> HIDE DEF w
<1>3. /\ \A i \in Places(s, K) : i \in Places(w, K) /\ w[i] = s[i]
      /\ \A i \in Places(t, K) : Len(s) + i \in Places(w, K) /\ w[Len(s) + i] = t[i]
  BY <1>1, <1>2 DEF Places
<1>4. \A i \in Places(w, K) :
        \/ i \in Places(s, K) /\ w[i] = s[i]
        \/ i - Len(s) \in Places(t, K) /\ w[i] = t[i - Len(s)] /\ i \in Nat
  BY <1>1, <1>2 DEF Places
<1>5. Named(w, K) = Named(s, K) \cup Named(t, K)
  <2>1. Named(s, K) \subseteq Named(w, K) /\ Named(t, K) \subseteq Named(w, K)
    BY <1>3 DEF Named
  <2>2. Named(w, K) \subseteq Named(s, K) \cup Named(t, K)
    BY <1>4 DEF Named
  <2>. QED
    BY <2>1, <2>2
<1>6. ASSUME OneAtMost(s, K), OneAtMost(t, K), Places(s, K) = {} \/ Places(t, K) = {}
      PROVE  OneAtMost(w, K)
  BY <1>1, <1>4, <1>6 DEF OneAtMost
<1>7. \A q : Named(q, K) = {} => Places(q, K) = {}
  BY DEF Named
<1>. QED
  BY <1>5, <1>6, <1>7 DEF w

LEMMA SingleNames ==
  ASSUME NEW K, NEW e
  PROVE  /\ e \in K => Named(<<e>>, K) = {e.id}
         /\ e \notin K => Named(<<e>>, K) = {}
         /\ OneAtMost(<<e>>, K)
         /\ Named(<<>>, K) = {} /\ OneAtMost(<<>>, K)
<1>1. Places(<<e>>, K) = (IF e \in K THEN {1} ELSE {}) /\ Places(<<>>, K) = {}
  BY DEF Places
<1>. QED
  BY <1>1 DEF Named, OneAtMost

LEMMA AppendedNames ==
  ASSUME NEW S, NEW K, NEW s \in Seq(S), NEW e \in S
  PROVE  /\ e \notin K => Named(Append(s, e), K) = Named(s, K)
         /\ e \in K => Named(Append(s, e), K) = Named(s, K) \cup {e.id}
         /\ OneAtMost(s, K) /\ (Named(s, K) = {} \/ e \notin K)
              => OneAtMost(Append(s, e), K)
<1> DEFINE t == <<e>>
<1>1. Append(s, e) = s \o t /\ t \in Seq(S)
  BY AppendIsConcat
<1>2. /\ e \in K => Named(t, K) = {e.id}
      /\ e \notin K => Named(t, K) = {}
      /\ OneAtMost(t, K)
  BY SingleNames
<1> HIDE DEF t
<1>3. /\ Named(s \o t, K) = Named(s, K) \cup Named(t, K)
      /\ OneAtMost(s, K) /\ OneAtMost(t, K) /\ (Named(s, K) = {} \/ Named(t, K) = {})
           => OneAtMost(s \o t, K)
  BY <1>1, JoinedNames
<1>. QED
  BY <1>1, <1>2, <1>3

LEMMA TakenNames ==
  ASSUME NEW S, NEW K, NEW q \in Seq(S), q # << >>, OneAtMost(q, K)
  PROVE  /\ Named(Tail(q), K) \subseteq Named(q, K) /\ OneAtMost(Tail(q), K)
         /\ Head(q) \in K => Named(Tail(q), K) = {} /\ Head(q).id \in Named(q, K)
         /\ Head(q) \notin K => Named(Tail(q), K) = Named(q, K)
<1>1. /\ Len(q) \in Nat \ {0} /\ DOMAIN q = 1 .. Len(q)
      /\ Head(q) = q[1] /\ 1 \in DOMAIN q
      /\ DOMAIN Tail(q) = 1 .. Len(q) - 1
      /\ \A i \in DOMAIN Tail(q) : i + 1 \in DOMAIN q /\ Tail(q)[i] = q[i + 1]
  BY TailAt
<1>2. \A i \in Places(Tail(q), K) :
        i + 1 \in Places(q, K) /\ Tail(q)[i] = q[i + 1] /\ i \in Nat /\ i + 1 # 1
  BY <1>1 DEF Places
<1>3. Head(q) \in K => 1 \in Places(q, K)
  BY <1>1 DEF Places
<1>4. Named(Tail(q), K) \subseteq Named(q, K)
  BY <1>2 DEF Named
<1>5. OneAtMost(Tail(q), K)
  BY <1>2 DEF OneAtMost
<1>6. ASSUME Head(q) \in K
      PROVE  Places(Tail(q), K) = {} /\ Head(q).id \in Named(q, K)
  BY <1>1, <1>2, <1>3, <1>6 DEF OneAtMost, Named
<1>7. ASSUME Head(q) \notin K
      PROVE  Named(q, K) \subseteq Named(Tail(q), K)
  <2>1. \A i \in Places(q, K) : i - 1 \in Places(Tail(q), K) /\ Tail(q)[i - 1] = q[i]
    <3> SUFFICES ASSUME NEW i \in Places(q, K)
                 PROVE  i - 1 \in Places(Tail(q), K) /\ Tail(q)[i - 1] = q[i]
      OBVIOUS
    <3>1. i \in 2 .. Len(q) /\ q[i] \in K
      BY <1>1, <1>7 DEF Places
    <3>2. i - 1 \in DOMAIN Tail(q) /\ (i - 1) + 1 = i
      BY <1>1, <3>1
    <3>3. Tail(q)[i - 1] = q[i]
      BY <1>1, <3>2
    <3>. QED
      BY <3>1, <3>2, <3>3 DEF Places
  <2>. QED
    BY <2>1 DEF Named
<1>. QED
  BY <1>4, <1>5, <1>6, <1>7 DEF Named

-----------------------------------------------------------------------------
(* What the steps of the queue do to its active prompt.                      *)

\* It stays, and none is sent.
Kept == IdOf(queue'.active) = Active /\ Dispatched = {}

\* There was none, and the one that is sent becomes active.
Sent == queue.active = None /\ Dispatched = IdOf(queue'.active)

GoesOn == (Kept \/ Sent) /\ Alive'

\* A record of an open session.
Open(q) == Sound(q) /\ ~q.terminal /\ q.known

\* What could be sent is not, only while a prompt is open for editing or after
\* a turn that failed; and a queue with prompts has a window.
Failing(q) == \E i \in DOMAIN q.items : q.items[i].st = "failed"

Justified(q, l) == CanDrain(q, l) => q.editing # None \/ Failing(q)

Windowed(q) == q.items # << >> \/ q.active # None => q.known /\ q.owned

Eager == Justified(queue, live) /\ Windowed(queue)

LEMMA OpenQueue ==
  ASSUME IInv, Alive
  PROVE  /\ Stored
         /\ Sound(queue) /\ ~queue.terminal
         /\ queue.known \in BOOLEAN
         /\ live \in {"none", "idle", "busy"}
         /\ flight \in [Prompts -> Nat]
         /\ MaxFlight \in Nat
<1>1. Stored /\ Others
  BY IInvParts
<1>2. flight \in [Prompts -> Nat] /\ MaxFlight \in Nat
  BY <1>1, MaxFlightAssumption DEF Stored
<1>. QED
  BY <1>1, <1>2 DEF Stored, Others, Alive, Sound, Records

LEMMA NothingDispatched ==
  ASSUME flight \in [Prompts -> Nat], flight' = flight
  PROVE  Dispatched = {}
BY DEF Dispatched

\* #drain sends only when nothing is active, and what it sends is active then.
LEMMA DrainSends ==
  ASSUME IInv, Alive, NEW q, Open(q), NEW l, l # "closed", CommitAndDrain(q, l)
  PROVE  /\ ~queue'.terminal /\ queue'.known
         /\ \/ IdOf(queue'.active) = IdOf(q.active) /\ Dispatched = {}
            \/ q.active = None /\ Dispatched = IdOf(queue'.active)
         /\ Windowed(q) => Justified(queue', l) /\ Windowed(queue')
<1> DEFINE d == Drained(q, l)
<1>1. queue' = d
  BY DEF CommitAndDrain
<1>2. CASE CanDrain(q, l)
  <2>1. q.active = None /\ q \in Records
    BY <1>2 DEF CanDrain, Open, Sound
  <2>2. /\ d.active \in ActiveItems /\ d.active.id \in Prompts
        /\ d.terminal = q.terminal /\ d.known = q.known /\ d.owned = q.owned
    <3>1. d.active \in ActiveItems /\ d.active.id \in Prompts
      BY <1>2, DrainedRecord DEF Open
    <3>2. d = [q EXCEPT !.items = Without(@, SentItem(q).id),
                        !.active = SentItem(q)]
      BY <1>2 DEF Drained
    <3> HIDE DEF d
    <3>3. d.terminal = q.terminal /\ d.known = q.known /\ d.owned = q.owned
      BY <2>1, <3>2 DEF Records
    <3>. QED
      BY <3>1, <3>3
  <2>3. d.active # None
    BY <2>2, NoItemAssumption DEF ActiveItems
  <2>4. flight' = [flight EXCEPT ![d.active.id] = @ + 1]
    BY <1>2 DEF CommitAndDrain
  <2> HIDE DEF d
  <2>5. Dispatched = {d.active.id}
    BY <2>2, <2>4, OpenQueue DEF Dispatched
  <2>6. ~CanDrain(d, l) /\ d.owned /\ d.known
    BY <1>2, <2>2, <2>3 DEF CanDrain, Open
  <2>. QED
    BY <1>1, <2>1, <2>2, <2>3, <2>5, <2>6 DEF IdOf, Open, Justified, Windowed
<1>3. CASE ~CanDrain(q, l)
  <2>1. d = q
    BY <1>3 DEF Drained, Checked
  <2>2. flight' = flight
    BY <1>3 DEF CommitAndDrain
  <2> HIDE DEF d
  <2>3. Dispatched = {}
    BY <2>2, OpenQueue, NothingDispatched
  <2>4. Justified(q, l)
    BY <1>3 DEF Justified
  <2>. QED
    BY <1>1, <2>1, <2>3, <2>4 DEF Open
<1>. QED
  BY <1>2, <1>3

\* A record that keeps the active prompt, written in one of the three ways.
LEMMA WrittenGoesOn ==
  ASSUME IInv, Alive, NEW q, Open(q), q.active \in {queue.active, None},
         q.active = None => queue.active = None,
         NEW l, l # "closed", live' # "closed",
         Touch(q) \/ Commit(q) \/ CommitAndDrain(q, l)
  PROVE  /\ GoesOn
         /\ Windowed(q) /\ live' = l /\ (CommitAndDrain(q, l) \/ Justified(q, l)) => Eager'
<1>0. q.active = queue.active
  OBVIOUS
<1>1. CASE (Touch(q) \/ Commit(q)) /\ ~CommitAndDrain(q, l)
  <2>1. queue' = q /\ flight' = flight
    BY <1>1 DEF Touch, Commit
  <2>2. Dispatched = {}
    BY <2>1, OpenQueue, NothingDispatched
  <2>3. GoesOn
    BY <1>0, <2>1, <2>2 DEF GoesOn, Kept, Active, Alive, Open
  <2>. QED
    BY <1>1, <2>1, <2>3 DEF Eager
<1>2. CASE CommitAndDrain(q, l)
  <2>1. GoesOn
    BY <1>0, <1>2, DrainSends DEF GoesOn, Kept, Sent, Active, Alive
  <2>2. Windowed(q) => Justified(queue', l) /\ Windowed(queue')
    BY <1>2, DrainSends
  <2>. QED
    BY <2>1, <2>2 DEF Eager
<1>. QED
  BY <1>1, <1>2

LEMMA UntouchedGoesOn ==
  ASSUME IInv, Alive, live' # "closed", NothingQueued
  PROVE  /\ GoesOn
         /\ Eager /\ Justified(queue, live') => Eager'
<1>1. Dispatched = {}
  BY OpenQueue, NothingDispatched DEF NothingQueued
<1>2. queue' = queue
  BY DEF NothingQueued
<1>3. GoesOn
  BY <1>1, <1>2 DEF GoesOn, Kept, Active, Alive
<1>. QED
  BY <1>2, <1>3 DEF Eager

\* The record that a user's operation starts from.
LEMMA AskedOpen ==
  ASSUME IInv, Alive
  PROVE  /\ Open(Asked) /\ Open(Bound(live)) /\ Open(Opened(queue, live))
         /\ Asked.active = queue.active
         /\ Bound(live).active = queue.active
         /\ Opened(queue, live).active = queue.active
         /\ Windowed(Asked) /\ Windowed(Bound(live))
         /\ Asked.owned /\ Bound(live).owned
         /\ Eager => /\ Windowed(Opened(queue, live)) /\ Justified(Opened(queue, live), live)
                     /\ Justified(Asked, live) /\ Justified(Bound(live), live)
<1> DEFINE o == Opened(queue, live)
           b == Bound(live)
<1>1. Stored /\ Sound(queue) /\ live # "closed"
  BY OpenQueue
<1>2. Sound(o) /\ ~o.terminal /\ o.known /\ o.active = queue.active
  <2>1. Sound(o)
    BY <1>1, OpenedRecord
  <2>2. ~o.terminal /\ o.known /\ o.active = queue.active
    BY <1>1 DEF Opened, Record, Alive
  <2>. QED
    BY <2>1, <2>2
<1>3. Eager => Windowed(o) /\ Justified(o, live)
  <2>1. o = queue \/ (o.items = << >> /\ o.active = None)
    BY DEF Opened, Record
  <2>2. o.items = << >> /\ o.active = None => ~CanDrain(o, live) /\ Windowed(o)
    BY DEF CanDrain, Waiting, Windowed
  <2> HIDE DEF o
  <2>. QED
    BY <2>1, <2>2 DEF Justified, Eager
<1>4. b = [o EXCEPT !.owned = TRUE]
  BY DEF Bound
<1>5. Sound(b) /\ Sound(Asked)
  BY <1>1, AskedFacts
<1>6. Asked = b
  BY <1>1 DEF Asked, Checked
<1> HIDE DEF o, b
<1>7. /\ ~b.terminal /\ b.known /\ b.owned
      /\ b.active = o.active /\ b.items = o.items /\ b.editing = o.editing
      /\ b.paused = o.paused
  BY <1>2, <1>4 DEF Sound, Records
<1>8. ASSUME Eager
      PROVE  Justified(b, live)
  <2> SUFFICES ASSUME CanDrain(b, live)
               PROVE  b.editing # None \/ Failing(b)
    BY DEF Justified
  <2>1. o.items # << >>
    BY <1>7 DEF CanDrain, Waiting
  <2>2. CanDrain(o, live)
    BY <1>2, <1>3, <1>7, <1>8, <2>1 DEF CanDrain, Waiting, Windowed
  <2>. QED
    BY <1>3, <1>7, <1>8, <2>2 DEF Justified, Failing
<1>. QED
  BY <1>2, <1>3, <1>5, <1>6, <1>7, <1>8 DEF Open, Windowed, o, b
\* A change of the items and of the prompt open for editing.
LEMMA EditedOpen ==
  ASSUME NEW q, Open(q), NEW r \in Records,
         r.active = q.active, r.terminal = q.terminal, r.known = q.known
  PROVE  Open(r)
BY DEF Open, Sound

LEMMA EnqueueGoesOn ==
  ASSUME IInv, Alive, NEW p \in Prompts, EnqueueInto(Asked, p), live' = live
  PROVE  GoesOn /\ (Eager => Eager')
<1> DEFINE q == Asked
           r == Enqueued(q, p)
<1>1. Open(q) /\ q.active = queue.active /\ q.owned /\ live # "closed"
  BY AskedOpen DEF Alive
<1>2. CommitAndDrain(r, live)
  BY <1>1 DEF EnqueueInto, Open
<1>3. q \in Records /\ q.items \in Seq(WaitingItems)
  BY <1>1 DEF Open, Sound, Records
<1>4. /\ <<New(p)>> \o q.items \in Seq(WaitingItems)
      /\ Append(q.items, New(p)) \in Seq(WaitingItems)
  BY <1>3, ItemTypes, ItemsOps
<1>5. /\ r \in Records /\ r.active = q.active /\ r.terminal = q.terminal
      /\ r.known = q.known /\ r.owned = q.owned
  <2> HIDE DEF q
  <2>. QED
    BY <1>3, <1>4 DEF Enqueued, Records
<1> HIDE DEF q, r
<1>6. Open(r) /\ Windowed(r)
  BY <1>1, <1>5, EditedOpen DEF Open, Windowed
<1>. QED
  BY <1>1, <1>2, <1>5, <1>6, WrittenGoesOn

LEMMA BeginEditGoesOn ==
  ASSUME IInv, Alive, NEW p \in Prompts, BeginEdit(p)
  PROVE  GoesOn /\ (Eager => Eager')
<1> DEFINE q == Asked
           items == EditRestored(q)
           at == LeastIn(IndicesOf(items, p))
           r == [q EXCEPT !.pos = PositionOf(items, at),
                          !.editing = [items[at] EXCEPT !.st = "editing"],
                          !.items = Without(items, p)]
<1>1. /\ Open(q) /\ q.active = queue.active
      /\ Windowed(q) /\ q.owned /\ (Eager => Justified(q, live))
      /\ live # "closed" /\ live' = live
  BY AskedOpen DEF Alive, BeginEdit, UserKeeps
<1>2. Touch(q) \/ (Holds(items, p) /\ Commit(r))
  BY DEF BeginEdit
<1>3. ASSUME Holds(items, p)
      PROVE  Open(r) /\ r.active = q.active /\ Windowed(r) /\ Justified(r, live)
  <2>1. items \in Seq(WaitingItems)
    BY <1>1, EditRestoredType DEF Open, Sound
  <2>2. at \in DOMAIN items /\ items[at] \in WaitingItems
    BY <1>3, <2>1, FoundItem DEF ItemAt
  <2>3. [items[at] EXCEPT !.st = "editing"] \in EditingItems
    BY <2>2 DEF WaitingItems, EditingItems, Items, Statuses
  <2>4. PositionOf(items, at) \in Positions
    BY <2>1, <2>2, PositionOfType
  <2>5. Without(items, p) \in Seq(WaitingItems)
    BY <2>1, FiltersType
  <2> HIDE DEF q, items, at
  <2>6. /\ r \in Records /\ r.active = q.active /\ r.terminal = q.terminal
        /\ r.known = q.known /\ r.owned = q.owned
    BY <1>1, <2>3, <2>4, <2>5 DEF Open, Sound, Records
  <2>7. r.editing \in EditingItems
    BY <1>1, <2>3 DEF Open, Sound, Records
  <2> HIDE DEF r
  <2>8. r.editing # None
    BY <2>7, NoItemAssumption DEF EditingItems
  <2>. QED
    BY <1>1, <2>6, <2>8, EditedOpen DEF Open, Windowed, Justified
<1> HIDE DEF q, r
<1>. QED
  BY <1>1, <1>2, <1>3, WrittenGoesOn

LEMMA CancelEditGoesOn ==
  ASSUME IInv, Alive, CancelEdit
  PROVE  GoesOn /\ (Eager => Eager')
<1> DEFINE q == Asked
           r == [q EXCEPT !.items = EditRestored(q),
                          !.editing = None, !.pos = None]
<1>1. /\ Open(q) /\ q.active = queue.active
      /\ Windowed(q) /\ q.owned /\ (Eager => Justified(q, live))
      /\ live # "closed" /\ live' = live
  BY AskedOpen DEF Alive, CancelEdit, UserKeeps
<1>2. Touch(q) \/ CommitAndDrain(r, live)
  BY DEF CancelEdit
<1>3. Open(r) /\ r.active = q.active /\ Windowed(r)
  <2>1. EditRestored(q) \in Seq(WaitingItems) /\ q \in Records
    BY <1>1, EditRestoredType DEF Open, Sound
  <2> HIDE DEF q
  <2>2. /\ r \in Records /\ r.active = q.active /\ r.terminal = q.terminal
        /\ r.known = q.known /\ r.owned = q.owned
    BY <2>1 DEF Records
  <2> HIDE DEF r
  <2>. QED
    BY <1>1, <2>2, EditedOpen DEF Open, Windowed
<1> HIDE DEF q, r
<1>. QED
  BY <1>1, <1>2, <1>3, WrittenGoesOn

LEMMA UpdateGoesOn ==
  ASSUME IInv, Alive, NEW p \in Prompts, Update(p)
  PROVE  GoesOn /\ (Eager => Eager')
<1> DEFINE q == Asked
           r == [q EXCEPT !.items = InsertAtPosition(@, New(p), q.pos),
                          !.editing = None, !.pos = None, !.paused = FALSE]
<1>1. /\ Open(q) /\ q.active = queue.active
      /\ Windowed(q) /\ q.owned /\ (Eager => Justified(q, live))
      /\ live # "closed" /\ live' = live
  BY AskedOpen DEF Alive, Update, UserKeeps
<1>2. Touch(q) \/ EnqueueInto(q, p) \/ CommitAndDrain(r, live)
  BY DEF Update
<1>3. Open(r) /\ r.active = q.active /\ Windowed(r)
  <2>1. /\ q \in Records /\ q.items \in Seq(WaitingItems)
        /\ q.pos \in Positions \cup {None}
    BY <1>1 DEF Open, Sound, Records
  <2>2. InsertAtPosition(q.items, New(p), q.pos) \in Seq(WaitingItems)
    BY <2>1, ItemTypes, InsertAtPositionType
  <2> HIDE DEF q
  <2>3. /\ r \in Records /\ r.active = q.active /\ r.terminal = q.terminal
        /\ r.known = q.known /\ r.owned = q.owned
    BY <2>1, <2>2 DEF Records
  <2> HIDE DEF r
  <2>. QED
    BY <1>1, <2>3, EditedOpen DEF Open, Windowed
<1>4. ASSUME EnqueueInto(q, p) PROVE GoesOn /\ (Eager => Eager')
  BY <1>1, <1>4, EnqueueGoesOn
<1> HIDE DEF q, r
<1>. QED
  BY <1>1, <1>2, <1>3, <1>4, WrittenGoesOn

LEMMA RemoveGoesOn ==
  ASSUME IInv, Alive, NEW p \in Prompts, Remove(p)
  PROVE  GoesOn /\ (Eager => Eager')
<1> DEFINE q == Bound(live)
           edits == q.editing # None /\ q.editing.id = p
           r == [q EXCEPT !.items = Without(@, p),
                          !.editing = IF edits THEN None ELSE @,
                          !.pos = IF edits THEN None ELSE @]
<1>1. /\ Open(q) /\ q.active = queue.active
      /\ Windowed(q) /\ q.owned /\ (Eager => Justified(q, live))
      /\ live # "closed" /\ live' = live
  BY AskedOpen DEF Alive, Remove, UserKeeps
<1>2. Touch(q) \/ CommitAndDrain(r, live)
  BY DEF Remove
<1>3. Open(r) /\ r.active = q.active /\ Windowed(r)
  <2>1. /\ q \in Records /\ Without(q.items, p) \in Seq(WaitingItems)
    BY <1>1, WithoutRecord DEF Open, Sound
  <2> HIDE DEF q, edits
  <2>2. /\ r \in Records /\ r.active = q.active /\ r.terminal = q.terminal
        /\ r.known = q.known /\ r.owned = q.owned
    BY <2>1 DEF Records
  <2> HIDE DEF r
  <2>. QED
    BY <1>1, <2>2, EditedOpen DEF Open, Windowed
<1> HIDE DEF q, r
<1>. QED
  BY <1>1, <1>2, <1>3, WrittenGoesOn

LEMMA ClearGoesOn ==
  ASSUME IInv, Alive, Clear
  PROVE  GoesOn /\ (Eager => Eager')
<1> DEFINE q == Asked
           r == [q EXCEPT !.items = <<>>, !.editing = None, !.pos = None,
                          !.paused = q.terminal, !.resume = FALSE]
<1>1. /\ Open(q) /\ q.active = queue.active
      /\ q.owned /\ live # "closed" /\ live' = live
  BY AskedOpen DEF Alive, Clear, UserKeeps
<1>2. Commit(r)
  BY DEF Clear
<1>3. Open(r) /\ r.active = q.active /\ r.items = << >> /\ Windowed(r)
  <2>1. q \in Records /\ q.terminal \in BOOLEAN /\ << >> \in Seq(WaitingItems)
    BY <1>1 DEF Open, Sound, Records
  <2> HIDE DEF q
  <2>2. /\ r \in Records /\ r.active = q.active /\ r.terminal = q.terminal
        /\ r.known = q.known /\ r.items = << >> /\ r.owned = q.owned
    BY <2>1 DEF Records
  <2> HIDE DEF r
  <2>. QED
    BY <1>1, <2>2, EditedOpen DEF Open, Windowed
<1> HIDE DEF q, r
<1>4. Justified(r, live)
  BY <1>3 DEF Justified, CanDrain, Waiting
<1>. QED
  BY <1>1, <1>2, <1>3, <1>4, WrittenGoesOn

LEMMA EditsGoOn ==
  ASSUME IInv, Alive, Edits
  PROVE  GoesOn /\ (Eager => Eager')
<1>1. ASSUME NEW p \in Prompts, Enqueue(p) PROVE GoesOn /\ (Eager => Eager')
  BY <1>1, EnqueueGoesOn DEF Enqueue
<1>. QED
  BY <1>1, CancelEditGoesOn, ClearGoesOn, BeginEditGoesOn, UpdateGoesOn,
     RemoveGoesOn DEF Edits

LEMMA SteerGoesOn ==
  ASSUME IInv, Alive, NEW p \in Prompts, Steer(p)
  PROVE  GoesOn /\ (Eager => Eager')
<1> DEFINE q == Asked
           first == [ItemAt(q.items, p) EXCEPT !.st = "queued",
                                               !.closed = FALSE]
           r == [q EXCEPT !.items = <<first>> \o Without(@, p)]
           waits == [r EXCEPT !.paused = TRUE, !.resume = TRUE]
           goes == [r EXCEPT !.paused = FALSE]
<1>1. /\ Open(q) /\ q.active = queue.active
      /\ Windowed(q) /\ q.owned /\ (Eager => Justified(q, live))
      /\ live # "closed" /\ live' = live
  BY AskedOpen DEF Alive, Steer
<1>2. \/ Touch(q)
      \/ Holds(q.items, p) /\ (Commit(waits) \/ CommitAndDrain(goes, live))
  BY DEF Steer
<1>3. ASSUME Holds(q.items, p)
      PROVE  /\ Open(waits) /\ waits.active = q.active
             /\ Windowed(waits) /\ Justified(waits, live)
             /\ Open(goes) /\ goes.active = q.active /\ Windowed(goes)
  <2>1. q \in Records /\ q.items \in Seq(WaitingItems)
    BY <1>1 DEF Open, Sound, Records
  <2>2. ItemAt(q.items, p) \in WaitingItems
    BY <1>3, <2>1, FoundItem
  <2>3. first \in WaitingItems
    BY <2>2 DEF WaitingItems, Items, Statuses
  <2> HIDE DEF first
  <2>4. <<first>> \o Without(q.items, p) \in Seq(WaitingItems)
    BY <1>1, <2>3, WithoutRecord, ItemsOps DEF Open
  <2> HIDE DEF q
  <2>5. /\ waits \in Records /\ waits.active = q.active
        /\ waits.terminal = q.terminal /\ waits.known = q.known
        /\ waits.owned = q.owned /\ waits.paused
        /\ goes \in Records /\ goes.active = q.active
        /\ goes.terminal = q.terminal /\ goes.known = q.known
        /\ goes.owned = q.owned
    BY <2>1, <2>4 DEF Records
  <2> HIDE DEF waits, goes
  <2>. QED
    BY <1>1, <2>5, EditedOpen DEF Open, Windowed, Justified, CanDrain
<1> HIDE DEF q, waits, goes
<1>. QED
  BY <1>1, <1>2, <1>3, WrittenGoesOn

LEMMA StopGoesOn ==
  ASSUME IInv, Alive, Stop
  PROVE  GoesOn /\ (Eager => Eager')
<1> DEFINE q == Opened(queue, live)
<1>1. /\ Open(q) /\ q.active = queue.active
      /\ Eager => Windowed(q) /\ Justified(q, live)
      /\ live # "closed" /\ live' = live
  BY AskedOpen DEF Alive, Stop, UserKeeps
<1>2. Touch(q) \/ Commit(Paused(q))
  BY DEF Stop
<1> HIDE DEF q
<1>3. /\ Paused(q) \in Records /\ Paused(q).active = q.active
      /\ Paused(q).terminal = q.terminal /\ Paused(q).known = q.known
      /\ Paused(q).owned = q.owned /\ Paused(q).items = q.items /\ Paused(q).paused
  BY <1>1 DEF Open, Sound, Records, Paused
<1>4. /\ Open(Paused(q)) /\ (Windowed(q) => Windowed(Paused(q))) /\ Justified(Paused(q), live)
  BY <1>1, <1>3, EditedOpen DEF Windowed, Justified, CanDrain
<1>. QED
  BY <1>1, <1>2, <1>3, <1>4, WrittenGoesOn

LEMMA FrontItem ==
  ASSUME NEW first \in WaitingItems, NEW items \in Seq(WaitingItems)
  PROVE  /\ 1 \in DOMAIN (<<first>> \o items)
         /\ (<<first>> \o items)[1] = first
<1>1. <<first>> \in Seq(WaitingItems) /\ Len(<<first>>) = 1 /\ <<first>>[1] = first
  OBVIOUS
<1>2. Len(items) \in Nat
  BY LenProperties
<1>. QED
  BY <1>1, <1>2, ConcatProperties, LenProperties

LEMMA ResumedOpen ==
  ASSUME NEW q, Open(q)
  PROVE  /\ Open(Resumed(q)) /\ Resumed(q).active = q.active
         /\ Windowed(q) => Windowed(Resumed(q))
<1>1. /\ Resumed(q) \in Records /\ Resumed(q).active = q.active
      /\ Resumed(q).terminal = q.terminal /\ Resumed(q).known = q.known
      /\ Resumed(q).items = q.items /\ Resumed(q).owned = q.owned
  BY DEF Open, Sound, Records, Resumed
<1>. QED
  BY <1>1, EditedOpen DEF Windowed

LEMMA SnapshotGoesOn ==
  ASSUME IInv, Alive, NEW l \in {"idle", "busy"}, SessionSnapshot(l)
  PROVE  GoesOn /\ (Eager => Eager')
<1>1. live' = l /\ l # "closed"
  BY DEF SessionSnapshot
<1>2. \/ ~queue.known /\ NothingQueued
      \/ queue.known /\ (\/ Touch(queue) /\ ~CanDrain(queue, l)
                         \/ CommitAndDrain(Resumed(queue), l)
                         \/ CommitAndDrain(queue, l))
  BY DEF SessionSnapshot, Alive, CanDrain
<1>3. queue.known => /\ Open(queue) /\ Open(Resumed(queue))
                     /\ Resumed(queue).active = queue.active
                     /\ Windowed(queue) => Windowed(Resumed(queue))
  BY OpenQueue, ResumedOpen DEF Open
<1>4. CASE ~queue.known /\ NothingQueued
  <2>1. Windowed(queue) => Justified(queue, l)
    BY <1>4 DEF Windowed, Justified, CanDrain, Waiting
  <2>. QED
    BY <1>1, <1>4, <2>1, UntouchedGoesOn DEF Eager
<1>5. CASE queue.known /\ Touch(queue) /\ ~CanDrain(queue, l)
  BY <1>1, <1>3, <1>5, WrittenGoesOn DEF Justified, Eager
<1>6. CASE queue.known /\ (\/ CommitAndDrain(Resumed(queue), l)
                          \/ CommitAndDrain(queue, l))
  BY <1>1, <1>3, <1>6, WrittenGoesOn DEF Eager
<1>. QED
  BY <1>2, <1>4, <1>5, <1>6

LEMMA StatusGoesOn ==
  ASSUME IInv, Alive, NEW status, StatusEvent(status)
  PROVE  /\ GoesOn
         /\ Eager /\ (live = "busy" => queue.active # None) => Eager'
<1>1. /\ live' # "closed"
      /\ live' = live \/ live' = "busy" \/ (live = "idle" /\ live' = "idle") \/ live = "busy"
  BY OpenQueue DEF StatusEvent, Alive
<1>2. \/ NothingQueued
      \/ queue.known /\ ResumeAfterActiveSettles(live')
  BY DEF StatusEvent
<1>3. queue.known => /\ Open(queue) /\ Open(Resumed(queue))
                     /\ Resumed(queue).active = queue.active
                     /\ Windowed(queue) => Windowed(Resumed(queue))
  BY OpenQueue, ResumedOpen DEF Open
<1>4. ResumeAfterActiveSettles(live') => CommitAndDrain(Resumed(queue), live')
  BY <1>1 DEF ResumeAfterActiveSettles, Checked, Alive
<1>5. Eager /\ (live = "busy" => queue.active # None) => Justified(queue, live')
  BY <1>1 DEF Eager, Justified, CanDrain
<1>6. CASE NothingQueued
  BY <1>1, <1>5, <1>6, UntouchedGoesOn
<1>7. CASE queue.known /\ ResumeAfterActiveSettles(live')
  BY <1>1, <1>3, <1>4, <1>7, WrittenGoesOn DEF Eager
<1>. QED
  BY <1>2, <1>6, <1>7

\* The end of a turn that is not the active prompt's.
LEMMA StrayTurnGoesOn ==
  ASSUME IInv, Alive, NEW t, NEW result, TurnStatus(t, result),
         queue.active = None \/ queue.active.id # t
  PROVE  GoesOn
<1>1. live' = live /\ live # "closed" /\ queue.known
  BY DEF TurnStatus, Alive
<1>2. NothingQueued \/ ResumeAfterActiveSettles(live)
  BY DEF TurnStatus
<1>3. /\ Open(queue) /\ Open(Resumed(queue))
      /\ Resumed(queue).active = queue.active
  BY <1>1, OpenQueue, ResumedOpen DEF Open, Alive
<1>4. ResumeAfterActiveSettles(live) => CommitAndDrain(Resumed(queue), live)
  BY <1>1 DEF ResumeAfterActiveSettles, Checked, Alive
<1>5. CASE NothingQueued
  BY <1>1, <1>5, UntouchedGoesOn
<1>6. CASE ResumeAfterActiveSettles(live)
  BY <1>1, <1>3, <1>4, <1>6, WrittenGoesOn
<1>. QED
  BY <1>2, <1>5, <1>6

LEMMA SteerSettlesGoesOn ==
  ASSUME IInv, Alive, NEW ok, SteerSettles(ok)
  PROVE  GoesOn /\ (Eager => Eager')
<1> DEFINE r == [queue EXCEPT !.resume = FALSE]
<1>1. live' # "closed" /\ live' = live
  BY DEF SteerSettles, Alive
<1>2. NothingQueued \/ Commit(r)
  BY DEF SteerSettles
<1>3. /\ r.active = queue.active /\ r.terminal = queue.terminal
      /\ r.known = queue.known /\ r.items = queue.items /\ r.owned = queue.owned
      /\ r.paused = queue.paused /\ r.editing = queue.editing
  BY OpenQueue DEF Sound, Records
<1>4. ASSUME Commit(r) PROVE GoesOn /\ (Eager => Eager')
  <2>1. queue' = r /\ flight' = flight
    BY <1>4 DEF Commit
  <2> HIDE DEF r
  <2>2. Dispatched = {}
    BY <2>1, OpenQueue, NothingDispatched
  <2>3. GoesOn
    BY <1>1, <1>3, <2>1, <2>2 DEF GoesOn, Kept, Active, Alive
  <2>4. /\ Windowed(queue) => Windowed(r)
        /\ Justified(queue, live) => Justified(r, live)
    BY <1>3 DEF Windowed, Justified, CanDrain, Waiting, Failing
  <2>. QED
    BY <1>1, <2>1, <2>3, <2>4 DEF Eager
<1>. QED
  BY <1>1, <1>2, <1>4, UntouchedGoesOn DEF Eager

\* The active prompt's turn ends: the one sent after it, if any, is active then.
LEMMA TurnEnds ==
  ASSUME IInv, Alive, NEW t, NEW result, queue.active # None,
         queue.active.id = t, TurnStatus(t, result)
  PROVE  Dispatched = IdOf(queue'.active) /\ Alive' /\ (Eager => Eager')
<1> DEFINE r == Settled(queue, result)
<1>1. /\ Sound(queue) /\ ~queue.terminal /\ queue.known
      /\ live # "closed" /\ live' = live
  BY OpenQueue DEF Alive, TurnStatus
<1>2. (Commit(r) /\ result = "failed") \/ CommitAndDrain(r, live)
  BY DEF TurnStatus
<1>3. /\ queue \in Records /\ queue.active \in Items
      /\ queue.items \in Seq(WaitingItems)
      /\ queue.paused \in BOOLEAN /\ queue.resume \in BOOLEAN
  BY <1>1, ItemTypes DEF Sound, Records
<1>4. <<Failed(queue.active)>> \o queue.items \in Seq(WaitingItems)
  BY <1>3, ItemTypes, ItemsOps
<1>5. /\ r \in Records /\ r.active = None
      /\ r.terminal = queue.terminal /\ r.known = queue.known /\ r.owned = queue.owned
      /\ r.items = IF result = "failed" THEN <<Failed(queue.active)>> \o queue.items
                   ELSE queue.items
  BY <1>3, <1>4 DEF Settled, Records
<1> HIDE DEF r
<1>9. Windowed(queue) => Windowed(r)
  BY <1>1, <1>5 DEF Windowed
<1>10. result = "failed" => Failing(r)
  <2> SUFFICES ASSUME result = "failed" PROVE Failing(r)
    OBVIOUS
  <2>1. /\ Failed(queue.active) \in WaitingItems
        /\ Failed(queue.active).st = "failed"
    BY <1>3, ItemTypes DEF Failed, Items
  <2>2. 1 \in DOMAIN r.items /\ r.items[1] = Failed(queue.active)
    BY <1>3, <1>5, <2>1, FrontItem
  <2>. QED
    BY <2>1, <2>2 DEF Failing
<1>6. Open(r)
  BY <1>1, <1>5 DEF Open, Sound
<1>7. CASE Commit(r) /\ ~CommitAndDrain(r, live)
  <2>1. queue' = r /\ flight' = flight
    BY <1>7 DEF Commit
  <2>2. Dispatched = {}
    BY <2>1, OpenQueue, NothingDispatched
  <2>3. Eager => Eager'
    BY <1>1, <1>2, <1>7, <1>9, <1>10, <2>1 DEF Eager, Justified
  <2>. QED
    BY <1>1, <1>5, <2>1, <2>2, <2>3 DEF Alive, IdOf
<1>8. CASE CommitAndDrain(r, live)
  <2>1. /\ ~queue'.terminal /\ queue'.known
        /\ Dispatched = IdOf(queue'.active)
        /\ Windowed(r) => Justified(queue', live) /\ Windowed(queue')
    BY <1>1, <1>5, <1>6, <1>8, DrainSends DEF IdOf
  <2>. QED
    BY <1>1, <1>9, <2>1 DEF Alive, Eager
<1>. QED
  BY <1>2, <1>7, <1>8

\* sendPrompt answers: an accepted prompt stays active.
LEMMA AnswerSettles ==
  ASSUME IInv, Alive, NEW p \in Prompts, NEW outcome, DispatchSettles(p, outcome)
  PROVE  /\ Dispatched = {} /\ Alive' /\ (outcome # "busy" /\ Eager => Eager')
         /\ IdOf(queue'.active) \subseteq Active
         /\ IdOf(queue'.active) \ {p} = Active \ {p}
         /\ outcome = "accepted" => IdOf(queue'.active) = Active
         /\ outcome # "accepted" /\ Active = {p} => queue'.active = None
<1> DEFINE r == Answered(queue, p, outcome)
           running == [queue EXCEPT !.active.st = "running"]
<1>1. queue' = r /\ live' = live
  BY DEF DispatchSettles
<1>2. Dispatched = {}
  BY OpenQueue DEF DispatchSettles, Dispatched
<1>3. queue \in Records /\ (queue.active # None => queue.active \in Items)
  BY OpenQueue, ItemTypes DEF Sound, Records
<1>4. ASSUME queue.active # None
      PROVE  /\ running.active # None /\ running.active.id = queue.active.id
             /\ running.terminal = queue.terminal /\ running.known = queue.known
             /\ running.owned = queue.owned
  <2>1. running = [queue EXCEPT !.active = [queue.active EXCEPT !.st = "running"]]
    OBVIOUS
  <2>2. [queue.active EXCEPT !.st = "running"] \in Items
    BY <1>3, <1>4 DEF Items, Statuses
  <2>3. [queue.active EXCEPT !.st = "running"].id = queue.active.id
    BY <1>3, <1>4 DEF Items
  <2> DEFINE a == [queue.active EXCEPT !.st = "running"]
  <2> HIDE DEF a, running
  <2>4. a \in Items /\ a.id = queue.active.id
    BY <2>2, <2>3 DEF a
  <2>5. running = [queue EXCEPT !.active = a]
    BY <2>1 DEF a
  <2>. QED
    BY <1>3, <2>4, <2>5, NoItemAssumption DEF Records
<1>5. \A status : LET back == PutBack(queue, p, status) IN
        /\ back.active = None /\ back.terminal = queue.terminal
        /\ back.known = queue.known /\ back.owned = queue.owned
        /\ back.items = <<[New(p) EXCEPT !.st = status]>> \o queue.items
  BY <1>3 DEF PutBack, Records
<1>6. \/ r = queue
      \/ queue.active # None /\ r = running
      \/ outcome # "accepted" /\ \E status : r = PutBack(queue, p, status)
  BY DEF Answered
<1> HIDE DEF r, running
<1>7. /\ r.terminal = queue.terminal /\ r.known = queue.known
      /\ IdOf(r.active) \subseteq Active
      /\ outcome = "accepted" => IdOf(r.active) = Active
      /\ r.active # None => queue.active # None
      /\ outcome # "accepted" /\ Active = {p} => r.active = None
  <2>1. outcome # "accepted" /\ Active = {p}
          => queue.active # None /\ queue.active.id = p
    BY DEF Active, IdOf
  <2>2. /\ outcome # "accepted" /\ Active = {p} => \E status : r = PutBack(queue, p, status)
    BY <2>1 DEF Answered, r
  <2>. QED
    BY <1>4, <1>5, <1>6, <2>2 DEF IdOf, Active
<1>8. ASSUME outcome # "busy", Eager
      PROVE  Eager'
  <2>1. CASE r = queue
    BY <1>1, <1>8, <2>1 DEF Eager
  <2>2. CASE queue.active # None /\ r = running
    <3>1. r.active # None /\ r.known /\ r.owned
      BY <1>4, <1>8, <2>2 DEF Eager, Windowed
    <3>. QED
      BY <1>1, <3>1 DEF Eager, Justified, CanDrain, Windowed
  <2>3. CASE queue.active # None /\ r = PutBack(queue, p, "failed")
    <3> DEFINE first == [New(p) EXCEPT !.st = "failed"]
    <3>1. first \in WaitingItems /\ first.st = "failed"
      BY DEF New, WaitingItems, Items, Statuses
    <3>2. r.items = <<first>> \o queue.items /\ r.known /\ r.owned
      BY <1>5, <1>8, <2>3 DEF Eager, Windowed
    <3> HIDE DEF first
    <3>3. queue.items \in Seq(WaitingItems)
      BY <1>3 DEF Records
    <3>4. 1 \in DOMAIN r.items /\ r.items[1] = first
      BY <3>1, <3>2, <3>3, FrontItem
    <3>5. Failing(r)
      BY <3>1, <3>4 DEF Failing
    <3>. QED
      BY <1>1, <3>2, <3>5 DEF Eager, Justified, Windowed
  <2>. QED
    BY <1>8, <2>1, <2>2, <2>3 DEF Answered, r, running
<1>9. IdOf(r.active) \ {p} = Active \ {p}
  <2>1. CASE queue.active = None \/ queue.active.id # p
    BY <2>1 DEF Answered, Active, r
  <2>2. CASE queue.active # None /\ queue.active.id = p
    BY <1>7, <2>2 DEF Active, IdOf
  <2>. QED
    BY <2>1, <2>2
<1>. QED
  BY <1>1, <1>2, <1>7, <1>8, <1>9 DEF Alive

-----------------------------------------------------------------------------
(* From hand to hand.                                                        *)

LEMMA ActiveOne ==
  /\ queue.active = None => Active = {}
  /\ queue.active # None => Active = {queue.active.id}
  /\ None \notin Prompts
BY NoneAssumption DEF Active, IdOf

\* Whoever has a turn is the only one.
LEMMA TheHolder ==
  ASSUME NEW M, OneTurn(M)
  PROVE  /\ Started(M) # {} => OnlyAt("stage", M)
         /\ Named(cmds, Sending(M)) # {} => OnlyAt("cmds", M)
         /\ Running(M) # {} => OnlyAt("engine", M)
         /\ Named(pipe, Ending(M)) # {} => OnlyAt("pipe", M)
         /\ Named(bg, Ending(M)) # {} => OnlyAt("bg", M)
BY DEF OneTurn, OnlyAt

LEMMA NextHolder ==
  ASSUME NEW M, NEW w \in {"stage", "cmds", "engine", "pipe", "bg"},
         w # "stage" => Started(M)' = {},
         w # "cmds" => Named(cmds', Sending(M)) = {},
         w # "engine" => Running(M)' = {},
         w # "pipe" => Named(pipe', Ending(M)) = {},
         w # "bg" => Named(bg', Ending(M)) = {},
         OneAtMost(cmds', Sending(M)), OneAtMost(pipe', Ending(M)), OneAtMost(bg', Ending(M))
  PROVE  OneTurn(M)'
BY DEF OneTurn, OnlyAt

LEMMA NextActive ==
  ASSUME NEW M,
         Started(M)' \cup Named(cmds', Sending(M)) \cup Running(M)'
           \cup Named(pipe', Ending(M)) \cup Named(bg', Ending(M))
           = IdOf(queue'.active) \ M
  PROVE  OfActive(M)'
BY DEF OfActive, Turns, Active

LEMMA NextAnswers ==
  ASSUME NEW M, OneAtMost(pipe', Accepting(M)), Before(pipe', M),
         Named(cmds', Sending(M)) \subseteq {p \in Prompts : stage'[p] = "asked"},
         Named(pipe', Accepting(M)) \subseteq {p \in Prompts : stage'[p] = "asked"},
         Named(pipe', Accepting(M)) \subseteq IdOf(queue'.active),
         Named(cmds', Sending(M)) = {} \/ Named(pipe', Accepting(M)) = {}
  PROVE  AnswersFirst(M)'
BY DEF AnswersFirst, Active

\* What is said of the prompts of M is not counted.
LEMMA HonestNames ==
  ASSUME NEW M, NEW q
  PROVE  /\ Named(q, Sending(M)) \cap M = {}
         /\ Named(q, Ending(M)) \cap M = {}
         /\ Named(q, Accepting(M)) \cap M = {}
BY DEF Named, Places, Sending, Ending, Accepting

\* A step that gives no prompt to the sidecar, accepts none and ends no turn.
SameCommands(M) ==
    /\ cmds' \in Seq(Commands)
    /\ Named(cmds', Sending(M)) = Named(cmds, Sending(M))
    /\ OneAtMost(cmds', Sending(M))

SameMessages(M) ==
    /\ pipe' \in Seq(Messages)
    /\ Named(pipe', Ending(M)) = Named(pipe, Ending(M)) /\ OneAtMost(pipe', Ending(M))
    /\ Named(pipe', Accepting(M)) = Named(pipe, Accepting(M)) /\ OneAtMost(pipe', Accepting(M))
    /\ Before(pipe', M)

SameEvents(M) ==
    /\ bg' \in Seq(Events)
    /\ Named(bg', Ending(M)) = Named(bg, Ending(M))
    /\ OneAtMost(bg', Ending(M))

Untold(M) == SameCommands(M) /\ SameMessages(M) /\ SameEvents(M)

LEMMA UntoldWhenUnchanged ==
  ASSUME NEW M, TurnTyped, OneTurn(M), AnswersFirst(M)
  PROVE  /\ cmds' = cmds => SameCommands(M)
         /\ pipe' = pipe => SameMessages(M)
         /\ bg' = bg => SameEvents(M)
BY DEF TurnTyped, OneTurn, AnswersFirst, SameCommands, SameMessages, SameEvents

\* Every turn stays where it is.
LEMMA HandsKept ==
  ASSUME NEW M, HandsInv(M), TurnTyped', Alive', Untold(M),
         Started(M)' = Started(M), Running(M)' = Running(M),
         IdOf(queue'.active) \ M = Active \ M,
         \A p \in Prompts \ M : stage[p] = "asked" => stage'[p] = "asked"
  PROVE  Handed(M)'
<1>1. OneTurn(M) /\ OfActive(M) /\ AnswersFirst(M)
  BY DEF HandsInv, Handed
<1>2. /\ Named(cmds', Sending(M)) = Named(cmds, Sending(M))
      /\ Named(pipe', Ending(M)) = Named(pipe, Ending(M))
      /\ Named(pipe', Accepting(M)) = Named(pipe, Accepting(M))
      /\ Named(bg', Ending(M)) = Named(bg, Ending(M))
      /\ OneAtMost(cmds', Sending(M)) /\ OneAtMost(bg', Ending(M))
      /\ OneAtMost(pipe', Ending(M)) /\ OneAtMost(pipe', Accepting(M)) /\ Before(pipe', M)
  BY DEF Untold, SameCommands, SameMessages, SameEvents
<1>3. OneTurn(M)'
  <2>1. PICK w \in {"stage", "cmds", "engine", "pipe", "bg"} : OnlyAt(w, M)
    BY <1>1 DEF OneTurn
  <2>. QED
    BY <1>2, <2>1, NextHolder DEF OnlyAt
<1>4. OfActive(M)'
  BY <1>1, <1>2, NextActive DEF OfActive, Turns
<1>5. AnswersFirst(M)'
  <2>1. Named(cmds, Sending(M)) \cup Named(pipe, Accepting(M)) \subseteq Prompts \ M
    BY <1>1, HonestNames DEF AnswersFirst
  <2>2. /\ Named(cmds, Sending(M)) \subseteq {p \in Prompts : stage'[p] = "asked"}
        /\ Named(pipe, Accepting(M)) \subseteq {p \in Prompts : stage'[p] = "asked"}
    BY <1>1, <2>1 DEF AnswersFirst
  <2>3. Named(pipe, Accepting(M)) \subseteq IdOf(queue'.active)
    BY <1>1, <2>1 DEF AnswersFirst
  <2>. QED
    BY <1>1, <1>2, <2>2, <2>3, NextAnswers DEF AnswersFirst
<1>. QED
  BY <1>3, <1>4, <1>5 DEF Handed

\* The turn stays where it is, and if there is none a new one may begin.
LEMMA StaysOrBegins ==
  ASSUME NEW M, HandsInv(M), Alive', StagesFollow, Untold(M),
         Kept \/ (Active \subseteq M /\ Dispatched = IdOf(queue'.active)),
         Running(M)' = Running(M),
         turn' \in Prompts \cup {None},
         prep' \in {"none", "asked", "idle", "busy"},
         session' \in {"none", "idle", "busy", "error"}
  PROVE  Handed(M)'
<1>1. TurnTyped /\ OneTurn(M) /\ OfActive(M) /\ AnswersFirst(M)
  BY DEF HandsInv, Handed
<1>2. /\ cmds' \in Seq(Commands) /\ Named(cmds', Sending(M)) = Named(cmds, Sending(M))
      /\ pipe' \in Seq(Messages) /\ Named(pipe', Ending(M)) = Named(pipe, Ending(M))
      /\ Named(pipe', Accepting(M)) = Named(pipe, Accepting(M))
      /\ bg' \in Seq(Events) /\ Named(bg', Ending(M)) = Named(bg, Ending(M))
  BY DEF Untold, SameCommands, SameMessages, SameEvents
<1>3. /\ OneAtMost(cmds', Sending(M)) /\ OneAtMost(bg', Ending(M))
      /\ OneAtMost(pipe', Ending(M)) /\ OneAtMost(pipe', Accepting(M)) /\ Before(pipe', M)
  BY DEF Untold, SameCommands, SameMessages, SameEvents
<1>4. TurnTyped'
  BY <1>1, <1>2 DEF TurnTyped, StagesFollow
<1>5. Started(M)' = (Started(M) \cup Dispatched) \ M
  BY <1>1 DEF Started, StagesFollow, TurnTyped, Dispatched
<1>6. CASE Kept
  <2>1. IdOf(queue'.active) = Active /\ Dispatched = {}
    BY <1>6 DEF Kept
  <2>2. Started(M)' = Started(M) /\ \A p \in Prompts : stage'[p] = stage[p]
    BY <1>5, <2>1 DEF Started, StagesFollow
  <2>. QED
    BY <1>4, <2>1, <2>2, HandsKept
<1>7. CASE Active \subseteq M /\ Dispatched = IdOf(queue'.active)
  <2>1. /\ Started(M) = {} /\ Running(M) = {} /\ Named(cmds, Sending(M)) = {}
        /\ Named(pipe, Ending(M)) = {} /\ Named(bg, Ending(M)) = {}
    BY <1>1, <1>7 DEF OfActive, Turns
  <2>2. Named(pipe, Accepting(M)) = {}
    BY <1>1, <1>7, HonestNames DEF AnswersFirst
  <2>3. Started(M)' = IdOf(queue'.active) \ M
    BY <1>5, <1>7, <2>1
  <2>4. OneTurn(M)'
    BY <1>2, <1>3, <2>1, NextHolder
  <2>5. OfActive(M)'
    BY <1>2, <2>1, <2>3, NextActive
  <2>6. AnswersFirst(M)'
    BY <1>2, <1>3, <2>1, <2>2, NextAnswers
  <2>. QED
    BY <1>4, <2>4, <2>5, <2>6 DEF Handed
<1>. QED
  BY <1>6, <1>7

LEMMA TurnsGoOn ==
  ASSUME NEW M, HandsInv(M), GoesOn, StagesFollow, Untold(M), turn' = turn,
         prep' \in {"none", "asked", "idle", "busy"},
         session' \in {"none", "idle", "busy", "error"}
  PROVE  Handed(M)'
<1>1. Running(M)' = Running(M)
  BY DEF Running
<1>2. turn' \in Prompts \cup {None}
  BY DEF HandsInv, Handed, TurnTyped
<1>3. Kept \/ (Active \subseteq M /\ Dispatched = IdOf(queue'.active))
  BY ActiveOne DEF GoesOn, Sent
<1>. QED
  BY <1>1, <1>2, <1>3, StaysOrBegins DEF GoesOn

\* The queue and its sends are left alone.
LEMMA QueueLeft ==
  ASSUME NEW M, HandsInv(M), UNCHANGED vars
  PROVE  /\ GoesOn /\ Kept /\ queue' = queue
         /\ IdOf(queue'.active) = Active
         /\ stage' = stage => StagesFollow
<1>1. IInv /\ Alive /\ TurnTyped
  BY DEF HandsInv, Handed
<1>2. flight' = flight /\ queue' = queue /\ live' = live
  BY DEF vars
<1>3. Dispatched = {}
  BY <1>1, <1>2, OpenQueue, NothingDispatched
<1>4. GoesOn /\ Kept /\ IdOf(queue'.active) = Active
  BY <1>1, <1>2, <1>3 DEF GoesOn, Kept, Active, Alive
<1>5. stage = [p \in Prompts |-> stage[p]]
  BY <1>1 DEF TurnTyped
<1>. QED
  BY <1>2, <1>3, <1>4, <1>5 DEF StagesFollow

LEMMA AppendedCommand ==
  ASSUME NEW M, TurnTyped, OneTurn(M), NEW c \in Commands, c \notin Sending(M),
         cmds' = Append(cmds, c)
  PROVE  SameCommands(M)
BY AppendedNames, AppendAt DEF TurnTyped, OneTurn, SameCommands

LEMMA EditsHanded ==
  ASSUME NEW M, HandsInv(M), Edits
  PROVE  Handed(M)'
<1>1. IInv /\ Alive /\ TurnTyped /\ OneTurn(M) /\ AnswersFirst(M)
  BY DEF HandsInv, Handed
<1>2. GoesOn
  BY <1>1, EditsGoOn
<1>3. StagesFollow /\ UNCHANGED <<prep, cmds, pipe, bg, session, turn>>
  BY DEF Edits, Elsewhere, channels, sidecar
<1>4. Untold(M)
  BY <1>1, <1>3, UntoldWhenUnchanged DEF Untold
<1>. QED
  BY <1>1, <1>2, <1>3, <1>4, TurnsGoOn DEF TurnTyped

LEMMA CancelsHanded ==
  ASSUME NEW M, HandsInv(M), StopTurn \/ \E p \in Prompts : SteerTurn(p)
  PROVE  Handed(M)'
<1>1. IInv /\ Alive /\ TurnTyped /\ OneTurn(M) /\ AnswersFirst(M)
  BY DEF HandsInv, Handed
<1>2. GoesOn
  BY <1>1, StopGoesOn, SteerGoesOn DEF StopTurn, SteerTurn
<1>3. StagesFollow /\ UNCHANGED <<prep, pipe, bg, session, turn>>
  BY DEF StopTurn, SteerTurn, Elsewhere, sidecar
<1>4. \/ cmds' = cmds
      \/ \E s \in BOOLEAN : cmds' = Append(cmds, [op |-> "cancel", steer |-> s])
  BY DEF StopTurn, SteerTurn, Cancel
<1>5. \A s \in BOOLEAN : LET c == [op |-> "cancel", steer |-> s] IN
        c \in Commands /\ c \notin Sending(M)
  BY DEF Commands, Sending
<1>6. Untold(M)
  BY <1>1, <1>3, <1>4, <1>5, UntoldWhenUnchanged, AppendedCommand DEF Untold
<1>. QED
  BY <1>1, <1>2, <1>3, <1>6, TurnsGoOn DEF TurnTyped

LEMMA PreparingHanded ==
  ASSUME NEW M, HandsInv(M), Prepare \/ Prepared
  PROVE  Handed(M)'
<1>1. IInv /\ Alive /\ TurnTyped /\ OneTurn(M) /\ AnswersFirst(M)
  BY DEF HandsInv, Handed
<1>2. CASE Prepare
  <2>1. /\ prep' = "asked" /\ UNCHANGED <<vars, stage, pipe, bg, session, turn>>
        /\ cmds' = Append(cmds, [op |-> "prepare"])
    BY <1>2 DEF Prepare, sidecar
  <2>2. [op |-> "prepare"] \in Commands /\ [op |-> "prepare"] \notin Sending(M)
    BY DEF Commands, Sending
  <2>3. Untold(M)
    BY <1>1, <2>1, <2>2, UntoldWhenUnchanged, AppendedCommand DEF Untold
  <2>4. GoesOn /\ StagesFollow
    BY <2>1, QueueLeft
  <2>. QED
    BY <1>1, <2>1, <2>3, <2>4, TurnsGoOn DEF TurnTyped
<1>3. CASE Prepared
  <2>1. /\ prep' = "none" /\ UNCHANGED <<cmds, pipe, bg, session, turn>>
        /\ prep \in {"idle", "busy"} /\ SessionSnapshot(prep) /\ StagesFollow
    BY <1>3 DEF Prepared, Elsewhere, channels, sidecar
  <2>2. Untold(M)
    BY <1>1, <2>1, UntoldWhenUnchanged DEF Untold
  <2>3. GoesOn
    BY <1>1, <2>1, SnapshotGoesOn
  <2>. QED
    BY <1>1, <2>1, <2>2, <2>3, TurnsGoOn DEF TurnTyped
<1>. QED
  BY <1>2, <1>3

\* sendPrompt hands the prompt to the sidecar, or keeps it to say that it failed.
LEMMA SendHanded ==
  ASSUME NEW M, HandsInv(M), NEW p \in Prompts, Send(p)
  PROVE  Handed(M)'
<1> DEFINE c == [op |-> "send", id |-> p]
<1>1. IInv /\ Alive /\ TurnTyped /\ OneTurn(M) /\ OfActive(M) /\ AnswersFirst(M)
  BY DEF HandsInv, Handed
<1>2. /\ stage[p] = "preparing" /\ stage' = [stage EXCEPT ![p] = "asked"]
      /\ cmds' = Append(cmds, c)
      /\ UNCHANGED <<vars, prep, pipe, bg, session, turn>>
  BY DEF Send, sidecar
<1>3. c \in Commands /\ (c \in Sending(M) <=> p \notin M) /\ c.id = p
  BY DEF Commands, Sending
<1> HIDE DEF c
<1>4. GoesOn /\ IdOf(queue'.active) = Active /\ Running(M)' = Running(M)
  BY <1>2, QueueLeft DEF Running
<1>5. /\ Started(M)' = Started(M) \ {p} /\ stage'[p] = "asked"
      /\ \A r \in Prompts : stage[r] = "asked" => stage'[r] = "asked"
  BY <1>1, <1>2 DEF Started, TurnTyped
<1>6. cmds' \in Seq(Commands)
  BY <1>1, <1>2, <1>3, AppendAt DEF TurnTyped
<1>7. TurnTyped'
  BY <1>1, <1>2, <1>6 DEF TurnTyped
<1>8. CASE p \in M
  <2>1. Untold(M)
    BY <1>1, <1>2, <1>3, <1>8, UntoldWhenUnchanged, AppendedCommand DEF Untold
  <2>2. Started(M)' = Started(M)
    BY <1>5, <1>8 DEF Started
  <2>. QED
    BY <1>4, <1>5, <1>7, <2>1, <2>2, HandsKept DEF GoesOn
<1>9. CASE p \notin M
  <2>1. p \in Started(M)
    BY <1>2, <1>9 DEF Started
  <2>2. OnlyAt("stage", M) /\ Active = {p} /\ Started(M)' = {}
    BY <1>1, <1>5, <2>1, TheHolder, ActiveOne DEF OfActive, Turns
  <2>3. /\ Running(M)' = {} /\ Named(cmds, Sending(M)) = {}
        /\ Named(pipe, Ending(M)) = {} /\ Named(bg, Ending(M)) = {}
    BY <1>4, <2>2 DEF OnlyAt
  <2>4. Named(pipe, Accepting(M)) = {}
    <3>1. Named(pipe, Accepting(M)) \subseteq {p}
                /\ Named(pipe, Accepting(M)) \subseteq {r \in Prompts : stage[r] = "asked"}
      BY <1>1, <2>2 DEF AnswersFirst
    <3>. QED
      BY <1>2, <3>1
  <2>5. Named(cmds', Sending(M)) = {p} /\ OneAtMost(cmds', Sending(M))
    <3>1. cmds \in Seq(Commands) /\ OneAtMost(cmds, Sending(M))
      BY <1>1 DEF TurnTyped, OneTurn
    <3>2. /\ Named(Append(cmds, c), Sending(M)) = Named(cmds, Sending(M)) \cup {c.id}
          /\ OneAtMost(Append(cmds, c), Sending(M))
      BY <1>3, <1>9, <2>3, <3>1, AppendedNames
    <3>. QED
      BY <1>2, <1>3, <2>3, <3>2
  <2>6. /\ Named(pipe', Ending(M)) = {} /\ OneAtMost(pipe', Ending(M))
        /\ Named(pipe', Accepting(M)) = {} /\ OneAtMost(pipe', Accepting(M)) /\ Before(pipe', M)
        /\ Named(bg', Ending(M)) = {} /\ OneAtMost(bg', Ending(M))
    BY <1>1, <1>2, <2>3, <2>4, UntoldWhenUnchanged DEF SameMessages, SameEvents
  <2>7. OneTurn(M)'
    BY <2>2, <2>3, <2>5, <2>6, NextHolder
  <2>8. OfActive(M)'
    BY <1>4, <1>9, <2>2, <2>3, <2>5, <2>6, NextActive
  <2>9. AnswersFirst(M)'
    BY <1>5, <2>5, <2>6, NextAnswers
  <2>. QED
    BY <1>4, <1>7, <2>7, <2>8, <2>9 DEF Handed, GoesOn
<1>. QED
  BY <1>8, <1>9

LEMMA SendFailsHanded ==
  ASSUME NEW M, HandsInv(M), NEW p \in Prompts, SendFails(p)
  PROVE  Handed(M)'
<1>1. TurnTyped /\ OneTurn(M) /\ AnswersFirst(M)
  BY DEF HandsInv, Handed
<1>2. /\ stage[p] = "preparing" /\ stage' = [stage EXCEPT ![p] = "failed"]
      /\ UNCHANGED <<vars, prep, cmds, pipe, bg, session, turn>>
  BY DEF SendFails, channels, sidecar
<1>3. GoesOn /\ IdOf(queue'.active) = Active /\ Running(M)' = Running(M)
  BY <1>2, QueueLeft DEF Running
<1>4. /\ Started(M)' = Started(M)
      /\ \A r \in Prompts : stage[r] = "asked" => stage'[r] = "asked"
  BY <1>1, <1>2 DEF Started, TurnTyped
<1>5. TurnTyped'
  BY <1>1, <1>2 DEF TurnTyped, Answers
<1>6. Untold(M)
  BY <1>1, <1>2, UntoldWhenUnchanged DEF Untold
<1>. QED
  BY <1>3, <1>4, <1>5, <1>6, HandsKept DEF GoesOn

\* The queue takes the answer of sendPrompt.
LEMMA SettleHanded ==
  ASSUME NEW M, HandsInv(M), NEW p \in Prompts, Settle(p)
  PROVE  Handed(M)'
<1>1. IInv /\ Alive /\ TurnTyped /\ OneTurn(M) /\ OfActive(M) /\ AnswersFirst(M)
  BY DEF HandsInv, Handed
<1>2. /\ stage[p] \in Answers /\ stage' = [stage EXCEPT ![p] = "none"]
      /\ DispatchSettles(p, stage[p])
      /\ UNCHANGED <<prep, cmds, pipe, bg, session, turn>>
  BY DEF Settle, channels, sidecar
<1>3. /\ Alive'
      /\ IdOf(queue'.active) \ {p} = Active \ {p}
      /\ stage[p] = "accepted" => IdOf(queue'.active) = Active
      /\ stage[p] # "accepted" /\ Active = {p} => queue'.active = None
  BY <1>1, <1>2, AnswerSettles
<1>4. TurnTyped'
  BY <1>1, <1>2 DEF TurnTyped
<1>5. /\ Started(M)' = Started(M) \ {p}
      /\ \A r \in Prompts : stage[r] = "asked" => stage'[r] = "asked"
  BY <1>1, <1>2 DEF Started, TurnTyped, Answers
<1>6. Running(M)' = Running(M)
  BY <1>2 DEF Running
<1>7. Untold(M)
  BY <1>1, <1>2, UntoldWhenUnchanged DEF Untold
<1>8. CASE p \in M \/ stage[p] = "accepted"
  <2>1. Started(M)' = Started(M)
    BY <1>5, <1>8 DEF Started
  <2>2. IdOf(queue'.active) \ M = Active \ M
    BY <1>3, <1>8
  <2>. QED
    BY <1>3, <1>4, <1>5, <1>6, <1>7, <2>1, <2>2, HandsKept
<1>9. CASE p \notin M /\ stage[p] # "accepted"
  <2>1. p \in Started(M)
    BY <1>2, <1>9 DEF Started, Answers
  <2>2. OnlyAt("stage", M) /\ Started(M)' = {} /\ Active = {p}
    BY <1>1, <1>5, <2>1, TheHolder, ActiveOne DEF OfActive, Turns
  <2>3. IdOf(queue'.active) = {}
    BY <1>3, <1>9, <2>2 DEF IdOf
  <2>4. /\ Named(cmds, Sending(M)) = {} /\ Running(M) = {}
        /\ Named(pipe, Ending(M)) = {} /\ Named(bg, Ending(M)) = {}
    BY <2>2 DEF OnlyAt
  <2>5. Named(pipe, Accepting(M)) = {}
    <3>1. stage[p] # "asked"
      BY <2>1 DEF Started
    <3>. QED
      BY <1>1, <2>2, <3>1 DEF AnswersFirst
  <2>6. /\ Named(cmds', Sending(M)) = {} /\ Named(bg', Ending(M)) = {}
        /\ Named(pipe', Ending(M)) = {} /\ Named(pipe', Accepting(M)) = {}
        /\ OneAtMost(cmds', Sending(M)) /\ OneAtMost(bg', Ending(M))
        /\ OneAtMost(pipe', Ending(M)) /\ OneAtMost(pipe', Accepting(M)) /\ Before(pipe', M)
    BY <1>7, <2>4, <2>5 DEF Untold, SameCommands, SameMessages, SameEvents
  <2>7. OneTurn(M)'
    BY <1>6, <2>2, <2>4, <2>6, NextHolder
  <2>8. OfActive(M)'
    BY <1>6, <2>2, <2>3, <2>4, <2>6, NextActive
  <2>9. AnswersFirst(M)'
    BY <2>6, NextAnswers
  <2>. QED
    BY <1>3, <1>4, <2>7, <2>8, <2>9 DEF Handed
<1>. QED
  BY <1>8, <1>9

-----------------------------------------------------------------------------
(* The sidecar.                                                              *)

LEMMA PairNames ==
  ASSUME NEW S, NEW K, NEW s \in Seq(S), NEW e \in S, NEW f \in S, e \notin K
  PROVE  /\ s \o <<e, f>> \in Seq(S)
         /\ f \notin K => Named(s \o <<e, f>>, K) = Named(s, K)
         /\ f \in K => Named(s \o <<e, f>>, K) = Named(s, K) \cup {f.id}
         /\ OneAtMost(s, K) /\ (Named(s, K) = {} \/ f \notin K)
              => OneAtMost(s \o <<e, f>>, K)
<1> DEFINE t == <<e, f>>
<1>1. Places(t, K) = IF f \in K THEN {2} ELSE {}
  <2>1. DOMAIN t = {1, 2} /\ t[1] = e /\ t[2] = f
    OBVIOUS
  <2> HIDE DEF t
  <2>. QED
    BY <2>1 DEF Places
<1>2. t[2] = f /\ t \in Seq(S)
  OBVIOUS
<1> HIDE DEF t
<1>3. /\ f \in K => Named(t, K) = {f.id}
      /\ f \notin K => Named(t, K) = {}
      /\ OneAtMost(t, K)
  BY <1>1, <1>2 DEF Named, OneAtMost
<1>4. /\ Named(s \o t, K) = Named(s, K) \cup Named(t, K)
      /\ OneAtMost(s, K) /\ OneAtMost(t, K) /\ (Named(s, K) = {} \/ Named(t, K) = {})
           => OneAtMost(s \o t, K)
  BY <1>2, JoinedNames
<1>5. s \o t \in Seq(S)
  BY <1>2, ConcatProperties
<1>. QED
  BY <1>3, <1>4, <1>5 DEF t

LEMMA MessageKinds ==
  ASSUME NEW M
  PROVE
  /\ \A s \in {"idle", "busy", "error"} :
       /\ [k |-> "status", status |-> s] \in Messages \cap Events
       /\ [k |-> "status", status |-> s] \notin Ending(M) \cup Accepting(M)
  /\ \A s \in {"idle", "busy", "error", "failed"} :
       /\ PreparedAs(s) \in Messages
       /\ PreparedAs(s) \notin Ending(M) \cup Accepting(M)
  /\ \A ok, s \in BOOLEAN :
       /\ [k |-> "cancelled", ok |-> ok, steer |-> s] \in Messages
       /\ [k |-> "cancelled", ok |-> ok, steer |-> s] \notin Ending(M) \cup Accepting(M)
  /\ \A p \in Prompts, r \in {"settled", "failed"} :
       /\ TurnEvent(p, r) \in Messages \cap Events
       /\ TurnEvent(p, r).id = p
       /\ TurnEvent(p, r) \in Ending(M) <=> p \notin M
       /\ TurnEvent(p, r) \notin Accepting(M)
  /\ \A p \in Prompts, o \in Answers :
       /\ Answer(p, o) \in Messages
       /\ Answer(p, o).id = p
       /\ Answer(p, o) \in Ending(M) <=> o # "accepted" /\ p \notin M
       /\ Answer(p, o) \in Accepting(M) <=> o = "accepted" /\ p \notin M
<1>1. /\ \A s \in {"idle", "busy", "error"} : [k |-> "status", status |-> s] \in Messages
      /\ \A s \in {"idle", "busy", "error", "failed"} : PreparedAs(s) \in Messages
  BY DEF Messages, PreparedAs
<1>2. \A ok, s \in BOOLEAN : [k |-> "cancelled", ok |-> ok, steer |-> s] \in Messages
  BY DEF Messages
<1>3. \A p \in Prompts, r \in {"settled", "failed"} : TurnEvent(p, r) \in Messages
  BY DEF Messages, TurnEvent
<1>4. \A p \in Prompts, o \in Answers : Answer(p, o) \in Messages
  BY DEF Messages, Answer
<1>. QED
  BY <1>1, <1>2, <1>3, <1>4 DEF Ending, Accepting, TurnEvent, Answer, PreparedAs, Events

\* What can be said of a message by its kind.
LEMMA MessageParts ==
  ASSUME NEW M, NEW m \in Messages
  PROVE  /\ m.k \in {"status", "prepared", "turn", "answer", "cancelled"}
         /\ m.k \in {"turn", "answer"} => m.id \in Prompts
         /\ m.k = "answer" => m.outcome \in Answers
         /\ m.k = "cancelled" => m.ok \in BOOLEAN
         /\ m.k = "status" => m.status \in {"idle", "busy", "error"}
         /\ m.k = "turn" => m.result \in {"settled", "failed"}
         /\ m \in Ending(M) <=>
              /\ m.k = "turn" \/ (m.k = "answer" /\ m.outcome # "accepted")
              /\ m.id \notin M
         /\ m \in Accepting(M) <=>
              m.k = "answer" /\ m.outcome = "accepted" /\ m.id \notin M
         /\ m \in Events <=> m.k \in {"status", "turn"}
BY DEF Messages, Ending, Accepting, Events

LEMMA CommandParts ==
  ASSUME NEW M, NEW c \in Commands
  PROVE  /\ c \in Sending(M) <=> c.op = "send" /\ c.id \notin M
         /\ c.op = "send" => c.id \in Prompts
         /\ c.op = "cancel" => c.steer \in BOOLEAN
BY DEF Commands, Sending

\* The main loop takes a command.
LEMMA CommandTaken ==
  ASSUME NEW M, TurnTyped, OneTurn(M), cmds # << >>, cmds' = Tail(cmds)
  PROVE  /\ cmds' \in Seq(Commands) /\ Head(cmds) \in Commands
         /\ Head(cmds).op = "send" => Head(cmds).id \in Prompts
         /\ Head(cmds) \in Sending(M) \/ SameCommands(M)
         /\ Head(cmds) \in Sending(M) <=> Head(cmds).op = "send" /\ Head(cmds).id \notin M
         /\ OneAtMost(cmds', Sending(M))
         /\ Head(cmds) \in Sending(M) => /\ Named(cmds', Sending(M)) = {}
                                         /\ Head(cmds).id \in Named(cmds, Sending(M))
<1>1. cmds \in Seq(Commands) /\ OneAtMost(cmds, Sending(M))
  BY DEF TurnTyped, OneTurn
<1>2. Head(cmds) \in Commands /\ Tail(cmds) \in Seq(Commands)
  BY <1>1, TailAt
<1>3. /\ OneAtMost(Tail(cmds), Sending(M))
      /\ Head(cmds) \in Sending(M) => /\ Named(Tail(cmds), Sending(M)) = {}
                                      /\ Head(cmds).id \in Named(cmds, Sending(M))
      /\ Head(cmds) \notin Sending(M) => Named(Tail(cmds), Sending(M)) = Named(cmds, Sending(M))
  BY <1>1, TakenNames
<1>. QED
  BY <1>2, <1>3, CommandParts DEF SameCommands

\* What the invariant asks of the pipe.
Fits(q, M) ==
    /\ q \in Seq(Messages)
    /\ OneAtMost(q, Ending(M)) /\ OneAtMost(q, Accepting(M)) /\ Before(q, M)

Plain(M) == Messages \ (Ending(M) \cup Accepting(M))

LEMMA PlainAdded ==
  ASSUME NEW M, NEW q, Fits(q, M), NEW e \in Plain(M)
  PROVE  /\ Fits(Append(q, e), M)
         /\ Named(Append(q, e), Ending(M)) = Named(q, Ending(M))
         /\ Named(Append(q, e), Accepting(M)) = Named(q, Accepting(M))
<1>1. /\ q \in Seq(Messages) /\ e \in Messages /\ e \notin Ending(M) /\ e \notin Accepting(M)
      /\ OneAtMost(q, Ending(M)) /\ OneAtMost(q, Accepting(M)) /\ Before(q, M)
  BY DEF Fits, Plain
<1>2. /\ Named(Append(q, e), Ending(M)) = Named(q, Ending(M))
      /\ OneAtMost(Append(q, e), Ending(M))
  BY <1>1, AppendedNames
<1>3. /\ Named(Append(q, e), Accepting(M)) = Named(q, Accepting(M))
      /\ OneAtMost(Append(q, e), Accepting(M))
  BY <1>1, AppendedNames
<1>4. Places(Append(q, e), Ending(M)) = Places(q, Ending(M)) /\ Append(q, e) \in Seq(Messages)
  <2>1. /\ Places(Append(q, e), Ending(M))
             = Places(q, Ending(M)) \cup (IF e \in Ending(M) THEN {Len(q) + 1} ELSE {})
        /\ Append(q, e) \in Seq(Messages)
    BY <1>1, PlacesAppended
  <2>. QED
    BY <1>1, <2>1
<1>5. Places(Append(q, e), Accepting(M)) = Places(q, Accepting(M))
  <2>1. Places(Append(q, e), Accepting(M))
          = Places(q, Accepting(M)) \cup (IF e \in Accepting(M) THEN {Len(q) + 1} ELSE {})
    BY <1>1, PlacesAppended
  <2>. QED
    BY <1>1, <2>1
<1>. QED
  BY <1>1, <1>2, <1>3, <1>4, <1>5 DEF Fits, Before

LEMMA PairAppended ==
  ASSUME NEW S, NEW s \in Seq(S), NEW e \in S, NEW f \in S
  PROVE  s \o <<e, f>> = Append(Append(s, e), f)
OBVIOUS

LEMMA PipeFits ==
  ASSUME NEW M, TurnTyped, OneTurn(M), AnswersFirst(M)
  PROVE  Fits(pipe, M)
BY DEF TurnTyped, OneTurn, AnswersFirst, Fits

\* One message, or two, that speak of no turn.
LEMMA MessagesAdded ==
  ASSUME NEW M, TurnTyped, OneTurn(M), AnswersFirst(M), NEW e \in Plain(M), NEW f \in Plain(M),
         pipe' \in {Append(pipe, e), pipe \o <<e, f>>}
  PROVE  SameMessages(M)
<1> DEFINE one == Append(pipe, e)
           two == Append(one, f)
<1>1. /\ Fits(one, M) /\ Named(one, Ending(M)) = Named(pipe, Ending(M))
      /\ Named(one, Accepting(M)) = Named(pipe, Accepting(M))
  BY PipeFits, PlainAdded
<1> HIDE DEF one
<1>2. /\ Fits(two, M) /\ Named(two, Ending(M)) = Named(one, Ending(M))
      /\ Named(two, Accepting(M)) = Named(one, Accepting(M))
  BY <1>1, PlainAdded
<1> HIDE DEF two
<1>3. pipe \o <<e, f>> = two
  BY PairAppended DEF one, two, Plain, TurnTyped
<1>4. pipe' = one \/ pipe' = two
  BY <1>3 DEF one
<1>. QED
  BY <1>1, <1>2, <1>4 DEF SameMessages, Fits

LEMMA EventAdded ==
  ASSUME NEW M, TurnTyped, OneTurn(M), NEW e \in Plain(M), e \in Events, bg' = Append(bg, e)
  PROVE  SameEvents(M)
<1>1. bg \in Seq(Events) /\ OneAtMost(bg, Ending(M)) /\ e \in Events /\ e \notin Ending(M)
  BY DEF TurnTyped, OneTurn, Plain
<1>2. Append(bg, e) \in Seq(Events)
  BY <1>1, AppendAt
<1>3. /\ Named(Append(bg, e), Ending(M)) = Named(bg, Ending(M))
      /\ OneAtMost(Append(bg, e), Ending(M))
  BY <1>1, AppendedNames
<1>. QED
  BY <1>2, <1>3 DEF SameEvents

LEMMA EnginePrepareHanded ==
  ASSUME NEW M, HandsInv(M), EnginePrepare
  PROVE  Handed(M)'
<1> DEFINE e == PreparedAs(session')
           f == [k |-> "status", status |-> session']
           no == PreparedAs("failed")
<1>1. TurnTyped /\ OneTurn(M) /\ AnswersFirst(M)
  BY DEF HandsInv, Handed
<1>2. /\ cmds # <<>> /\ cmds' = Tail(cmds) /\ Head(cmds).op = "prepare"
      /\ \/ /\ session' = IF session = "none" THEN "idle" ELSE session
            /\ pipe' = pipe \o <<e, f>>
         \/ session' \in {session, "idle"} /\ pipe' = Append(pipe, no)
      /\ UNCHANGED <<vars, stage, prep, bg, turn>>
  BY DEF EnginePrepare
<1>3. session' \in {"none", "idle", "busy", "error"}
  BY <1>1, <1>2 DEF TurnTyped
<1>4. SameMessages(M)
  <2>1. CASE session' # "none" /\ pipe' = pipe \o <<e, f>>
    <3>1. e \in Plain(M) /\ f \in Plain(M)
      BY <1>3, <2>1, MessageKinds DEF Plain
    <3> HIDE DEF e, f
    <3>. QED
      BY <1>1, <2>1, <3>1, MessagesAdded
  <2>2. CASE pipe' = Append(pipe, no)
    <3>1. no \in Plain(M)
      BY MessageKinds DEF Plain
    <3> HIDE DEF no
    <3>. QED
      BY <1>1, <2>2, <3>1, MessagesAdded
  <2>. QED
    BY <1>2, <2>1, <2>2
<1> HIDE DEF e, f, no
<1>5. Untold(M)
  BY <1>1, <1>2, <1>4, CommandTaken, UntoldWhenUnchanged DEF Untold
<1>6. GoesOn /\ StagesFollow
  BY <1>2, QueueLeft
<1>. QED
  BY <1>1, <1>2, <1>3, <1>5, <1>6, TurnsGoOn DEF TurnTyped

\* A prompt that is answered once, and not begun, is on its way back.
LEMMA PromptReturns ==
  ASSUME NEW M, HandsInv(M), NEW p \in Prompts \ M, NEW no \in Ending(M), no.id = p,
         no \notin Accepting(M), OnlyAt("cmds", M), Active = {p},
         cmds' \in Seq(Commands), Named(cmds', Sending(M)) = {}, OneAtMost(cmds', Sending(M)),
         pipe' = Append(pipe, no), session' \in {"none", "idle", "busy", "error"},
         UNCHANGED <<vars, stage, prep, bg, turn>>,
         Named(pipe, Accepting(M)) = {}
  PROVE  Handed(M)'
<1>1. TurnTyped /\ OneTurn(M) /\ OfActive(M) /\ AnswersFirst(M)
  BY DEF HandsInv, Handed
<1>2. pipe \in Seq(Messages) /\ OneAtMost(pipe, Ending(M)) /\ OneAtMost(pipe, Accepting(M))
  BY <1>1 DEF TurnTyped, OneTurn, AnswersFirst
<1>3. no \in Messages
  BY DEF Ending
<1>4. /\ Started(M)' = {} /\ Running(M)' = {} /\ Named(pipe, Ending(M)) = {}
      /\ Named(bg', Ending(M)) = {}
  BY DEF OnlyAt, Started, Running
<1>5. GoesOn /\ IdOf(queue'.active) = {p}
  BY QueueLeft
<1>6. bg' \in Seq(Events) /\ OneAtMost(bg', Ending(M))
  BY <1>1 DEF TurnTyped, OneTurn
<1>7. Named(pipe', Ending(M)) = {p} /\ OneAtMost(pipe', Ending(M))
  BY <1>2, <1>3, <1>4, AppendedNames
<1>8. Named(pipe', Accepting(M)) = {} /\ OneAtMost(pipe', Accepting(M))
  BY <1>2, <1>3, AppendedNames
<1>9. pipe' \in Seq(Messages)
  BY <1>2, <1>3, AppendAt
<1>10. Before(pipe', M)
  BY <1>8, NamesAndPlaces DEF Before
<1>11. TurnTyped'
  BY <1>1, <1>6, <1>9 DEF TurnTyped
<1>12. OneTurn(M)'
  BY <1>4, <1>6, <1>7, NextHolder
<1>13. OfActive(M)'
  BY <1>4, <1>5, <1>7, NextActive
<1>14. AnswersFirst(M)'
  BY <1>8, <1>10, NextAnswers
<1>. QED
  BY <1>5, <1>11, <1>12, <1>13, <1>14 DEF Handed, GoesOn

\* What the pipe holds of a turn that begins.
LEMMA Acceptance ==
  ASSUME NEW M, NEW q, Fits(q, M), NEW busy, busy \in Plain(M), NEW yes, yes \in Accepting(M),
         yes \notin Ending(M), Named(q, Ending(M)) = {}, Named(q, Accepting(M)) = {}
  PROVE  /\ Fits(q \o <<busy, yes>>, M) /\ Named(q \o <<busy, yes>>, Ending(M)) = {}
         /\ Named(q \o <<busy, yes>>, Accepting(M)) = {yes.id}
<1> DEFINE r == q \o <<busy, yes>>
<1>1. q \in Seq(Messages) /\ busy \in Messages /\ yes \in Messages
  BY DEF Fits, Plain, Accepting
<1>2. \A K : busy \notin K =>
        /\ r \in Seq(Messages)
        /\ yes \notin K => Named(r, K) = Named(q, K)
        /\ yes \in K => Named(r, K) = Named(q, K) \cup {yes.id}
        /\ OneAtMost(q, K) /\ (Named(q, K) = {} \/ yes \notin K) => OneAtMost(r, K)
  <2> TAKE K
  <2> HAVE busy \notin K
  <2>. QED
    BY <1>1, PairNames
<1> HIDE DEF r
<1>3. /\ OneAtMost(q, Ending(M)) /\ OneAtMost(q, Accepting(M))
      /\ busy \notin Ending(M) /\ busy \notin Accepting(M)
  BY DEF Fits, Plain
<1>4. /\ r \in Seq(Messages) /\ Named(r, Ending(M)) = {} /\ OneAtMost(r, Ending(M))
  BY <1>2, <1>3
<1>5. /\ Named(r, Accepting(M)) = {yes.id} /\ OneAtMost(r, Accepting(M))
  BY <1>2, <1>3
<1>6. Before(r, M)
  BY <1>4, NamesAndPlaces DEF Before
<1>. QED
  BY <1>4, <1>5, <1>6 DEF Fits, r

\* A turn begins, and the prompt is answered as accepted.
LEMMA TurnBegins ==
  ASSUME NEW M, HandsInv(M), NEW p \in Prompts \ M, NEW busy \in Plain(M),
         NEW yes \in Accepting(M), yes.id = p,
         yes \notin Ending(M), OnlyAt("cmds", M), Active = {p}, stage[p] = "asked",
         cmds' \in Seq(Commands), Named(cmds', Sending(M)) = {}, OneAtMost(cmds', Sending(M)),
         pipe' = pipe \o <<busy, yes>>, session' = "busy", turn' = p,
         UNCHANGED <<vars, stage, prep, bg>>,
         Named(pipe, Accepting(M)) = {}
  PROVE  Handed(M)'
<1>1. TurnTyped /\ OneTurn(M) /\ OfActive(M) /\ AnswersFirst(M)
  BY DEF HandsInv, Handed
<1>2. /\ Started(M)' = {} /\ Named(pipe, Ending(M)) = {} /\ Named(bg', Ending(M)) = {}
      /\ Running(M)' = {p}
  BY NoneAssumption DEF OnlyAt, Started, Running
<1>3. Fits(pipe, M)
  BY <1>1, PipeFits
<1>4. GoesOn /\ IdOf(queue'.active) = {p}
  BY QueueLeft
<1>5. bg' \in Seq(Events) /\ OneAtMost(bg', Ending(M))
  BY <1>1 DEF TurnTyped, OneTurn
<1>6. /\ Fits(pipe', M) /\ Named(pipe', Ending(M)) = {}
      /\ Named(pipe', Accepting(M)) = {p}
  <2>1. /\ Fits(pipe \o <<busy, yes>>, M) /\ Named(pipe \o <<busy, yes>>, Ending(M)) = {}
        /\ Named(pipe \o <<busy, yes>>, Accepting(M)) = {yes.id}
    BY ONLY <1>2, <1>3, Acceptance, busy \in Plain(M), yes \in Accepting(M),
            yes \notin Ending(M), Named(pipe, Accepting(M)) = {}
  <2>. QED
    BY <2>1
<1>7. /\ pipe' \in Seq(Messages) /\ OneAtMost(pipe', Ending(M))
      /\ OneAtMost(pipe', Accepting(M)) /\ Before(pipe', M)
  BY <1>6 DEF Fits
<1>8. TurnTyped'
  BY <1>1, <1>5, <1>7 DEF TurnTyped
<1>9. OneTurn(M)'
  BY <1>2, <1>5, <1>6, <1>7, NextHolder
<1>10. OfActive(M)'
  BY <1>2, <1>4, <1>6, NextActive
<1>11. AnswersFirst(M)'
  BY <1>4, <1>6, <1>7, NextAnswers
<1>. QED
  BY <1>4, <1>8, <1>9, <1>10, <1>11 DEF Handed, GoesOn

\* begin_prompt: the engine has no other turn when a prompt reaches it, but for
\* the turn of a misled prompt.
LEMMA EngineSendHanded ==
  ASSUME NEW M, HandsInv(M), EngineSend, misled' \subseteq M
  PROVE  Handed(M)'
<1> DEFINE p == Head(cmds).id
           busy == [k |-> "status", status |-> "busy"]
<1>1. TurnTyped /\ OneTurn(M) /\ OfActive(M) /\ AnswersFirst(M)
  BY DEF HandsInv, Handed
<1>2. /\ cmds # <<>> /\ cmds' = Tail(cmds) /\ Head(cmds).op = "send"
      /\ UNCHANGED <<vars, stage, prep, bg>>
      /\ EngineRefuses(p) \/ EngineRejects(p) \/ EngineStarts(p)
  BY DEF EngineSend
<1>3. /\ cmds' \in Seq(Commands) /\ OneAtMost(cmds', Sending(M)) /\ p \in Prompts
      /\ p \in M => SameCommands(M)
      /\ p \notin M => Named(cmds', Sending(M)) = {} /\ p \in Named(cmds, Sending(M))
  BY <1>1, <1>2, CommandTaken
<1> HIDE DEF p
<1>4. \/ /\ pipe' = pipe \o <<busy, Answer(p, "accepted")>>
         /\ turn = None /\ turn' = p /\ session' = "busy"
      \/ \E o \in {"busy", "failed"} :
           /\ pipe' = Append(pipe, Answer(p, o))
           /\ turn' = turn \/ (turn = None /\ turn' = p /\ p \in M)
           /\ session' \in {session, "error", "busy"}
  BY <1>2 DEF EngineRefuses, EngineRejects, EngineStarts, Misleads, Admits, sidecar
<1>5. /\ busy \in Plain(M)
      /\ \A o \in Answers : /\ p \in M => Answer(p, o) \in Plain(M)
                            /\ Answer(p, o).id = p
                            /\ Answer(p, o) \in Ending(M) <=> o # "accepted" /\ p \notin M
                            /\ Answer(p, o) \in Accepting(M) <=> o = "accepted" /\ p \notin M
  BY <1>3, MessageKinds DEF Plain
<1> HIDE DEF busy
<1>6. session' \in {"none", "idle", "busy", "error"} /\ turn' \in Prompts \cup {None}
  BY <1>1, <1>3, <1>4 DEF TurnTyped
<1>7. CASE p \in M
  <2>1. SameMessages(M)
    <3>1. \E e, f \in Plain(M) : pipe' \in {Append(pipe, e), pipe \o <<e, f>>}
      BY <1>4, <1>5, <1>7 DEF Answers
    <3>. QED
      BY <1>1, <3>1, MessagesAdded
  <2>2. Untold(M)
    BY <1>1, <1>2, <1>3, <1>7, <2>1, UntoldWhenUnchanged DEF Untold
  <2>3. Running(M)' = Running(M)
    BY <1>4, <1>7 DEF Running
  <2>4. GoesOn /\ Kept /\ StagesFollow
    BY <1>2, QueueLeft
  <2>. QED
    BY <1>1, <1>2, <1>6, <2>2, <2>3, <2>4, StaysOrBegins DEF GoesOn, TurnTyped
<1>8. CASE p \notin M
  <2>1. /\ OnlyAt("cmds", M) /\ Active = {p} /\ stage[p] = "asked"
        /\ Named(pipe, Accepting(M)) = {}
    BY <1>1, <1>3, <1>8, TheHolder, ActiveOne DEF OfActive, Turns, AnswersFirst
  <2>2. CASE turn' = turn /\ \E o \in {"busy", "failed"} : pipe' = Append(pipe, Answer(p, o))
    <3>1. PICK no \in Ending(M) : pipe' = Append(pipe, no) /\ no.id = p /\ no \notin Accepting(M)
      BY <1>5, <1>8, <2>2 DEF Answers
    <3>. QED
      BY <1>2, <1>3, <1>6, <1>8, <2>1, <2>2, <3>1, PromptReturns
  <2>3. CASE pipe' = pipe \o <<busy, Answer(p, "accepted")>> /\ turn' = p /\ session' = "busy"
    <3>1. PICK yes \in Accepting(M) :
            pipe' = pipe \o <<busy, yes>> /\ yes.id = p /\ yes \notin Ending(M)
      BY <1>5, <1>8, <2>3 DEF Answers
    <3>. QED
      BY <1>2, <1>3, <1>5, <1>8, <2>1, <2>3, <3>1, TurnBegins
  <2>. QED
    BY <1>4, <1>8, <2>2, <2>3
<1>. QED
  BY <1>7, <1>8

\* The engine lets go of a turn: its end is among the agent's events.
LEMMA TurnLetGo ==
  ASSUME NEW M, HandsInv(M), UNCHANGED <<vars, stage, prep>>,
         turn # None, turn \notin M, turn' = None,
         session' \in {"none", "idle", "busy", "error"},
         SameCommands(M), SameMessages(M),
         bg' \in Seq(Events), OneAtMost(bg, Ending(M)) /\ Named(bg, Ending(M)) = {}
           => Named(bg', Ending(M)) = {turn} /\ OneAtMost(bg', Ending(M))
  PROVE  Handed(M)'
<1>1. TurnTyped /\ OneTurn(M) /\ OfActive(M) /\ AnswersFirst(M)
  BY DEF HandsInv, Handed
<1>2. Running(M) = {turn} /\ OnlyAt("engine", M) /\ Active = {turn} /\ Running(M)' = {}
  BY <1>1, TheHolder, ActiveOne DEF Running, OfActive, Turns
<1>3. /\ Started(M) = {} /\ Named(cmds, Sending(M)) = {} /\ Named(pipe, Ending(M)) = {}
      /\ Named(bg, Ending(M)) = {} /\ OneAtMost(bg, Ending(M))
  BY <1>1, <1>2 DEF OnlyAt, OneTurn
<1>4. Named(bg', Ending(M)) = {turn} /\ OneAtMost(bg', Ending(M))
  BY <1>3
<1>5. GoesOn /\ IdOf(queue'.active) = Active /\ Started(M)' = {}
  BY <1>3, QueueLeft DEF Started
<1>6. /\ cmds' \in Seq(Commands) /\ Named(cmds', Sending(M)) = {}
      /\ OneAtMost(cmds', Sending(M))
      /\ pipe' \in Seq(Messages) /\ Named(pipe', Ending(M)) = {}
      /\ OneAtMost(pipe', Ending(M)) /\ OneAtMost(pipe', Accepting(M)) /\ Before(pipe', M)
      /\ Named(pipe', Accepting(M)) = Named(pipe, Accepting(M))
  BY <1>3 DEF SameCommands, SameMessages
<1>7. TurnTyped'
  BY <1>1, <1>6 DEF TurnTyped
<1>8. OneTurn(M)'
  BY <1>2, <1>4, <1>5, <1>6, NextHolder
<1>9. OfActive(M)'
  BY <1>2, <1>4, <1>5, <1>6, NextActive
<1>10. AnswersFirst(M)'
  BY <1>1, <1>5, <1>6, NextAnswers DEF AnswersFirst
<1>. QED
  BY <1>5, <1>7, <1>8, <1>9, <1>10 DEF Handed, GoesOn

LEMMA EngineCancelHanded ==
  ASSUME NEW M, HandsInv(M), EngineCancel, misled' \subseteq M
  PROVE  Handed(M)'
<1> DEFINE idle == [k |-> "status", status |-> "idle"]
<1>1. TurnTyped /\ OneTurn(M) /\ AnswersFirst(M)
  BY DEF HandsInv, Handed
<1>2. /\ cmds # <<>> /\ cmds' = Tail(cmds) /\ Head(cmds).op = "cancel"
      /\ UNCHANGED <<vars, stage, prep>>
  BY DEF EngineCancel
<1>3. SameCommands(M) /\ Head(cmds).steer \in BOOLEAN
  BY <1>1, <1>2, CommandTaken, CommandParts
<1>4. Cancelled(TRUE) \in Plain(M) /\ Cancelled(FALSE) \in Plain(M) /\ idle \in Plain(M)
  BY <1>3, MessageKinds DEF Plain, Cancelled
<1>5. /\ pipe' \in {Append(pipe, Cancelled(FALSE)), pipe \o <<Cancelled(TRUE), idle>>}
      /\ session' \in {session, "idle"}
      /\ \/ turn' = turn /\ bg' = bg
         \/ turn' = None /\ bg' = bg \o CancelEvents(turn)
         \/ turn' = None /\ bg' = bg /\ turn \in M
  BY DEF EngineCancel, Misleads
<1> DEFINE no == Cancelled(FALSE)
           yes == Cancelled(TRUE)
<1> HIDE DEF no, yes, idle
<1>6. SameMessages(M)
  <2>1. no \in Plain(M) /\ yes \in Plain(M) /\ pipe' \in {Append(pipe, no), pipe \o <<yes, idle>>}
    BY <1>4, <1>5 DEF no, yes
  <2>. QED
    BY <1>1, <1>4, <2>1, MessagesAdded
<1>7. session' \in {"none", "idle", "busy", "error"} /\ turn' \in Prompts \cup {None}
  BY <1>1, <1>5 DEF TurnTyped
<1>8. GoesOn /\ Kept /\ StagesFollow
  BY <1>2, QueueLeft
<1>9. CASE Running(M)' = Running(M) /\ SameEvents(M)
  <2>1. Untold(M)
    BY <1>3, <1>6, <1>9 DEF Untold
  <2>. QED
    BY <1>1, <1>2, <1>7, <1>8, <1>9, <2>1, StaysOrBegins DEF GoesOn, TurnTyped
<1>10. CASE bg' = bg /\ (turn' = turn \/ (turn' = None /\ turn \in M))
  BY <1>1, <1>9, <1>10, UntoldWhenUnchanged DEF Running
<1>11. CASE turn = None /\ bg' = bg \o CancelEvents(turn)
  <2>1. bg' = bg
    BY <1>1, <1>11, ConcatEmptySeq DEF CancelEvents, TurnTyped
  <2>. QED
    BY <1>5, <1>10, <1>11, <2>1
<1>12. CASE turn # None /\ turn' = None /\ bg' = bg \o CancelEvents(turn)
  <2> DEFINE e == TurnEvent(turn, "settled")
  <2>1. turn \in Prompts /\ bg \in Seq(Events) /\ OneAtMost(bg, Ending(M))
    BY <1>1, <1>12 DEF TurnTyped, OneTurn
  <2>2. e \in Events /\ (e \in Ending(M) <=> turn \notin M) /\ e.id = turn
    BY <2>1, MessageKinds
  <2>3. bg' = bg \o <<e>>
    BY <1>12 DEF CancelEvents
  <2> HIDE DEF e
  <2>4. bg' = Append(bg, e) /\ Append(bg, e) \in Seq(Events)
    BY <2>1, <2>2, <2>3, AppendIsConcat, AppendAt
  <2>5. CASE turn \notin M
    <3>1. OneAtMost(bg, Ending(M)) /\ Named(bg, Ending(M)) = {}
            => Named(bg', Ending(M)) = {turn} /\ OneAtMost(bg', Ending(M))
      BY <2>1, <2>2, <2>4, <2>5, AppendedNames
    <3>. QED
      BY <1>2, <1>3, <1>6, <1>7, <1>12, <2>4, <2>5, <3>1, TurnLetGo
  <2>6. CASE turn \in M
    <3>1. SameEvents(M)
      BY <2>1, <2>2, <2>4, <2>6, AppendedNames DEF SameEvents
    <3>. QED
      BY <1>9, <1>12, <2>6, <3>1 DEF Running
  <2>. QED
    BY <2>5, <2>6
<1>. QED
  BY <1>5, <1>10, <1>11, <1>12

LEMMA AgentHanded ==
  ASSUME NEW M, HandsInv(M), AgentWaits \/ \E p \in Prompts, ok \in BOOLEAN : AgentFinishes(p, ok)
  PROVE  Handed(M)'
<1>1. TurnTyped /\ OneTurn(M) /\ AnswersFirst(M)
  BY DEF HandsInv, Handed
<1>2. UNCHANGED <<vars, stage, prep, cmds, pipe>>
  BY DEF AgentWaits, AgentFinishes
<1>3. GoesOn /\ StagesFollow
  BY <1>2, QueueLeft
<1>4. CASE AgentWaits
  <2> DEFINE e == [k |-> "status", status |-> "busy"]
  <2>1. bg' = Append(bg, e) /\ session' = "busy" /\ turn' = turn
    BY <1>4 DEF AgentWaits
  <2>2. e \in Plain(M) /\ e \in Events
    BY MessageKinds DEF Plain
  <2> HIDE DEF e
  <2>3. Untold(M)
    BY <1>1, <1>2, <2>1, <2>2, EventAdded, UntoldWhenUnchanged DEF Untold
  <2>. QED
    BY <1>1, <1>2, <1>3, <2>1, <2>3, TurnsGoOn DEF TurnTyped
<1>5. ASSUME NEW p \in Prompts, NEW ok \in BOOLEAN, AgentFinishes(p, ok)
      PROVE  Handed(M)'
  <2>1. CASE turn # p
    <3>1. UNCHANGED <<session, turn, bg>>
      BY <1>5, <2>1 DEF AgentFinishes
    <3>2. Untold(M)
      BY <1>1, <1>2, <3>1, UntoldWhenUnchanged DEF Untold
    <3>. QED
      BY <1>1, <1>2, <1>3, <3>1, <3>2, TurnsGoOn DEF TurnTyped
  <2>2. CASE turn = p
    <3> DEFINE e == [k |-> "status", status |-> session']
               f == TurnEvent(p, IF ok THEN "settled" ELSE "failed")
    <3>1. /\ turn' = None /\ session' \in {"idle", "error"}
          /\ bg' = bg \o <<e, f>>
      BY <1>5, <2>2 DEF AgentFinishes
    <3>2. /\ e \in Events /\ e \notin Ending(M)
          /\ f \in Events /\ (f \in Ending(M) <=> turn \notin M) /\ f.id = turn
      BY <2>2, <3>1, MessageKinds
    <3> HIDE DEF e, f
    <3>3. bg \in Seq(Events) /\ OneAtMost(bg, Ending(M))
      BY <1>1 DEF TurnTyped, OneTurn
    <3>4. SameCommands(M) /\ SameMessages(M)
      BY <1>1, <1>2, UntoldWhenUnchanged
    <3>5. turn # None
      BY <2>2, NoneAssumption
    <3>6. /\ bg' \in Seq(Events)
          /\ f \notin Ending(M) => /\ Named(bg', Ending(M)) = Named(bg, Ending(M))
                                 /\ OneAtMost(bg', Ending(M))
          /\ f \in Ending(M) /\ Named(bg, Ending(M)) = {}
               => Named(bg', Ending(M)) = {turn} /\ OneAtMost(bg', Ending(M))
      <4>1. /\ bg \o <<e, f>> \in Seq(Events)
            /\ f \notin Ending(M) => Named(bg \o <<e, f>>, Ending(M)) = Named(bg, Ending(M))
            /\ f \in Ending(M)
                 => Named(bg \o <<e, f>>, Ending(M)) = Named(bg, Ending(M)) \cup {f.id}
            /\ OneAtMost(bg, Ending(M)) /\ (Named(bg, Ending(M)) = {} \/ f \notin Ending(M))
                 => OneAtMost(bg \o <<e, f>>, Ending(M))
        <5>1. e \in Events /\ f \in Events /\ e \notin Ending(M)
          BY <3>2
        <5>. QED
          BY <3>3, <5>1, PairNames
      <4>. QED
        BY <3>1, <3>2, <3>3, <4>1
    <3>7. CASE turn \notin M
      BY <1>2, <3>1, <3>2, <3>4, <3>5, <3>6, <3>7, TurnLetGo
    <3>8. CASE turn \in M
      <4>1. Untold(M)
        BY <3>2, <3>4, <3>6, <3>8 DEF Untold, SameEvents
      <4>2. Running(M)' = Running(M) /\ Kept
        BY <1>2, <3>1, <3>8, QueueLeft DEF Running
      <4>. QED
        BY <1>1, <1>2, <1>3, <3>1, <4>1, <4>2, StaysOrBegins DEF GoesOn, TurnTyped
    <3>. QED
      BY <3>7, <3>8
  <2>. QED
    BY <2>1, <2>2
<1>. QED
  BY <1>4, <1>5

-----------------------------------------------------------------------------
(* The pipe.                                                                 *)

\* The main process reads the first message of the pipe.
LEMMA PipeRead ==
  ASSUME NEW M, NEW q, Fits(q, M), q # << >>
  PROVE  /\ Fits(Tail(q), M) /\ Head(q) \in Messages
         /\ Head(q) \in Ending(M) => /\ Named(Tail(q), Ending(M)) = {}
                                  /\ Head(q).id \in Named(q, Ending(M))
                                  /\ Named(q, Accepting(M)) = {}
         /\ Head(q) \notin Ending(M) => Named(Tail(q), Ending(M)) = Named(q, Ending(M))
         /\ Head(q) \in Accepting(M) => /\ Named(Tail(q), Accepting(M)) = {}
                                     /\ Head(q).id \in Named(q, Accepting(M))
         /\ Head(q) \notin Accepting(M) => Named(Tail(q), Accepting(M)) = Named(q, Accepting(M))
<1> DEFINE w == Tail(q)
           m == Head(q)
<1>1. /\ q \in Seq(Messages) /\ OneAtMost(q, Ending(M)) /\ OneAtMost(q, Accepting(M))
      /\ Before(q, M)
  BY DEF Fits
<1>2. w \in Seq(Messages) /\ m \in Messages
  BY <1>1, TailAt
<1>3. /\ OneAtMost(w, Ending(M))
      /\ m \in Ending(M) => Named(w, Ending(M)) = {} /\ m.id \in Named(q, Ending(M))
      /\ m \notin Ending(M) => Named(w, Ending(M)) = Named(q, Ending(M))
  BY <1>1, TakenNames
<1>4. /\ OneAtMost(w, Accepting(M))
      /\ m \in Accepting(M) => Named(w, Accepting(M)) = {} /\ m.id \in Named(q, Accepting(M))
      /\ m \notin Accepting(M) => Named(w, Accepting(M)) = Named(q, Accepting(M))
  BY <1>1, TakenNames
<1>5. /\ Places(q, Ending(M)) \subseteq 1 .. Len(q) /\ Len(q) \in Nat
      /\ Places(w, Ending(M)) = {i \in 1 .. Len(q) - 1 : i + 1 \in Places(q, Ending(M))}
      /\ m \in Ending(M) => 1 \in Places(q, Ending(M))
  <2>1. /\ Places(q, Ending(M)) \subseteq 1 .. Len(q)
        /\ Places(w, Ending(M)) = {i \in 1 .. Len(q) - 1 : i + 1 \in Places(q, Ending(M))}
    BY <1>1, PlacesTaken
  <2>2. m \in Ending(M) => 1 \in Places(q, Ending(M))
    BY <1>1, TailAt DEF Places
  <2>. QED
    BY <1>1, <2>1, <2>2, LenProperties
<1>6. /\ Places(q, Accepting(M)) \subseteq 1 .. Len(q)
      /\ Places(w, Accepting(M)) = {i \in 1 .. Len(q) - 1 : i + 1 \in Places(q, Accepting(M))}
  BY <1>1, PlacesTaken
<1> HIDE DEF w, m
<1>7. Before(w, M)
  <2> SUFFICES ASSUME NEW i \in Places(w, Ending(M)), NEW j \in Places(w, Accepting(M))
               PROVE  j < i
    BY DEF Before
  <2>1. /\ i \in 1 .. Len(q) - 1 /\ i + 1 \in Places(q, Ending(M))
        /\ j \in 1 .. Len(q) - 1 /\ j + 1 \in Places(q, Accepting(M))
    BY <1>5, <1>6
  <2>2. j + 1 < i + 1
    BY <1>1, <2>1 DEF Before
  <2>. QED
    BY <1>5, <2>1, <2>2
<1>8. m \in Ending(M) => Places(q, Accepting(M)) = {}
  <2> SUFFICES ASSUME m \in Ending(M), NEW j \in Places(q, Accepting(M)) PROVE FALSE
    OBVIOUS
  <2>1. j < 1 /\ j \in 1 .. Len(q)
    BY <1>1, <1>5, <1>6 DEF Before
  <2>. QED
    BY <1>5, <2>1
<1>. QED
  BY <1>2, <1>3, <1>4, <1>7, <1>8, NamesAndPlaces DEF Fits, w, m

LEMMA DrainHanded ==
  ASSUME NEW M, HandsInv(M), Drain
  PROVE  Handed(M)'
<1> DEFINE m == Head(bg)
<1>1. TurnTyped /\ OneTurn(M) /\ OfActive(M) /\ AnswersFirst(M)
  BY DEF HandsInv, Handed
<1>2. /\ bg # <<>> /\ bg' = Tail(bg) /\ pipe' = Append(pipe, m)
      /\ UNCHANGED <<vars, stage, prep, cmds, session, turn>>
  BY DEF Drain, sidecar
<1>3. bg \in Seq(Events) /\ OneAtMost(bg, Ending(M))
  BY <1>1 DEF TurnTyped, OneTurn
<1>4. m \in Events /\ bg' \in Seq(Events)
  BY <1>2, <1>3, TailAt
<1>5. /\ OneAtMost(bg', Ending(M))
      /\ m \in Ending(M) => Named(bg', Ending(M)) = {} /\ m.id \in Named(bg, Ending(M))
      /\ m \notin Ending(M) => Named(bg', Ending(M)) = Named(bg, Ending(M))
  BY <1>2, <1>3, TakenNames
<1> HIDE DEF m
<1>6. m \in Messages /\ m \notin Accepting(M)
  BY <1>4, MessageParts DEF Events
<1>7. SameCommands(M)
  BY <1>1, <1>2, UntoldWhenUnchanged
<1>8. GoesOn /\ StagesFollow /\ queue' = queue /\ IdOf(queue'.active) = Active
  BY <1>2, QueueLeft
<1>9. CASE m \notin Ending(M)
  <2>1. m \in Plain(M)
    BY <1>6, <1>9 DEF Plain
  <2>2. SameMessages(M)
    BY <1>1, <1>2, <2>1, MessagesAdded
  <2>3. Untold(M)
    BY <1>4, <1>5, <1>7, <1>9, <2>2 DEF Untold, SameEvents
  <2>. QED
    BY <1>1, <1>2, <1>8, <2>3, TurnsGoOn DEF TurnTyped
<1>10. CASE m \in Ending(M)
  <2>1. OnlyAt("bg", M) /\ Active = {m.id} /\ m.id \notin M
    BY <1>1, <1>5, <1>10, TheHolder, ActiveOne DEF OfActive, Turns
  <2>2. /\ Started(M) = {} /\ Running(M) = {} /\ Named(cmds, Sending(M)) = {}
        /\ Named(pipe, Ending(M)) = {}
    BY <2>1 DEF OnlyAt
  <2>3. /\ pipe \in Seq(Messages) /\ OneAtMost(pipe, Ending(M))
        /\ OneAtMost(pipe, Accepting(M))
    BY <1>1 DEF TurnTyped, OneTurn, AnswersFirst
  <2>4. Named(pipe', Ending(M)) = {m.id} /\ OneAtMost(pipe', Ending(M))
    <3>1. /\ Named(Append(pipe, m), Ending(M)) = Named(pipe, Ending(M)) \cup {m.id}
          /\ OneAtMost(Append(pipe, m), Ending(M))
      BY <1>6, <1>10, <2>2, <2>3, AppendedNames
    <3>. QED
      BY <1>2, <2>2, <3>1
  <2>5. Named(pipe', Accepting(M)) = Named(pipe, Accepting(M)) /\ OneAtMost(pipe', Accepting(M))
    BY <1>2, <1>6, <2>3, AppendedNames
  <2>6. pipe' \in Seq(Messages)
    BY <1>2, <1>6, <2>3, AppendAt
  <2>7. Before(pipe', M)
    <3>1. Places(pipe, Ending(M)) = {} /\ Len(pipe) \in Nat
      BY <2>2, <2>3, NamesAndPlaces, LenProperties
    <3>5. Places(pipe', Ending(M))
            = Places(pipe, Ending(M)) \cup (IF m \in Ending(M) THEN {Len(pipe) + 1} ELSE {})
      <4>1. \A K : Places(Append(pipe, m), K)
                     = Places(pipe, K) \cup (IF m \in K THEN {Len(pipe) + 1} ELSE {})
        <5> TAKE K
        <5>. QED
          BY <1>6, <2>3, PlacesAppended
      <4>. QED
        BY <1>2, <4>1
    <3>2. /\ Places(pipe, Accepting(M)) \subseteq 1 .. Len(pipe)
          /\ Places(pipe', Accepting(M))
               = Places(pipe, Accepting(M)) \cup (IF m \in Accepting(M) THEN {Len(pipe) + 1} ELSE {})
      BY <1>2, <1>6, <2>3, PlacesAppended
    <3>3. Places(pipe', Ending(M)) = {Len(pipe) + 1}
      BY <1>10, <3>1, <3>5
    <3>4. Places(pipe', Accepting(M)) \subseteq 1 .. Len(pipe)
      BY <1>6, <3>2
    <3>. QED
      BY <3>1, <3>3, <3>4 DEF Before
  <2>8. /\ Started(M)' = {} /\ Running(M)' = {} /\ Named(cmds', Sending(M)) = {}
        /\ OneAtMost(cmds', Sending(M))
        /\ Named(bg', Ending(M)) = {}
    BY <1>2, <1>5, <1>7, <1>10, <2>2 DEF Started, Running, SameCommands
  <2>9. TurnTyped'
    BY <1>1, <1>2, <1>4, <2>6 DEF TurnTyped
  <2>10. OneTurn(M)'
    BY <1>5, <2>4, <2>8, NextHolder
  <2>11. OfActive(M)'
    BY <1>8, <2>1, <2>4, <2>8, NextActive
  <2>12. AnswersFirst(M)'
    BY <1>1, <1>2, <1>8, <2>5, <2>7, <2>8, NextAnswers DEF AnswersFirst
  <2>. QED
    BY <1>8, <2>9, <2>10, <2>11, <2>12 DEF Handed, GoesOn
<1>. QED
  BY <1>9, <1>10

\* A turn ends for the main process: it is in no hand any more, and the next
\* prompt, if one is sent, is the first thing that happens then.
LEMMA TurnDelivered ==
  ASSUME NEW M, HandsInv(M), pipe # << >>, Head(pipe).k = "turn",
         TurnStatus(Head(pipe).id, Head(pipe).result), StagesFollow,
         pipe' = Tail(pipe), UNCHANGED <<prep, cmds, bg, session, turn>>
  PROVE  Handed(M)'
<1> DEFINE m == Head(pipe)
<1>1. IInv /\ Alive /\ TurnTyped /\ OneTurn(M) /\ OfActive(M) /\ AnswersFirst(M)
  BY DEF HandsInv, Handed
<1>2. Fits(pipe, M) /\ m.k = "turn" /\ TurnStatus(m.id, m.result)
  BY <1>1, PipeFits
<1>3. /\ Fits(pipe', M) /\ m \in Messages
      /\ m \in Ending(M) => /\ Named(pipe', Ending(M)) = {} /\ m.id \in Named(pipe, Ending(M))
                         /\ Named(pipe, Accepting(M)) = {}
      /\ m \notin Ending(M) => Named(pipe', Ending(M)) = Named(pipe, Ending(M))
      /\ m \notin Accepting(M) => Named(pipe', Accepting(M)) = Named(pipe, Accepting(M))
  BY <1>2, PipeRead
<1> HIDE DEF m
<1>4. (m \in Ending(M) <=> m.id \notin M) /\ m \notin Accepting(M)
  BY <1>2, <1>3, MessageParts
<1>5. Running(M)' = Running(M) /\ SameCommands(M) /\ SameEvents(M)
  BY <1>1, UntoldWhenUnchanged DEF Running
<1>6. CASE m.id \in M
  <2>1. Untold(M)
    BY <1>3, <1>4, <1>5, <1>6 DEF Untold, SameMessages, Fits
  <2>2. Alive' /\ (Kept \/ (Active \subseteq M /\ Dispatched = IdOf(queue'.active)))
    <3>1. CASE queue.active # None /\ queue.active.id = m.id
      BY <1>1, <1>2, <1>6, <3>1, TurnEnds, ActiveOne
    <3>2. CASE queue.active = None \/ queue.active.id # m.id
      BY <1>1, <1>2, <3>2, StrayTurnGoesOn, ActiveOne DEF GoesOn, Sent
    <3>. QED
      BY <3>1, <3>2
  <2>. QED
    BY <1>1, <1>5, <2>1, <2>2, StaysOrBegins DEF TurnTyped
<1>7. CASE m.id \notin M
  <2>1. /\ pipe' \in Seq(Messages) /\ OneAtMost(pipe', Ending(M))
        /\ OneAtMost(pipe', Accepting(M)) /\ Before(pipe', M)
        /\ Named(pipe', Ending(M)) = {} /\ Named(pipe', Accepting(M)) = {}
    BY <1>3, <1>4, <1>7 DEF Fits
  <2>2. /\ OnlyAt("pipe", M) /\ Active = {m.id}
        /\ queue.active # None /\ queue.active.id = m.id
    BY <1>1, <1>3, <1>4, <1>7, TheHolder, ActiveOne DEF OfActive, Turns
  <2>3. Dispatched = IdOf(queue'.active) /\ Alive'
    BY <1>1, <1>2, <2>2, TurnEnds
  <2>4. /\ Started(M) = {} /\ Running(M) = {} /\ Named(cmds, Sending(M)) = {}
        /\ Named(bg, Ending(M)) = {}
    BY <2>2 DEF OnlyAt
  <2>5. Started(M)' = Dispatched \ M
    BY <1>1, <2>4 DEF Started, StagesFollow, TurnTyped, Dispatched
  <2>6. /\ Named(cmds', Sending(M)) = {} /\ OneAtMost(cmds', Sending(M))
        /\ Named(bg', Ending(M)) = {} /\ OneAtMost(bg', Ending(M)) /\ Running(M)' = {}
    BY <1>5, <2>4 DEF SameCommands, SameEvents
  <2>7. TurnTyped'
    BY <1>1, <2>1 DEF TurnTyped, StagesFollow
  <2>8. OneTurn(M)'
    BY <2>1, <2>6, NextHolder
  <2>9. OfActive(M)'
    BY <2>1, <2>3, <2>5, <2>6, NextActive
  <2>10. AnswersFirst(M)'
    BY <2>1, <2>6, NextAnswers
  <2>. QED
    BY <2>3, <2>7, <2>8, <2>9, <2>10 DEF Handed
<1>. QED
  BY <1>6, <1>7

\* The answer of sendPrompt: a refusal or a failure goes back to the queue.
LEMMA AnswerDelivered ==
  ASSUME NEW M, HandsInv(M), pipe # << >>, Head(pipe).k = "answer",
         stage' = [stage EXCEPT ![Head(pipe).id] = Head(pipe).outcome],
         pipe' = Tail(pipe), UNCHANGED <<vars, prep, cmds, bg, session, turn>>
  PROVE  Handed(M)'
<1> DEFINE m == Head(pipe)
<1>1. TurnTyped /\ OneTurn(M) /\ OfActive(M) /\ AnswersFirst(M)
  BY DEF HandsInv, Handed
<1>2. Fits(pipe, M) /\ m.k = "answer" /\ stage' = [stage EXCEPT ![m.id] = m.outcome]
  BY <1>1, PipeFits
<1>3. /\ Fits(pipe', M) /\ m \in Messages
      /\ m \in Ending(M) => /\ Named(pipe', Ending(M)) = {} /\ m.id \in Named(pipe, Ending(M))
                         /\ Named(pipe, Accepting(M)) = {}
      /\ m \notin Ending(M) => Named(pipe', Ending(M)) = Named(pipe, Ending(M))
      /\ m \in Accepting(M) => Named(pipe', Accepting(M)) = {} /\ m.id \in Named(pipe, Accepting(M))
      /\ m \notin Accepting(M) => Named(pipe', Accepting(M)) = Named(pipe, Accepting(M))
  BY <1>2, PipeRead
<1> HIDE DEF m
<1>4. /\ m.id \in Prompts /\ m.outcome \in Answers
      /\ m \in Ending(M) <=> m.outcome # "accepted" /\ m.id \notin M
      /\ m \in Accepting(M) <=> m.outcome = "accepted" /\ m.id \notin M
  BY <1>2, <1>3, MessageParts
<1>5. /\ pipe' \in Seq(Messages) /\ OneAtMost(pipe', Ending(M))
      /\ OneAtMost(pipe', Accepting(M)) /\ Before(pipe', M)
  BY <1>3 DEF Fits
<1>6. GoesOn /\ queue' = queue /\ IdOf(queue'.active) = Active
  BY QueueLeft
<1>7. /\ SameCommands(M) /\ SameEvents(M) /\ Running(M)' = Running(M)
  BY <1>1, UntoldWhenUnchanged DEF Running
<1>8. TurnTyped'
  BY <1>1, <1>2, <1>4, <1>5 DEF TurnTyped
<1>9. CASE m.id \in M
  <2>1. Untold(M)
    BY <1>3, <1>4, <1>5, <1>7, <1>9 DEF Untold, SameMessages
  <2>2. Started(M)' = Started(M)
    BY <1>1, <1>2, <1>9 DEF Started, TurnTyped
  <2>3. \A p \in Prompts \ M : stage[p] = "asked" => stage'[p] = "asked"
    BY <1>1, <1>2, <1>9 DEF TurnTyped
  <2>. QED
    BY <1>6, <1>7, <1>8, <2>1, <2>2, <2>3, HandsKept DEF GoesOn
<1>10. CASE m.id \notin M /\ m.outcome = "accepted"
  <2>1. /\ stage[m.id] = "asked" /\ Named(cmds, Sending(M)) = {}
        /\ Named(pipe', Ending(M)) = Named(pipe, Ending(M)) /\ Named(pipe', Accepting(M)) = {}
    BY <1>1, <1>3, <1>4, <1>10 DEF AnswersFirst
  <2>2. Started(M)' = Started(M)
    BY <1>1, <1>2, <1>4, <1>10, <2>1 DEF Started, TurnTyped
  <2>3. OneTurn(M)'
    <3>1. PICK w \in {"stage", "cmds", "engine", "pipe", "bg"} : OnlyAt(w, M)
      BY <1>1 DEF OneTurn
    <3>. QED
      BY <1>5, <1>7, <2>1, <2>2, <3>1, NextHolder
         DEF OnlyAt, SameCommands, SameEvents
  <2>4. OfActive(M)'
    BY <1>1, <1>6, <1>7, <2>1, <2>2, NextActive
       DEF OfActive, Turns, SameCommands, SameEvents
  <2>5. AnswersFirst(M)'
    BY <1>5, <1>7, <2>1, NextAnswers DEF SameCommands
  <2>. QED
    BY <1>6, <1>8, <2>3, <2>4, <2>5 DEF Handed, GoesOn
<1>11. CASE m.id \notin M /\ m.outcome # "accepted"
  <2>1. /\ OnlyAt("pipe", M) /\ Active = {m.id} /\ Named(pipe', Accepting(M)) = {}
        /\ Named(pipe', Ending(M)) = {}
    BY <1>1, <1>3, <1>4, <1>11, TheHolder, ActiveOne DEF OfActive, Turns
  <2>2. /\ Started(M) = {} /\ Running(M) = {} /\ Named(cmds, Sending(M)) = {}
        /\ Named(bg, Ending(M)) = {}
    BY <2>1 DEF OnlyAt
  <2>3. Started(M)' = {m.id}
    BY <1>1, <1>2, <1>4, <1>11, <2>2 DEF Started, TurnTyped, Answers
  <2>4. /\ Named(cmds', Sending(M)) = {} /\ OneAtMost(cmds', Sending(M))
        /\ Named(bg', Ending(M)) = {} /\ OneAtMost(bg', Ending(M)) /\ Running(M)' = {}
    BY <1>7, <2>2 DEF SameCommands, SameEvents
  <2>5. OneTurn(M)'
    BY <1>5, <2>1, <2>4, NextHolder
  <2>6. OfActive(M)'
    BY <1>6, <1>11, <2>1, <2>3, <2>4, NextActive
  <2>7. AnswersFirst(M)'
    BY <1>5, <2>1, <2>4, NextAnswers
  <2>. QED
    BY <1>6, <1>8, <2>5, <2>6, <2>7 DEF Handed, GoesOn
<1>. QED
  BY <1>9, <1>10, <1>11

LEMMA DeliverHanded ==
  ASSUME NEW M, HandsInv(M), Deliver
  PROVE  Handed(M)'
<1> DEFINE m == Head(pipe)
<1>1. IInv /\ Alive /\ TurnTyped /\ OneTurn(M) /\ AnswersFirst(M)
  BY DEF HandsInv, Handed
<1>2. /\ pipe # <<>> /\ React(m) /\ pipe' = Tail(pipe)
      /\ UNCHANGED <<cmds, bg, session, turn>>
  BY DEF Deliver, sidecar
<1>3. /\ Fits(pipe', M) /\ m \in Messages
      /\ m \notin Ending(M) => Named(pipe', Ending(M)) = Named(pipe, Ending(M))
      /\ m \notin Accepting(M) => Named(pipe', Accepting(M)) = Named(pipe, Accepting(M))
  BY <1>1, <1>2, PipeFits, PipeRead
<1>4. /\ m.k \in {"status", "prepared", "turn", "answer", "cancelled"}
      /\ m.k = "cancelled" => m.ok \in BOOLEAN
      /\ m.k = "status" => m.status \in {"idle", "busy", "error"}
      /\ m.k \in {"status", "prepared", "cancelled"} => m \notin Ending(M) /\ m \notin Accepting(M)
  BY <1>3, MessageParts
<1>5. SameCommands(M) /\ SameEvents(M)
  BY <1>1, <1>2, UntoldWhenUnchanged
<1>6. m.k \in {"status", "prepared", "cancelled"} => Untold(M)
  BY <1>3, <1>4, <1>5 DEF Untold, SameMessages, Fits
<1>7. prep' \in {"none", "asked", "idle", "busy"} /\ session' \in {"none", "idle", "busy", "error"}
  BY <1>1, <1>2, <1>4 DEF React, Elsewhere, TurnTyped
<1>8. CASE m.k = "status"
  <2>1. StatusEvent(m.status) /\ StagesFollow
    BY <1>2, <1>8 DEF React, Elsewhere
  <2>2. GoesOn
    BY <1>1, <2>1, StatusGoesOn
  <2>. QED
    BY <1>2, <1>6, <1>7, <1>8, <2>1, <2>2, TurnsGoOn
<1>9. CASE m.k = "prepared"
  <2>1. UNCHANGED <<vars, stage>>
    BY <1>2, <1>9 DEF React
  <2>2. GoesOn /\ StagesFollow
    BY <2>1, QueueLeft
  <2>. QED
    BY <1>2, <1>6, <1>7, <1>9, <2>2, TurnsGoOn
<1>10. CASE m.k = "cancelled"
  <2>1. stage' = stage /\ (SteerSettles(m.ok) \/ UNCHANGED vars)
    BY <1>2, <1>10 DEF React
  <2>2. GoesOn
    BY <1>1, <1>4, <1>10, <2>1, SteerSettlesGoesOn, QueueLeft
  <2>3. StagesFollow
    <3>1. CASE UNCHANGED vars
      BY <2>1, <3>1, QueueLeft
    <3>2. CASE SteerSettles(m.ok)
      <4>1. flight' = flight
        BY <3>2 DEF SteerSettles, NothingQueued, Commit
      <4>2. Dispatched = {}
        BY <1>1, <4>1, OpenQueue, NothingDispatched
      <4>. QED
        BY <1>1, <2>1, <4>2 DEF StagesFollow, TurnTyped
    <3>. QED
      BY <2>1, <3>1, <3>2
  <2>. QED
    BY <1>2, <1>6, <1>7, <1>10, <2>2, <2>3, TurnsGoOn
<1>11. CASE m.k = "turn"
  <2>1. TurnStatus(m.id, m.result) /\ StagesFollow /\ prep' = prep
    BY <1>2, <1>11 DEF React, Elsewhere
  <2>. QED
    BY <1>2, <1>11, <2>1, TurnDelivered
<1>12. CASE m.k = "answer"
  <2>1. stage' = [stage EXCEPT ![m.id] = m.outcome] /\ UNCHANGED <<vars, prep>>
    BY <1>2, <1>12 DEF React
  <2>. QED
    BY <1>2, <1>12, <2>1, AnswerDelivered
<1>. QED
  BY <1>4, <1>8, <1>9, <1>10, <1>11, <1>12

-----------------------------------------------------------------------------
(* Nothing stalls.  A session that is prepared once, and an agent that asks  *)
(* nothing of the user: then the main process takes the session for busy     *)
(* only while a turn is on its way, and reads that it is not before it reads *)
(* that the turn has ended.                                                  *)

Preparing == {c \in Commands : c.op = "prepare"}

Preparation == {m \in Messages : m.k = "prepared"}

Refusing == {m \in Messages : m.k = "answer" /\ m.outcome = "busy"}

Busy == {m \in Messages : m.k = "status" /\ m.status = "busy"}

Calm == {m \in Messages : m.k = "status" /\ m.status # "busy"}

\* Before place n of the pipe s is read, the session is known not to be busy,
\* and nothing in s says again that it is.
Quieted(l, s, n) ==
    \/ l # "busy" /\ Places(s, Busy) = {}
    \/ \E k \in Places(s, Calm) : k < n /\ \A j \in Places(s, Busy) : j < k

\* So it is for the end of every turn, on the pipe s or still among the events
\* b of the agent's threads.
Lined(l, s, b) ==
    /\ \A i \in Places(s, Ending({})) : Quieted(l, s, i)
    /\ \A i \in Places(b, Ending({})) :
         Quieted(l, s, Len(s) + 1) \/ \E k \in Places(b, Calm) : k < i
    /\ Places(b, Busy) = {}

LEMMA PlacesAdded ==
  ASSUME NEW S, NEW K, NEW s \in Seq(S), NEW e \in S
  PROVE  /\ e \in K => Places(Append(s, e), K) = Places(s, K) \cup {Len(s) + 1}
         /\ e \notin K => Places(Append(s, e), K) = Places(s, K)
<1>1. Places(Append(s, e), K) = Places(s, K) \cup (IF e \in K THEN {Len(s) + 1} ELSE {})
  BY PlacesAppended
<1>. QED
  BY <1>1

LEMMA PlacesBound ==
  ASSUME NEW S, NEW K, NEW s \in Seq(S)
  PROVE  Len(s) \in Nat /\ Places(s, K) \subseteq 1 .. Len(s)
BY LenProperties DEF Places

LEMMA Shifted ==
  ASSUME NEW S, NEW K, NEW q \in Seq(S), q # << >>
  PROVE  /\ Places(Tail(q), K) = {i \in 1 .. Len(q) - 1 : i + 1 \in Places(q, K)}
         /\ \A i \in Places(Tail(q), K) : i + 1 \in Places(q, K)
         /\ \A i \in Places(q, K) : i # 1 => i - 1 \in Places(Tail(q), K)
         /\ 1 \in Places(q, K) <=> Head(q) \in K
<1>1. Len(q) \in Nat /\ Places(q, K) \subseteq 1 .. Len(q)
  BY PlacesBound
<1>2. Places(Tail(q), K) = {i \in 1 .. Len(q) - 1 : i + 1 \in Places(q, K)}
  BY PlacesTaken
<1>3. 1 \in Places(q, K) <=> Head(q) \in K
  BY TailAt DEF Places
<1>4. \A i \in Places(q, K) : i # 1 => i - 1 \in Places(Tail(q), K)
  <2> SUFFICES ASSUME NEW i \in Places(q, K), i # 1
               PROVE  i - 1 \in Places(Tail(q), K)
    OBVIOUS
  <2>1. i \in 1 .. Len(q) /\ i - 1 \in 1 .. Len(q) - 1 /\ (i - 1) + 1 = i
    BY <1>1
  <2>. QED
    BY <1>2, <2>1
<1>. QED
  BY <1>2, <1>3, <1>4

\* Kinds of messages.
LEMMA StatusKinds ==
  ASSUME NEW m \in Messages
  PROVE  /\ m \in Busy <=> (m.k = "status" /\ m.status = "busy")
         /\ m \in Calm <=> (m.k = "status" /\ m.status # "busy")
         /\ m \in Ending({}) => m \notin Busy /\ m \notin Calm
         /\ m \in Calm => m \notin Busy
         /\ m \in Preparation <=> m.k = "prepared"
         /\ m \in Refusing <=> (m.k = "answer" /\ m.outcome = "busy")
BY DEF Busy, Calm, Ending, Preparation, Refusing

\* A message that is neither an end of a turn nor a waiting status.
LEMMA QuietedLater ==
  ASSUME NEW s \in Seq(Messages), NEW e \in Messages, e \notin Busy,
         NEW l, NEW n, Quieted(l, s, n)
  PROVE  Quieted(l, Append(s, e), n)
<1>1. Places(Append(s, e), Busy) = Places(s, Busy)
  BY PlacesAdded
<1>2. Places(s, Calm) \subseteq Places(Append(s, e), Calm)
  BY PlacesAdded
<1>. QED
  BY <1>1, <1>2 DEF Quieted

LEMMA QuietedBy ==
  ASSUME NEW s \in Seq(Messages), NEW l, NEW n \in Nat, Quieted(l, s, n), NEW m \in Nat, n <= m
  PROVE  Quieted(l, s, m)
<1>1. Len(s) \in Nat /\ Places(s, Calm) \subseteq 1 .. Len(s)
  BY PlacesBound
<1>. QED
  BY <1>1 DEF Quieted

LEMMA LineAdded ==
  ASSUME NEW s \in Seq(Messages), NEW b, NEW l, Lined(l, s, b),
         NEW e \in Messages, e \notin Busy, e \notin Ending({})
  PROVE  Lined(l, Append(s, e), b)
<1> DEFINE w == Append(s, e)
<1>1. Places(w, Ending({})) = Places(s, Ending({}))
  BY PlacesAdded
<1>2. Len(s) \in Nat /\ Len(w) = Len(s) + 1 /\ w \in Seq(Messages)
  BY PlacesAppended
<1>3. \A n : Quieted(l, s, n) => Quieted(l, w, n)
  BY QuietedLater
<1> HIDE DEF w
<1>4. Quieted(l, s, Len(s) + 1) => Quieted(l, w, Len(w) + 1)
  BY <1>2, <1>3, QuietedBy
<1>. QED
  BY <1>1, <1>3, <1>4 DEF Lined, w

\* After a calm status everything that follows on the pipe is quieted.
LEMMA LineCalmed ==
  ASSUME NEW s \in Seq(Messages), NEW l, NEW e \in Calm
  PROVE  Quieted(l, Append(s, e), Len(Append(s, e)) + 1)
<1> DEFINE w == Append(s, e)
<1>1. e \in Messages /\ e \notin Busy
  BY DEF Calm, Busy
<1>2. Len(s) \in Nat /\ Len(w) = Len(s) + 1 /\ Places(s, Busy) \subseteq 1 .. Len(s)
  BY <1>1, PlacesAppended
<1>3. Places(w, Busy) = Places(s, Busy)
  BY <1>1, PlacesAdded
<1>4. Places(w, Calm) = Places(s, Calm) \cup {Len(s) + 1}
  BY <1>1, PlacesAdded
<1> HIDE DEF w
<1>5. \A j \in Places(w, Busy) : j < Len(s) + 1
  BY <1>2, <1>3
<1>6. Len(s) + 1 < Len(w) + 1
  BY <1>2
<1>. QED
  BY <1>4, <1>5, <1>6 DEF Quieted, w

\* A turn ends among the events of the agent's threads.
LEMMA LineEnds ==
  ASSUME NEW s, NEW b \in Seq(Events), NEW l, Lined(l, s, b),
         NEW e \in Events, e \notin Busy,
         e \in Ending({}) => Quieted(l, s, Len(s) + 1) \/ Places(b, Calm) # {}
  PROVE  Lined(l, s, Append(b, e))
<1> DEFINE w == Append(b, e)
<1>1. Len(b) \in Nat /\ Places(b, Calm) \subseteq 1 .. Len(b)
  BY PlacesBound
<1>2. Places(w, Busy) = Places(b, Busy) /\ Places(b, Calm) \subseteq Places(w, Calm)
  BY PlacesAdded
<1>3. /\ e \in Ending({}) => Places(w, Ending({})) = Places(b, Ending({})) \cup {Len(b) + 1}
      /\ e \notin Ending({}) => Places(w, Ending({})) = Places(b, Ending({}))
  BY PlacesAdded
<1> HIDE DEF w
<1>4. ASSUME NEW i \in Places(w, Ending({}))
      PROVE  Quieted(l, s, Len(s) + 1) \/ \E k \in Places(w, Calm) : k < i
  <2>1. CASE i \in Places(b, Ending({}))
    BY <1>2, <2>1 DEF Lined
  <2>2. CASE e \in Ending({}) /\ i = Len(b) + 1
    BY <1>1, <1>2, <2>2
  <2>. QED
    BY <1>3, <1>4, <2>1, <2>2
<1>. QED
  BY <1>2, <1>4 DEF Lined, w

\* The first of these events goes to the pipe.
LEMMA LineDrained ==
  ASSUME NEW s \in Seq(Messages), NEW b \in Seq(Events), b # << >>,
         NEW l, Lined(l, s, b)
  PROVE  Lined(l, Append(s, Head(b)), Tail(b))
<1> DEFINE m == Head(b)
           w == Append(s, m)
           v == Tail(b)
<1>1. m \in Messages /\ v \in Seq(Events)
  BY TailAt DEF Events
<1>2. /\ 1 \in Places(b, Busy) <=> m \in Busy
      /\ \A i \in Places(v, Busy) : i + 1 \in Places(b, Busy)
  BY Shifted
<1>3. /\ 1 \in Places(b, Ending({})) <=> m \in Ending({})
      /\ Places(v, Ending({})) = {i \in 1 .. Len(b) - 1 : i + 1 \in Places(b, Ending({}))}
  BY Shifted
<1>4. /\ 1 \in Places(b, Calm) <=> m \in Calm
      /\ \A i \in Places(b, Calm) : i # 1 => i - 1 \in Places(v, Calm)
  BY Shifted
<1>5. Len(b) \in Nat /\ Places(b, Calm) \subseteq 1 .. Len(b)
  BY PlacesBound
<1> HIDE DEF m, v
<1>6. m \notin Busy /\ Places(v, Busy) = {}
  BY <1>2 DEF Lined
<1>7. /\ m \in Ending({}) => Places(w, Ending({})) = Places(s, Ending({})) \cup {Len(s) + 1}
      /\ m \notin Ending({}) => Places(w, Ending({})) = Places(s, Ending({}))
  BY <1>1, PlacesAdded
<1>8. Len(s) \in Nat /\ Len(w) = Len(s) + 1 /\ w \in Seq(Messages)
  BY <1>1, PlacesAppended
<1>9. \A n : Quieted(l, s, n) => Quieted(l, w, n)
  BY <1>1, <1>6, QuietedLater
<1>10. m \in Calm => Quieted(l, w, Len(w) + 1)
  BY LineCalmed
<1> HIDE DEF w
<1>11. Quieted(l, s, Len(s) + 1) => Quieted(l, w, Len(w) + 1)
  BY <1>8, <1>9, QuietedBy
<1>12. ASSUME NEW i \in Places(w, Ending({}))
       PROVE  Quieted(l, w, i)
  <2>1. CASE i \in Places(s, Ending({}))
    BY <1>9, <2>1 DEF Lined
  <2>2. CASE m \in Ending({}) /\ i = Len(s) + 1
    <3>1. ~ \E k \in Places(b, Calm) : k < 1
      BY <1>5
    <3>2. Quieted(l, s, Len(s) + 1)
      BY <1>3, <2>2, <3>1 DEF Lined
    <3>. QED
      BY <1>9, <2>2, <3>2
  <2>. QED
    BY <1>7, <1>12, <2>1, <2>2
<1>13. ASSUME NEW i \in Places(v, Ending({}))
       PROVE  Quieted(l, w, Len(w) + 1) \/ \E k \in Places(v, Calm) : k < i
  <2>1. i \in 1 .. Len(b) - 1 /\ i + 1 \in Places(b, Ending({}))
    BY <1>3, <1>13
  <2>2. CASE Quieted(l, s, Len(s) + 1)
    BY <1>11, <2>2
  <2>3. ASSUME NEW k \in Places(b, Calm), k < i + 1
        PROVE  Quieted(l, w, Len(w) + 1) \/ \E j \in Places(v, Calm) : j < i
    <3>1. CASE k = 1
      BY <1>4, <1>10, <3>1
    <3>2. CASE k # 1
      <4>1. k - 1 \in Places(v, Calm)
        BY <1>4, <3>2
      <4>2. k - 1 < i
        BY <1>5, <2>1, <2>3
      <4>. QED
        BY <4>1, <4>2
    <3>. QED
      BY <3>1, <3>2
  <2>. QED
    BY <2>1, <2>2, <2>3 DEF Lined
<1>. QED
  BY <1>6, <1>12, <1>13 DEF Lined, m, v, w

\* The main process reads a message and knows what the message says.
LEMMA LineRead ==
  ASSUME NEW s \in Seq(Messages), s # << >>, NEW b, NEW l, Lined(l, s, b),
         NEW known,
         Head(s) \in Calm => known # "busy",
         Head(s) \notin Busy \cup Calm => known = l
  PROVE  Lined(known, Tail(s), b)
<1> DEFINE m == Head(s)
           w == Tail(s)
<1>1. /\ 1 \in Places(s, Busy) <=> m \in Busy
      /\ \A i \in Places(w, Busy) : i + 1 \in Places(s, Busy)
  BY Shifted
<1>2. Places(w, Ending({})) = {i \in 1 .. Len(s) - 1 : i + 1 \in Places(s, Ending({}))}
  BY Shifted
<1>3. /\ 1 \in Places(s, Calm) <=> m \in Calm
      /\ \A i \in Places(s, Calm) : i # 1 => i - 1 \in Places(w, Calm)
  BY Shifted
<1>4. /\ Len(s) \in Nat \ {0} /\ Places(s, Calm) \subseteq 1 .. Len(s)
      /\ Len(w) = Len(s) - 1
  BY PlacesTaken
<1>5. Places(s, Busy) \subseteq 1 .. Len(s) /\ Places(w, Busy) \subseteq 1 .. Len(s) - 1
  <2>1. Places(w, Busy) = {i \in 1 .. Len(s) - 1 : i + 1 \in Places(s, Busy)}
    BY Shifted
  <2>2. Places(s, Busy) \subseteq 1 .. Len(s)
    BY PlacesBound
  <2>. QED
    BY <2>1, <2>2
<1> HIDE DEF m, w
<1>6. ASSUME NEW n \in Nat, Quieted(l, s, n + 1)
      PROVE  Quieted(known, w, n)
  <2>1. CASE l # "busy" /\ Places(s, Busy) = {}
    <3>1. Places(w, Busy) = {} /\ m \notin Busy
      BY <1>1, <2>1
    <3>2. known # "busy"
      BY <2>1, <3>1 DEF m
    <3>. QED
      BY <3>1, <3>2 DEF Quieted
  <2>2. ASSUME NEW k \in Places(s, Calm), k < n + 1, \A j \in Places(s, Busy) : j < k
        PROVE  Quieted(known, w, n)
    <3>1. CASE k = 1
      <4>1. Places(s, Busy) = {}
        BY <1>5, <2>2, <3>1
      <4>2. m \in Calm /\ Places(w, Busy) = {}
        BY <1>1, <1>3, <3>1, <4>1
      <4>3. known # "busy"
        BY <4>2 DEF m
      <4>. QED
        BY <4>2, <4>3 DEF Quieted
    <3>2. CASE k # 1
      <4>1. k - 1 \in Places(w, Calm) /\ k - 1 < n
        BY <1>3, <1>4, <2>2, <3>2
      <4>2. ASSUME NEW j \in Places(w, Busy) PROVE j < k - 1
        <5>1. j + 1 < k /\ j \in 1 .. Len(s) - 1 /\ k \in 1 .. Len(s)
          BY <1>1, <1>4, <1>5, <2>2, <4>2
        <5>. QED
          BY <1>4, <5>1
      <4>. QED
        BY <4>1, <4>2 DEF Quieted
    <3>. QED
      BY <3>1, <3>2
  <2>. QED
    BY <1>6, <2>1, <2>2 DEF Quieted
<1>7. ASSUME NEW i \in Places(w, Ending({}))
      PROVE  Quieted(known, w, i)
  <2>1. i \in Nat /\ Quieted(l, s, i + 1)
    BY <1>2, <1>4, <1>7 DEF Lined
  <2>. QED
    BY <1>6, <2>1
<1>8. Quieted(l, s, Len(s) + 1) => Quieted(known, w, Len(w) + 1)
  BY <1>4, <1>6
<1>. QED
  BY <1>7, <1>8 DEF Lined, w

\* Who reads the end of a turn knows that the session is not busy.
LEMMA EndIsQuiet ==
  ASSUME NEW s \in Seq(Messages), s # << >>, NEW b, NEW l, Lined(l, s, b),
         Head(s) \in Ending({})
  PROVE  l # "busy" /\ Places(s, Busy) = {}
<1>1. 1 \in Places(s, Ending({}))
  BY Shifted
<1>2. Places(s, Calm) \subseteq 1 .. Len(s) /\ Len(s) \in Nat
  BY PlacesBound
<1>3. Quieted(l, s, 1)
  BY <1>1 DEF Lined
<1>. QED
  BY <1>2, <1>3 DEF Quieted

\* Nothing is left to be read: all is quiet.
LEMMA LineQuiet ==
  ASSUME NEW l, l # "busy", NEW s, Places(s, Busy) = {}, NEW b, Places(b, Busy) = {}
  PROVE  Lined(l, s, b)
BY DEF Lined, Quieted

LEMMA LineKnown ==
  ASSUME NEW l, NEW s, NEW b, Lined(l, s, b), NEW known, known # "busy"
  PROVE  Lined(known, s, b)
<1>1. \A n : Quieted(l, s, n) => Quieted(known, s, n)
  BY DEF Quieted
<1>. QED
  BY <1>1 DEF Lined

-----------------------------------------------------------------------------
(* The invariant that keeps the queue going.                                 *)

\* Messages that never come: the engine has no turn when a prompt reaches it,
\* and the session is prepared before it can be busy.
Surprising ==
    {m \in Messages : \/ m.k = "answer" /\ m.outcome = "busy"
                      \/ m.k = "prepared" /\ m.status = "busy"}

Steady ==
    /\ Running({}) \subseteq agent
    /\ \A p \in Prompts : stage[p] # "busy"
    /\ Places(pipe, Surprising) = {}

\* A session is prepared once, before a prompt is sent to it.
PreparedOnce ==
    /\ OneAtMost(cmds, Preparing) /\ OneAtMost(pipe, Preparation)
    /\ Places(cmds, Preparing) = {} \/ Places(pipe, Preparation) = {}
    /\ prep # "asked" => Places(cmds, Preparing) = {} /\ Places(pipe, Preparation) = {}
    /\ live # "none" => prep = "none"
    /\ prep # "busy"
    /\ live = "none" => /\ Named(cmds, Sending({})) = {} /\ turn = None
                        /\ session # "busy" /\ Places(pipe, Busy) = {}

Line == Lined(live, pipe, bg)

\* The session is taken for busy, now or in what is to be read, only while the
\* sidecar has the active prompt.
SeenBusy == live = "busy" \/ Places(pipe, Busy) # {}

BusyHasTurn ==
    SeenBusy => Active # {} /\ Started({}) = {} /\ Named(cmds, Sending({})) = {}

Lively == Steady /\ PreparedOnce /\ Line /\ BusyHasTurn /\ Eager

\* The parts of the invariants that the steps need.
LEMMA LivelyParts ==
  ASSUME HandsInv({})
  PROVE  /\ IInv /\ Alive
         /\ cmds \in Seq(Commands) /\ pipe \in Seq(Messages) /\ bg \in Seq(Events)
         /\ stage \in [Prompts -> {"none", "preparing", "asked"} \cup Answers]
         /\ prep \in {"none", "asked", "idle", "busy"}
         /\ session \in {"none", "idle", "busy", "error"}
         /\ turn \in Prompts \cup {None}
         /\ OneAtMost(cmds, Sending({}))
         /\ TurnTyped /\ OneTurn({}) /\ OfActive({}) /\ AnswersFirst({})
BY DEF HandsInv, Handed, TurnTyped, OneTurn

LEMMA SurpriseKinds ==
  ASSUME NEW m \in Messages
  PROVE  /\ m \in Surprising <=> (\/ m.k = "answer" /\ m.outcome = "busy"
                                  \/ m.k = "prepared" /\ m.status = "busy")
         /\ m \in Surprising => m \notin Events
         /\ m \in Preparation <=> m.k = "prepared"
BY DEF Surprising, Preparation, Events

\* While the session is seen busy the queue keeps its active prompt.
LEMMA BusyKept ==
  ASSUME HandsInv({}), BusyHasTurn, GoesOn, StagesFollow, SeenBusy' => SeenBusy,
         Named(cmds', Sending({})) = Named(cmds, Sending({}))
  PROVE  BusyHasTurn'
<1> SUFFICES ASSUME SeenBusy
             PROVE  Active' # {} /\ Started({})' = {} /\ Named(cmds', Sending({})) = {}
  BY DEF BusyHasTurn
<1>1. Active # {} /\ Started({}) = {} /\ Named(cmds, Sending({})) = {}
  BY DEF BusyHasTurn
<1>2. Kept
  BY <1>1, ActiveOne DEF GoesOn, Sent
<1>3. Active' = Active /\ Dispatched = {}
  BY <1>2 DEF Kept, Active
<1>4. Started({})' = Started({})
  BY <1>3, LivelyParts DEF Started, StagesFollow
<1>. QED
  BY <1>1, <1>3, <1>4

LEMMA StagesSteady ==
  ASSUME HandsInv({}), Steady, StagesFollow
  PROVE  \A p \in Prompts : stage'[p] # "busy"
BY DEF Steady, StagesFollow

\* What the main process does with the queue: the sidecar and its channels
\* stay, but for a cancellation that it may ask for.
LEMMA QueueLively ==
  ASSUME HandsInv({}), Lively, GoesOn, StagesFollow, Eager', live' = live,
         UNCHANGED <<prep, pipe, bg, sidecar>>,
         \/ cmds' = cmds
         \/ \E s \in BOOLEAN : cmds' = Append(cmds, [op |-> "cancel", steer |-> s])
  PROVE  Lively'
<1>1. Steady /\ PreparedOnce /\ Line /\ BusyHasTurn
  BY DEF Lively
<1>2. /\ Places(cmds', Preparing) = Places(cmds, Preparing)
      /\ Named(cmds', Sending({})) = Named(cmds, Sending({}))
      /\ OneAtMost(cmds', Preparing)
  <2>1. CASE cmds' = cmds
    BY <1>1, <2>1 DEF PreparedOnce
  <2>2. ASSUME NEW s \in BOOLEAN, cmds' = Append(cmds, [op |-> "cancel", steer |-> s])
        PROVE  /\ Places(cmds', Preparing) = Places(cmds, Preparing)
               /\ Named(cmds', Sending({})) = Named(cmds, Sending({}))
               /\ OneAtMost(cmds', Preparing)
    <3> DEFINE c == [op |-> "cancel", steer |-> s]
    <3>1. c \in Commands /\ c \notin Sending({}) /\ c \notin Preparing
      BY DEF Commands, Sending, Preparing
    <3> HIDE DEF c
    <3>2. Places(cmds', Preparing) = Places(cmds, Preparing)
      BY <2>2, <3>1, LivelyParts, PlacesAdded DEF c
    <3>3. Named(cmds', Sending({})) = Named(cmds, Sending({}))
      BY <2>2, <3>1, LivelyParts, AppendedNames DEF c
    <3>. QED
      BY <1>1, <3>2, <3>3 DEF PreparedOnce, OneAtMost
  <2>. QED
    BY <2>1, <2>2
<1>3. Steady'
  BY <1>1, StagesSteady DEF Steady, sidecar, Running
<1>4. PreparedOnce'
  BY <1>1, <1>2 DEF PreparedOnce, sidecar
<1>5. Line'
  BY <1>1 DEF Line
<1>6. BusyHasTurn'
  BY <1>1, <1>2, BusyKept DEF SeenBusy
<1>. QED
  BY <1>3, <1>4, <1>5, <1>6 DEF Lively

LEMMA UserLively ==
  ASSUME HandsInv({}), Lively, Edits \/ StopTurn \/ \E p \in Prompts : SteerTurn(p)
  PROVE  Lively'
<1>1. IInv /\ Alive /\ Eager
  BY LivelyParts DEF Lively
<1>2. GoesOn /\ Eager'
  BY <1>1, EditsGoOn, StopGoesOn, SteerGoesOn DEF StopTurn, SteerTurn
<1>3. live' = live
  BY DEF Edits, StopTurn, SteerTurn, Enqueue, BeginEdit, CancelEdit, Update,
         Remove, Clear, Steer, Stop, UserKeeps
<1>4. StagesFollow /\ UNCHANGED <<prep, pipe, bg, sidecar>>
  BY DEF Edits, StopTurn, SteerTurn, Elsewhere, channels
<1>5. \/ cmds' = cmds
      \/ \E s \in BOOLEAN : cmds' = Append(cmds, [op |-> "cancel", steer |-> s])
  BY DEF Edits, StopTurn, SteerTurn, Elsewhere, channels, Cancel
<1>. QED
  BY <1>2, <1>3, <1>4, <1>5, QueueLively

LEMMA PrepareLively ==
  ASSUME HandsInv({}), Lively, ~Reprepare, Prepare
  PROVE  Lively'
<1> DEFINE c == [op |-> "prepare"]
<1>1. Steady /\ PreparedOnce /\ Line /\ BusyHasTurn /\ Eager
  BY DEF Lively
<1>2. /\ prep = "none" /\ live = "none" /\ prep' = "asked"
      /\ cmds' = Append(cmds, c) /\ UNCHANGED <<vars, stage, pipe, bg, sidecar>>
  BY DEF Prepare
<1>3. c \in Commands /\ c \notin Sending({})
  BY DEF Commands, Sending
<1> HIDE DEF c
<1>4. Places(cmds, Preparing) = {} /\ Places(pipe, Preparation) = {}
  BY <1>1, <1>2 DEF PreparedOnce
<1>5. OneAtMost(cmds', Preparing)
  BY <1>1, <1>2, <1>3, <1>4, LivelyParts, AppendedNames, NamesAndPlaces DEF PreparedOnce
<1>6. Named(cmds', Sending({})) = Named(cmds, Sending({}))
  BY <1>2, <1>3, LivelyParts, AppendedNames
<1>7. GoesOn /\ StagesFollow /\ queue' = queue /\ live' = live
  BY <1>2, QueueLeft DEF vars
<1>8. Steady'
  BY <1>1, <1>2 DEF Steady, sidecar, Running
<1>9. PreparedOnce'
  BY <1>1, <1>2, <1>4, <1>5, <1>6, <1>7 DEF PreparedOnce, sidecar
<1>10. Line' /\ Eager'
  BY <1>1, <1>2, <1>7 DEF Line, Eager
<1>11. BusyHasTurn'
  BY <1>1, <1>2, <1>6, <1>7, BusyKept DEF SeenBusy
<1>. QED
  BY <1>8, <1>9, <1>10, <1>11 DEF Lively

LEMMA PreparedLively ==
  ASSUME HandsInv({}), Lively, Prepared
  PROVE  Lively'
<1>1. Steady /\ PreparedOnce /\ Line /\ BusyHasTurn /\ Eager /\ IInv /\ Alive
  BY LivelyParts DEF Lively
<1>2. /\ prep = "idle" /\ SessionSnapshot("idle") /\ prep' = "none"
      /\ StagesFollow /\ UNCHANGED <<cmds, pipe, bg, sidecar>>
  BY <1>1 DEF Prepared, Elsewhere, channels, PreparedOnce
<1>3. live = "none" /\ live' = "idle"
  BY <1>1, <1>2 DEF PreparedOnce, SessionSnapshot
<1>4. GoesOn /\ Eager'
  BY <1>1, <1>2, SnapshotGoesOn
<1>5. Steady'
  BY <1>1, <1>2, StagesSteady DEF Steady, sidecar, Running
<1>6. PreparedOnce'
  BY <1>1, <1>2, <1>3 DEF PreparedOnce, sidecar
<1>7. Line'
  BY <1>1, <1>2, <1>3, LineKnown DEF Line
<1>8. BusyHasTurn'
  BY <1>1, <1>2, <1>3, <1>4, BusyKept DEF SeenBusy
<1>. QED
  BY <1>4, <1>5, <1>6, <1>7, <1>8 DEF Lively

\* sendPrompt has the prompt: the session is not seen busy.
LEMMA SendLively ==
  ASSUME HandsInv({}), Lively, NEW p \in Prompts, Send(p) \/ SendFails(p)
  PROVE  Lively'
<1> DEFINE c == [op |-> "send", id |-> p]
<1>1. Steady /\ PreparedOnce /\ Line /\ BusyHasTurn /\ Eager
  BY DEF Lively
<1>2. /\ stage[p] = "preparing"
      /\ UNCHANGED <<vars, prep, pipe, bg, sidecar>>
      /\ \/ live # "none" /\ cmds' = Append(cmds, c) /\ stage' = [stage EXCEPT ![p] = "asked"]
         \/ cmds' = cmds /\ stage' = [stage EXCEPT ![p] = "failed"]
  BY DEF Send, SendFails, channels
<1>3. c \in Commands /\ c \notin Preparing
  BY DEF Commands, Preparing
<1> HIDE DEF c
<1>4. Places(cmds', Preparing) = Places(cmds, Preparing)
  <2>1. Places(Append(cmds, c), Preparing) = Places(cmds, Preparing)
    BY <1>3, LivelyParts, PlacesAdded
  <2>. QED
    BY <1>2, <2>1
<1>5. queue' = queue /\ live' = live
  BY <1>2 DEF vars
<1>6. ~SeenBusy
  BY <1>1, <1>2 DEF BusyHasTurn, Started
<1>7. Steady'
  BY <1>1, <1>2, LivelyParts DEF Steady, sidecar, Running
<1>8. PreparedOnce'
  BY <1>1, <1>2, <1>4, <1>5 DEF PreparedOnce, sidecar, OneAtMost
<1>9. Line' /\ Eager'
  BY <1>1, <1>2, <1>5 DEF Line, Eager
<1>10. BusyHasTurn'
  BY <1>2, <1>5, <1>6 DEF BusyHasTurn, SeenBusy
<1>. QED
  BY <1>7, <1>8, <1>9, <1>10 DEF Lively

LEMMA SettleLively ==
  ASSUME HandsInv({}), Lively, NEW p \in Prompts, Settle(p)
  PROVE  Lively'
<1>1. Steady /\ PreparedOnce /\ Line /\ BusyHasTurn /\ Eager /\ IInv /\ Alive
  BY LivelyParts DEF Lively
<1>2. /\ stage[p] \in {"accepted", "failed"} /\ stage' = [stage EXCEPT ![p] = "none"]
      /\ DispatchSettles(p, stage[p])
      /\ UNCHANGED <<prep, cmds, pipe, bg, sidecar>>
  BY <1>1 DEF Settle, channels, Answers, Steady
<1>3. live' = live
  BY <1>2 DEF DispatchSettles
<1>4. Eager' /\ (stage[p] = "accepted" => IdOf(queue'.active) = Active)
  BY <1>1, <1>2, AnswerSettles
<1>5. Steady'
  BY <1>1, <1>2, LivelyParts DEF Steady, sidecar, Running
<1>6. PreparedOnce'
  BY <1>1, <1>2, <1>3 DEF PreparedOnce, sidecar
<1>7. Line'
  BY <1>1, <1>2, <1>3 DEF Line
<1>8. BusyHasTurn'
  <2>1. CASE stage[p] = "accepted"
    <3>1. Started({})' \subseteq Started({})
      BY <1>2, LivelyParts DEF Started
    <3>. QED
      BY <1>1, <1>2, <1>3, <1>4, <2>1, <3>1 DEF BusyHasTurn, SeenBusy, Active
  <2>2. CASE stage[p] = "failed"
    <3>1. ~SeenBusy
      BY <1>1, <2>2 DEF BusyHasTurn, Started
    <3>. QED
      BY <1>2, <1>3, <3>1 DEF BusyHasTurn, SeenBusy
  <2>. QED
    BY <1>2, <2>1, <2>2
<1>. QED
  BY <1>4, <1>5, <1>6, <1>7, <1>8 DEF Lively

-----------------------------------------------------------------------------
(* The steps of the sidecar and of the pipe.                                 *)

\* A message on the pipe that is not busy, ends no turn and prepares nothing.
Mute == Messages \ (Busy \cup Ending({}) \cup Preparation \cup Surprising)

LEMMA MuteKinds ==
  /\ \A s \in {"idle", "error"} : [k |-> "status", status |-> s] \in Mute \cap Calm \cap Events
  /\ \A ok, s \in BOOLEAN : [k |-> "cancelled", ok |-> ok, steer |-> s] \in Mute
  /\ \A p \in Prompts : Answer(p, "accepted") \in Mute
<1>1. \A s \in {"idle", "error"} : [k |-> "status", status |-> s] \in Messages \cap Events
  BY MessageKinds
<1>2. \A ok, s \in BOOLEAN : [k |-> "cancelled", ok |-> ok, steer |-> s] \in Messages
  BY MessageKinds
<1>3. \A p \in Prompts : Answer(p, "accepted") \in Messages
  BY MessageKinds DEF Answers
<1>. QED
  BY <1>1, <1>2, <1>3
     DEF Mute, Calm, Busy, Ending, Preparation, Surprising, Answer

LEMMA MuteAdded ==
  ASSUME NEW s \in Seq(Messages), NEW e \in Mute, NEW b, NEW l, Lined(l, s, b)
  PROVE  /\ Append(s, e) \in Seq(Messages) /\ Lined(l, Append(s, e), b)
         /\ Places(Append(s, e), Busy) = Places(s, Busy)
         /\ Places(Append(s, e), Preparation) = Places(s, Preparation)
         /\ Places(Append(s, e), Surprising) = Places(s, Surprising)
         /\ e \in Calm => Quieted(l, Append(s, e), Len(Append(s, e)) + 1)
<1>1. e \in Messages /\ e \notin Busy /\ e \notin Ending({}) /\ e \notin Preparation
      /\ e \notin Surprising
  BY DEF Mute
<1>2. Append(s, e) \in Seq(Messages) /\ Lined(l, Append(s, e), b)
  BY <1>1, AppendAt, LineAdded
<1>3. Places(Append(s, e), Busy) = Places(s, Busy)
  BY <1>1, PlacesAdded
<1>4. Places(Append(s, e), Preparation) = Places(s, Preparation)
  BY <1>1, PlacesAdded
<1>5. Places(Append(s, e), Surprising) = Places(s, Surprising)
  BY <1>1, PlacesAdded
<1>. QED
  BY <1>2, <1>3, <1>4, <1>5, LineCalmed

LEMMA HeadCommand ==
  ASSUME HandsInv({}), PreparedOnce, cmds # << >>, cmds' = Tail(cmds)
  PROVE  /\ Head(cmds) \in Commands
         /\ Head(cmds).op = "prepare" => /\ Places(cmds, Preparing) # {}
                                         /\ Places(cmds', Preparing) = {}
         /\ Head(cmds).op # "prepare" =>
              (Places(cmds', Preparing) = {} <=> Places(cmds, Preparing) = {})
         /\ OneAtMost(cmds', Preparing)
         /\ Head(cmds).op = "send" => Named(cmds, Sending({})) # {} /\ Named(cmds', Sending({})) = {}
         /\ Head(cmds).op # "send" => Named(cmds', Sending({})) = Named(cmds, Sending({}))
<1>1. cmds \in Seq(Commands) /\ OneAtMost(cmds, Sending({})) /\ OneAtMost(cmds, Preparing)
  BY LivelyParts DEF PreparedOnce
<1>2. /\ Head(cmds) \in Commands
      /\ Head(cmds).op = "prepare" <=> Head(cmds) \in Preparing
      /\ Head(cmds).op = "send" <=> Head(cmds) \in Sending({})
  BY <1>1, TailAt DEF Preparing, Sending
<1>3. /\ OneAtMost(Tail(cmds), Preparing)
      /\ Head(cmds) \in Preparing =>
           Named(Tail(cmds), Preparing) = {} /\ Head(cmds).id \in Named(cmds, Preparing)
      /\ Head(cmds) \notin Preparing => Named(Tail(cmds), Preparing) = Named(cmds, Preparing)
  BY <1>1, TakenNames
<1>4. /\ Head(cmds) \in Sending({}) =>
           Named(Tail(cmds), Sending({})) = {} /\ Head(cmds).id \in Named(cmds, Sending({}))
      /\ Head(cmds) \notin Sending({}) => Named(Tail(cmds), Sending({})) = Named(cmds, Sending({}))
  BY <1>1, TakenNames
<1>5. /\ Named(cmds, Preparing) = {} <=> Places(cmds, Preparing) = {}
      /\ Named(Tail(cmds), Preparing) = {} <=> Places(Tail(cmds), Preparing) = {}
  BY NamesAndPlaces
<1>. QED
  BY <1>2, <1>3, <1>4, <1>5

LEMMA EnginePrepareLively ==
  ASSUME HandsInv({}), Lively, EnginePrepare
  PROVE  Lively'
<1>1. Steady /\ PreparedOnce /\ Line /\ BusyHasTurn /\ Eager
  BY DEF Lively
<1>2. /\ cmds # <<>> /\ cmds' = Tail(cmds) /\ Head(cmds).op = "prepare"
      /\ UNCHANGED <<vars, stage, prep, bg, turn, agent>>
  BY DEF EnginePrepare
<1>3. /\ Places(cmds, Preparing) # {} /\ Places(cmds', Preparing) = {}
      /\ Named(cmds', Sending({})) = Named(cmds, Sending({})) /\ OneAtMost(cmds', Preparing)
  BY <1>1, <1>2, HeadCommand
<1>4. /\ prep = "asked" /\ live = "none" /\ session # "busy" /\ Places(pipe, Busy) = {}
      /\ Named(cmds, Sending({})) = {} /\ turn = None /\ Places(pipe, Preparation) = {}
      /\ OneAtMost(pipe, Preparation)
  BY <1>1, <1>3 DEF PreparedOnce
<1>5. /\ session' \in {"none", "idle", "error"}
      /\ \E s \in {"idle", "error", "failed"}, r \in {"idle", "error"} :
           \/ pipe' = pipe \o <<PreparedAs(s), [k |-> "status", status |-> r]>>
           \/ pipe' = Append(pipe, PreparedAs(s))
  BY <1>4, LivelyParts DEF EnginePrepare
<1>6. PICK s \in {"idle", "error", "failed"}, r \in {"idle", "error"} :
        \/ pipe' = pipe \o <<PreparedAs(s), [k |-> "status", status |-> r]>>
        \/ pipe' = Append(pipe, PreparedAs(s))
  BY <1>5
<1> DEFINE e == PreparedAs(s)
           f == [k |-> "status", status |-> r]
           one == Append(pipe, e)
<1>7. e \in Messages /\ f \in Messages /\ f \in Mute
  BY MessageKinds, MuteKinds
<1>8. e \in Preparation /\ e \notin Busy /\ e \notin Ending({}) /\ e \notin Surprising
  BY <1>7 DEF PreparedAs, Preparation, Busy, Ending, Surprising
<1> HIDE DEF e, f
<1>9. pipe \in Seq(Messages) /\ one \in Seq(Messages) /\ Lined(live, one, bg)
  BY <1>1, <1>7, <1>8, LivelyParts, AppendAt, LineAdded DEF Line
<1>10. Places(one, Busy) = {}
  BY <1>4, <1>7, <1>8, <1>9, PlacesAdded
<1>11. Places(one, Surprising) = {}
  BY <1>1, <1>7, <1>8, <1>9, PlacesAdded DEF Steady
<1>12. OneAtMost(one, Preparation)
  BY <1>4, <1>7, <1>8, <1>9, AppendedNames, NamesAndPlaces
<1>13. pipe' = one \/ pipe' = Append(one, f)
  <2>1. pipe \o <<e, f>> = Append(one, f)
    BY <1>7, <1>9, PairAppended
  <2>. QED
    BY <1>6, <2>1 DEF e, f, one
<1> HIDE DEF one
<1>14. /\ Lined(live, pipe', bg) /\ Places(pipe', Busy) = {}
       /\ Places(pipe', Surprising) = {}
       /\ Places(pipe', Preparation) = Places(one, Preparation)
  <2>1. /\ Lined(live, Append(one, f), bg) /\ Places(Append(one, f), Busy) = {}
        /\ Places(Append(one, f), Surprising) = {}
        /\ Places(Append(one, f), Preparation) = Places(one, Preparation)
    BY <1>7, <1>9, <1>10, <1>11, MuteAdded
  <2>. QED
    BY <1>9, <1>10, <1>11, <1>13, <2>1
<1>15. OneAtMost(pipe', Preparation)
  BY <1>12, <1>14 DEF OneAtMost
<1>16. GoesOn /\ queue' = queue /\ live' = live /\ StagesFollow
  BY <1>2, QueueLeft DEF vars
<1>17. Steady'
  BY <1>1, <1>2, <1>14 DEF Steady, Running
<1>18. PreparedOnce'
  BY <1>1, <1>2, <1>3, <1>4, <1>5, <1>14, <1>15, <1>16 DEF PreparedOnce
<1>19. Line' /\ Eager'
  BY <1>1, <1>2, <1>14, <1>16 DEF Line, Eager
<1>20. BusyHasTurn'
  BY <1>4, <1>14, <1>16 DEF BusyHasTurn, SeenBusy
<1>. QED
  BY <1>17, <1>18, <1>19, <1>20 DEF Lively

\* begin_prompt: the session is seen busy from here, or never was.
LEMMA EngineSendLively ==
  ASSUME HandsInv({}), HandsInv({})', Lively, EngineSend, misled' = {}
  PROVE  Lively'
<1> DEFINE p == Head(cmds).id
           busy == [k |-> "status", status |-> "busy"]
           yes == Answer(p, "accepted")
           no == Answer(p, "failed")
           one == Append(pipe, busy)
<1>1. Steady /\ PreparedOnce /\ Line /\ BusyHasTurn /\ Eager
  BY DEF Lively
<1>2. /\ cmds # <<>> /\ cmds' = Tail(cmds) /\ Head(cmds).op = "send"
      /\ UNCHANGED <<vars, stage, prep, bg>>
      /\ EngineRefuses(p) \/ EngineRejects(p) \/ EngineStarts(p)
  BY DEF EngineSend
<1>3. /\ Places(cmds', Preparing) = {} <=> Places(cmds, Preparing) = {}
      /\ Named(cmds, Sending({})) # {} /\ Named(cmds', Sending({})) = {}
      /\ OneAtMost(cmds', Preparing)
  BY <1>1, <1>2, HeadCommand
<1>4. OnlyAt("cmds", {})
  BY <1>3, LivelyParts, TheHolder
<1>5. /\ turn = None /\ Started({}) = {} /\ Named(pipe, Ending({})) = {} /\ Named(bg, Ending({})) = {}
      /\ Active # {}
  BY <1>3, <1>4, LivelyParts DEF OnlyAt, Running, OfActive, Turns
<1>6. /\ ~SeenBusy /\ live # "none" /\ prep = "none"
      /\ Places(cmds, Preparing) = {} /\ Places(pipe, Preparation) = {}
  BY <1>1, <1>3 DEF BusyHasTurn, PreparedOnce
<1>7. p \in Prompts
  BY <1>1, <1>2, HeadCommand, CommandParts
<1>8. \/ turn' = p /\ agent' = agent \cup {p} /\ pipe' = pipe \o <<busy, yes>>
      \/ turn' = turn /\ agent' = agent /\ pipe' = Append(pipe, no)
  BY <1>2, <1>5 DEF EngineRefuses, EngineRejects, EngineStarts, Misleads, Admits
<1>9. /\ busy \in Messages /\ yes \in Messages /\ no \in Messages
      /\ yes \in Mute
      /\ busy \notin Surprising /\ busy \notin Preparation
      /\ no \notin Busy /\ no \notin Preparation /\ no \notin Surprising
  <2>1. busy \in Messages /\ yes \in Messages /\ no \in Messages /\ yes \in Mute
    BY <1>7, MessageKinds, MuteKinds DEF Answers
  <2>. QED
    BY <2>1 DEF Surprising, Preparation, Busy, Answer
<1> HIDE DEF p, busy, yes, no
<1>10. queue' = queue /\ live' = live
  BY <1>2 DEF vars
<1>11. /\ pipe \in Seq(Messages) /\ Places(bg, Busy) = {}
       /\ Places(pipe, Surprising) = {}
  BY <1>1, LivelyParts DEF Line, Lined, Steady
<1>12. CASE turn' = p /\ agent' = agent \cup {p} /\ pipe' = pipe \o <<busy, yes>>
  <2>2. one \in Seq(Messages)
    BY <1>9, <1>11, AppendAt
  <2>3. Places(one, Surprising) = {}
    BY <1>9, <1>11, PlacesAdded
  <2>4. Places(one, Preparation) = {}
    BY <1>6, <1>9, <1>11, PlacesAdded
  <2>5. pipe' = Append(one, yes)
    BY <1>9, <1>11, <1>12, PairAppended
  <2> HIDE DEF one
  <2>6. Places(pipe', Surprising) = {}
    BY <1>9, <2>2, <2>3, <2>5, PlacesAdded DEF Mute
  <2>7. Places(pipe', Preparation) = {}
    BY <1>9, <2>2, <2>4, <2>5, PlacesAdded DEF Mute
  <2>8. /\ Started({})' = {} /\ Named(pipe', Ending({})) = {} /\ Named(bg', Ending({})) = {}
        /\ Active' # {}
    <3>1. OneTurn({})' /\ OfActive({})'
      BY DEF HandsInv, Handed
    <3>2. turn' # None
      BY <1>7, <1>12, NoneAssumption
    <3>3. turn' \in Running({})'
      BY <3>2 DEF Running
    <3>4. Started({})' = {} /\ Named(pipe', Ending({})) = {} /\ Named(bg', Ending({})) = {}
      BY <3>1, <3>3 DEF OneTurn, OnlyAt
    <3>5. turn' \in Active'
      BY <3>1, <3>3 DEF OfActive, Turns
    <3>. QED
      BY <3>4, <3>5
  <2>9. Places(pipe', Ending({})) = {} /\ Places(bg', Ending({})) = {}
    BY <2>8, NamesAndPlaces
  <2>10. Steady'
    BY <1>1, <1>2, <1>12, <2>6 DEF Steady, Running
  <2>11. PreparedOnce'
    BY <1>1, <1>2, <1>3, <1>6, <1>10, <2>7 DEF PreparedOnce, OneAtMost
  <2>12. Line'
    BY <1>2, <1>11, <2>9 DEF Line, Lined
  <2>13. BusyHasTurn' /\ Eager'
    BY <1>1, <1>3, <1>10, <2>8 DEF BusyHasTurn, Eager
  <2>. QED
    BY <2>10, <2>11, <2>12, <2>13 DEF Lively
<1>13. CASE turn' = turn /\ agent' = agent /\ pipe' = Append(pipe, no)
  <2>2. Places(pipe', Busy) = {}
    BY <1>6, <1>9, <1>11, <1>13, PlacesAdded DEF SeenBusy
  <2>3. Places(pipe', Surprising) = {}
    BY <1>9, <1>11, <1>13, PlacesAdded
  <2>4. Places(pipe', Preparation) = {}
    BY <1>6, <1>9, <1>11, <1>13, PlacesAdded
  <2>5. Steady'
    BY <1>1, <1>2, <1>13, <2>3 DEF Steady, Running
  <2>6. PreparedOnce'
    BY <1>1, <1>2, <1>3, <1>6, <1>10, <2>4 DEF PreparedOnce, OneAtMost
  <2>7. Line'
    BY <1>2, <1>6, <1>10, <1>11, <2>2, LineQuiet DEF Line, SeenBusy
  <2>8. BusyHasTurn' /\ Eager'
    BY <1>1, <1>6, <1>10, <2>2 DEF BusyHasTurn, SeenBusy, Eager
  <2>. QED
    BY <2>5, <2>6, <2>7, <2>8 DEF Lively
<1>. QED
  BY <1>8, <1>12, <1>13

LEMMA EngineCancelLively ==
  ASSUME HandsInv({}), Lively, EngineCancel, misled' = {}
  PROVE  Lively'
<1> DEFINE yes == Cancelled(TRUE)
           no == Cancelled(FALSE)
           idle == [k |-> "status", status |-> "idle"]
           one == Append(pipe, yes)
<1>1. Steady /\ PreparedOnce /\ Line /\ BusyHasTurn /\ Eager
  BY DEF Lively
<1>2. /\ cmds # <<>> /\ cmds' = Tail(cmds) /\ Head(cmds).op = "cancel"
      /\ UNCHANGED <<vars, stage, prep, agent>>
  BY DEF EngineCancel
<1>3. /\ Places(cmds', Preparing) = {} <=> Places(cmds, Preparing) = {}
      /\ Named(cmds', Sending({})) = Named(cmds, Sending({})) /\ OneAtMost(cmds', Preparing)
      /\ Head(cmds).steer \in BOOLEAN
  BY <1>1, <1>2, HeadCommand, CommandParts
<1>4. yes \in Mute /\ no \in Mute /\ idle \in Mute \cap Calm
  BY <1>3, MuteKinds DEF Cancelled
<1>5. \/ /\ pipe' = Append(pipe, no)
         /\ session' \in {session, "idle"} /\ UNCHANGED <<turn, bg>>
      \/ /\ session' = "idle" /\ turn' = None
         /\ bg' = bg \o CancelEvents(turn)
         /\ pipe' = pipe \o <<yes, idle>>
  BY DEF EngineCancel, Misleads
<1> HIDE DEF yes, no, idle
<1>6. pipe \in Seq(Messages) /\ Lined(live, pipe, bg)
  BY <1>1, LivelyParts DEF Line
<1>7. /\ Places(pipe', Busy) = Places(pipe, Busy)
      /\ Places(pipe', Preparation) = Places(pipe, Preparation)
      /\ Places(pipe', Surprising) = Places(pipe, Surprising)
      /\ Lined(live, pipe', bg')
      /\ turn' \in {turn, None} /\ session' \in {session, "idle"}
  <2>1. CASE /\ pipe' = Append(pipe, no)
             /\ session' \in {session, "idle"} /\ UNCHANGED <<turn, bg>>
    BY <1>4, <1>6, <2>1, MuteAdded
  <2>2. CASE /\ session' = "idle" /\ turn' = None
             /\ bg' = bg \o CancelEvents(turn)
             /\ pipe' = pipe \o <<yes, idle>>
    <3>1. pipe' = Append(one, idle)
      <4>1. yes \in Messages /\ idle \in Messages
        BY <1>4 DEF Mute
      <4>2. pipe \o <<yes, idle>> = Append(Append(pipe, yes), idle)
        BY <1>6, <4>1, PairAppended
      <4>. QED
        BY <2>2, <4>2
    <3>2. /\ one \in Seq(Messages) /\ Lined(live, one, bg)
          /\ Places(one, Busy) = Places(pipe, Busy)
          /\ Places(one, Preparation) = Places(pipe, Preparation)
          /\ Places(one, Surprising) = Places(pipe, Surprising)
      BY <1>4, <1>6, MuteAdded
    <3> HIDE DEF one
    <3>3. /\ Lined(live, pipe', bg)
          /\ Places(pipe', Busy) = Places(pipe, Busy)
          /\ Places(pipe', Preparation) = Places(pipe, Preparation)
          /\ Places(pipe', Surprising) = Places(pipe, Surprising)
          /\ Quieted(live, pipe', Len(pipe') + 1)
      BY <1>4, <3>1, <3>2, MuteAdded
    <3>4. Lined(live, pipe', bg')
      <4>1. CASE turn = None
        <5>1. bg' = bg
          BY <2>2, <4>1, LivelyParts, ConcatEmptySeq DEF CancelEvents
        <5>. QED
          BY <3>3, <5>1
      <4>2. CASE turn # None
        <5> DEFINE e == TurnEvent(turn, "settled")
        <5>1. bg' = bg \o <<e>>
          BY <2>2, <4>2 DEF CancelEvents
        <5>2. e \in Messages \cap Events /\ e \in Ending({})
          BY <4>2, LivelyParts, MessageKinds
        <5> HIDE DEF e
        <5>3. bg \in Seq(Events) /\ bg' = Append(bg, e) /\ e \notin Busy
          BY <5>1, <5>2, LivelyParts, AppendIsConcat, StatusKinds
        <5>. QED
          BY <3>3, <5>2, <5>3, LineEnds
      <4>. QED
        BY <4>1, <4>2
    <3>. QED
      BY <2>2, <3>3, <3>4
  <2>. QED
    BY <1>5, <2>1, <2>2
<1>8. GoesOn /\ queue' = queue /\ live' = live /\ StagesFollow
  BY <1>2, QueueLeft DEF vars
<1>9. Steady'
  BY <1>1, <1>2, <1>7 DEF Steady, Running
<1>10. PreparedOnce'
  BY <1>1, <1>2, <1>3, <1>7, <1>8 DEF PreparedOnce, OneAtMost
<1>11. Line' /\ Eager'
  BY <1>1, <1>7, <1>8 DEF Line, Eager
<1>12. BusyHasTurn'
  BY <1>1, <1>3, <1>7, <1>8, BusyKept DEF SeenBusy
<1>. QED
  BY <1>9, <1>10, <1>11, <1>12 DEF Lively

LEMMA AgentLively ==
  ASSUME HandsInv({}), Lively, NEW p \in Prompts, NEW ok \in BOOLEAN, AgentFinishes(p, ok)
  PROVE  Lively'
<1> DEFINE e == [k |-> "status", status |-> session']
           f == TurnEvent(p, IF ok THEN "settled" ELSE "failed")
           one == Append(bg, e)
<1>1. Steady /\ PreparedOnce /\ Line /\ BusyHasTurn /\ Eager
  BY DEF Lively
<1>2. agent' = agent \ {p} /\ UNCHANGED <<vars, stage, prep, cmds, pipe>>
  BY DEF AgentFinishes
<1>3. \/ turn # p /\ UNCHANGED <<session, turn, bg>>
      \/ /\ turn = p /\ turn' = None /\ session' \in {"idle", "error"}
         /\ bg' = bg \o <<e, f>>
  BY DEF AgentFinishes
<1>4. Line'
  <2>1. CASE UNCHANGED <<session, turn, bg>>
    BY <1>1, <1>2, <2>1 DEF Line, vars
  <2>2. CASE session' \in {"idle", "error"} /\ bg' = bg \o <<e, f>>
    <3>1. /\ e \in Events /\ e \in Calm
          /\ f \in Messages \cap Events /\ f \in Ending({})
      BY <2>2, MuteKinds, MessageKinds
    <3> HIDE DEF e, f
    <3>2. /\ e \notin Busy /\ e \notin Ending({}) /\ f \notin Busy
      BY <3>1, StatusKinds DEF Calm
    <3>3. bg \in Seq(Events) /\ Lined(live, pipe, bg)
      BY <1>1, LivelyParts DEF Line
    <3>4. bg' = Append(one, f)
      BY <2>2, <3>1, <3>3, PairAppended
    <3>5. one \in Seq(Events) /\ Lined(live, pipe, one)
      BY <3>1, <3>2, <3>3, AppendAt, LineEnds
    <3>6. Places(one, Calm) # {}
      <4>1. Places(one, Calm) = Places(bg, Calm) \cup {Len(bg) + 1}
        BY <3>1, <3>3, PlacesAdded
      <4>. QED
        BY <4>1
    <3> HIDE DEF one
    <3>7. Lined(live, pipe, bg')
      BY <3>1, <3>2, <3>4, <3>5, <3>6, LineEnds
    <3>. QED
      BY <1>2, <3>7 DEF Line, vars
  <2>. QED
    BY <1>3, <2>1, <2>2
<1>5. GoesOn /\ queue' = queue /\ live' = live /\ StagesFollow
  BY <1>2, QueueLeft DEF vars
<1>6. Steady'
  BY <1>1, <1>2, <1>3 DEF Steady, Running
<1>7. PreparedOnce'
  BY <1>1, <1>2, <1>3, <1>5 DEF PreparedOnce
<1>8. Eager'
  BY <1>1, <1>5 DEF Eager
<1>9. BusyHasTurn'
  BY <1>1, <1>2, <1>5, BusyKept DEF SeenBusy
<1>. QED
  BY <1>4, <1>6, <1>7, <1>8, <1>9 DEF Lively

LEMMA DrainLively ==
  ASSUME HandsInv({}), Lively, Drain
  PROVE  Lively'
<1> DEFINE m == Head(bg)
<1>1. Steady /\ PreparedOnce /\ Line /\ BusyHasTurn /\ Eager
  BY DEF Lively
<1>2. /\ bg # <<>> /\ bg' = Tail(bg) /\ pipe' = Append(pipe, m)
      /\ UNCHANGED <<vars, stage, prep, cmds, sidecar>>
  BY DEF Drain
<1>3. pipe \in Seq(Messages) /\ bg \in Seq(Events) /\ Lined(live, pipe, bg)
  BY <1>1, LivelyParts DEF Line
<1>4. m \in Events /\ m \in Messages /\ m \notin Busy
  <2>1. m \in Events
    BY <1>2, <1>3, TailAt
  <2>2. 1 \in Places(bg, Busy) <=> m \in Busy
    BY <1>2, <1>3, Shifted
  <2>. QED
    BY <1>3, <2>1, <2>2 DEF Lined, Events
<1>5. Lined(live, pipe', bg')
  BY <1>2, <1>3, LineDrained
<1> HIDE DEF m
<1>6. m \notin Surprising /\ m \notin Preparation
  BY <1>4, SurpriseKinds DEF Events
<1>7. Places(pipe', Busy) = Places(pipe, Busy)
  BY <1>2, <1>3, <1>4, PlacesAdded
<1>8. Places(pipe', Surprising) = Places(pipe, Surprising)
  BY <1>2, <1>3, <1>4, <1>6, PlacesAdded
<1>9. Places(pipe', Preparation) = Places(pipe, Preparation)
  BY <1>2, <1>3, <1>4, <1>6, PlacesAdded
<1>10. GoesOn /\ queue' = queue /\ live' = live /\ StagesFollow
  BY <1>2, QueueLeft DEF vars
<1>11. Steady'
  BY <1>1, <1>2, <1>8 DEF Steady, Running, sidecar
<1>12. PreparedOnce'
  BY <1>1, <1>2, <1>7, <1>9, <1>10 DEF PreparedOnce, OneAtMost, sidecar
<1>13. Line' /\ Eager'
  BY <1>1, <1>5, <1>10 DEF Line, Eager
<1>14. BusyHasTurn'
  BY <1>1, <1>2, <1>7, <1>10, BusyKept DEF SeenBusy
<1>. QED
  BY <1>11, <1>12, <1>13, <1>14 DEF Lively

\* What the main process reads changes what it knows of the session.
LEMMA MessageRead ==
  ASSUME HandsInv({}), Lively, pipe # << >>, pipe' = Tail(pipe), bg' = bg,
         Head(pipe) \in Calm => live' # "busy",
         Head(pipe) \notin Busy \cup Calm => live' = live
  PROVE  /\ Head(pipe) \in Messages /\ Head(pipe) \notin Surprising
         /\ Line' /\ (SeenBusy' => SeenBusy)
         /\ Places(pipe', Surprising) = {} /\ OneAtMost(pipe', Preparation)
         /\ Head(pipe) \in Preparation =>
              Places(pipe', Preparation) = {} /\ Places(pipe, Preparation) # {}
         /\ Places(pipe, Preparation) = {} => Places(pipe', Preparation) = {}
         /\ Places(pipe, Busy) = {} => Places(pipe', Busy) = {}
         /\ Head(pipe) \in Ending({}) => ~SeenBusy
<1> DEFINE m == Head(pipe)
<1>1. Steady /\ PreparedOnce /\ Line /\ pipe \in Seq(Messages)
  BY LivelyParts DEF Lively
<1>2. m \in Messages
  BY <1>1, TailAt
<1>3. Line'
  BY <1>1, LineRead DEF Line
<1>4. m \in Ending({}) => ~SeenBusy
  BY <1>1, EndIsQuiet DEF Line, SeenBusy
<1>5. /\ 1 \in Places(pipe, Busy) <=> m \in Busy
      /\ \A i \in Places(pipe', Busy) : i + 1 \in Places(pipe, Busy)
  BY <1>1, Shifted
<1>6. /\ 1 \in Places(pipe, Surprising) <=> m \in Surprising
      /\ \A i \in Places(pipe', Surprising) : i + 1 \in Places(pipe, Surprising)
  BY <1>1, Shifted
<1>7. /\ 1 \in Places(pipe, Preparation) <=> m \in Preparation
      /\ \A i \in Places(pipe', Preparation) : i + 1 \in Places(pipe, Preparation)
  BY <1>1, Shifted
<1>8. /\ OneAtMost(pipe', Preparation)
      /\ m \in Preparation => Places(pipe', Preparation) = {}
  <2>1. /\ OneAtMost(Tail(pipe), Preparation)
        /\ m \in Preparation => Named(Tail(pipe), Preparation) = {}
    BY <1>1, TakenNames DEF PreparedOnce
  <2>. QED
    BY <2>1, NamesAndPlaces
<1> HIDE DEF m
<1>9. m \notin Surprising /\ Places(pipe', Surprising) = {}
  BY <1>1, <1>6 DEF Steady
<1>10. SeenBusy' => SeenBusy
  <2>1. CASE m \in Busy
    BY <1>5, <2>1 DEF SeenBusy
  <2>2. CASE m \notin Busy
    <3>1. live' = "busy" => live = "busy"
      BY <2>2 DEF m
    <3>. QED
      BY <1>5, <3>1 DEF SeenBusy
  <2>. QED
    BY <2>1, <2>2
<1>. QED
  BY <1>2, <1>3, <1>4, <1>5, <1>7, <1>8, <1>9, <1>10 DEF m

LEMMA DeliverLively ==
  ASSUME HandsInv({}), Lively, Deliver
  PROVE  Lively'
<1> DEFINE m == Head(pipe)
<1>1. Steady /\ PreparedOnce /\ Line /\ BusyHasTurn /\ Eager /\ IInv /\ Alive
  BY LivelyParts DEF Lively
<1>2. /\ pipe # <<>> /\ React(m) /\ pipe' = Tail(pipe)
      /\ UNCHANGED <<cmds, bg, sidecar>>
  BY DEF Deliver
<1>3. m \in Messages
  BY <1>2, LivelyParts, TailAt
<1>4. /\ m.k \in {"status", "prepared", "turn", "answer", "cancelled"}
      /\ m.k = "cancelled" => m.ok \in BOOLEAN
      /\ m.k = "answer" => m.id \in Prompts /\ m.outcome \in Answers
  BY <1>3, MessageParts
<1>5. live' # live => m.k = "status"
  BY <1>2, <1>4 DEF React, TurnStatus, SteerSettles, vars
<1>6. m.k = "status" => /\ live' = "none" <=> live = "none"
                        /\ m.status # "busy" => live' # "busy"
  BY <1>1, <1>2, OpenQueue DEF React, StatusEvent
<1>7. /\ m \in Calm => live' # "busy"
      /\ m \notin Busy \cup Calm => live' = live
  BY <1>3, <1>5, <1>6, StatusKinds
<1>8. /\ m \notin Surprising /\ Line' /\ (SeenBusy' => SeenBusy)
      /\ Places(pipe', Surprising) = {} /\ OneAtMost(pipe', Preparation)
      /\ m \in Preparation =>
           Places(pipe', Preparation) = {} /\ Places(pipe, Preparation) # {}
      /\ Places(pipe, Preparation) = {} => Places(pipe', Preparation) = {}
      /\ Places(pipe, Busy) = {} => Places(pipe', Busy) = {}
      /\ m \in Ending({}) => ~SeenBusy
  BY <1>2, <1>7, MessageRead
<1>9. live' = "none" <=> live = "none"
  BY <1>5, <1>6
<1> HIDE DEF m
<1>10. Steady'
  <2>1. \A p \in Prompts : stage'[p] # "busy"
    <3>1. CASE m.k = "answer"
      <4>1. stage' = [stage EXCEPT ![m.id] = m.outcome]
        BY <1>2, <3>1 DEF React
      <4>2. m.outcome # "busy"
        BY <1>3, <1>8, <3>1, SurpriseKinds
      <4>. QED
        BY <1>1, <4>1, <4>2, LivelyParts DEF Steady
    <3>2. CASE m.k # "answer"
      <4>1. StagesFollow \/ stage' = stage
        BY <1>2, <1>4, <3>2 DEF React, Elsewhere
      <4>. QED
        BY <1>1, <4>1, StagesSteady DEF Steady
    <3>. QED
      BY <3>1, <3>2
  <2>. QED
    BY <1>1, <1>2, <1>8, <2>1 DEF Steady, Running, sidecar
<1>11. PreparedOnce'
  <2>1. CASE m.k = "prepared"
    <3>1. prep' \in {"idle", "none"}
      BY <1>2, <1>3, <1>8, <2>1, SurpriseKinds DEF React
    <3>2. m \in Preparation
      BY <1>3, <2>1, SurpriseKinds
    <3>3. /\ Places(pipe', Preparation) = {} /\ Places(cmds, Preparing) = {}
          /\ prep = "asked"
      BY <1>1, <1>8, <3>2 DEF PreparedOnce
    <3>. QED
      BY <1>1, <1>2, <1>8, <1>9, <3>1, <3>3 DEF PreparedOnce, sidecar
  <2>2. CASE m.k # "prepared"
    <3>1. prep' = prep
      BY <1>2, <1>4, <2>2 DEF React, Elsewhere
    <3>. QED
      BY <1>1, <1>2, <1>8, <1>9, <3>1 DEF PreparedOnce, sidecar
  <2>. QED
    BY <2>1, <2>2
<1>12. Eager' /\ BusyHasTurn'
  <2>1. Named(cmds', Sending({})) = Named(cmds, Sending({}))
    BY <1>2
  <2>2. CASE m.k = "status"
    <3>1. StatusEvent(m.status) /\ StagesFollow
      BY <1>2, <2>2 DEF React, Elsewhere
    <3>2. live = "busy" => queue.active # None
      BY <1>1, ActiveOne DEF BusyHasTurn, SeenBusy
    <3>3. GoesOn /\ Eager'
      BY <1>1, <3>1, <3>2, StatusGoesOn
    <3>. QED
      BY <1>1, <1>8, <2>1, <3>1, <3>3, BusyKept
  <2>3. CASE m.k = "prepared"
    <3>1. UNCHANGED <<vars, stage>>
      BY <1>2, <2>3 DEF React
    <3>2. GoesOn /\ StagesFollow /\ queue' = queue /\ live' = live
      BY <3>1, QueueLeft DEF vars
    <3>. QED
      BY <1>1, <1>8, <2>1, <3>2, BusyKept DEF Eager
  <2>4. CASE m.k = "cancelled"
    <3>1. stage' = stage /\ (SteerSettles(m.ok) \/ UNCHANGED vars)
      BY <1>2, <2>4 DEF React
    <3>2. CASE UNCHANGED vars
      <4>1. GoesOn /\ StagesFollow /\ queue' = queue /\ live' = live
        BY <3>1, <3>2, QueueLeft DEF vars
      <4>. QED
        BY <1>1, <1>8, <2>1, <4>1, BusyKept DEF Eager
    <3>3. CASE SteerSettles(m.ok)
      <4>1. GoesOn /\ Eager'
        BY <1>1, <1>4, <2>4, <3>3, SteerSettlesGoesOn
      <4>2. flight' = flight
        BY <3>3 DEF SteerSettles, NothingQueued, Commit
      <4>3. Dispatched = {}
        BY <1>1, <4>2, OpenQueue, NothingDispatched
      <4>4. StagesFollow
        BY <3>1, <4>3, LivelyParts DEF StagesFollow
      <4>. QED
        BY <1>1, <1>8, <2>1, <4>1, <4>4, BusyKept
    <3>. QED
      BY <3>1, <3>2, <3>3
  <2>5. CASE m.k = "turn"
    <3>1. TurnStatus(m.id, m.result)
      BY <1>2, <2>5 DEF React
    <3>2. m \in Ending({})
      BY <1>3, <2>5, MessageParts
    <3>3. ~SeenBusy'
      BY <1>8, <3>2
    <3>4. m.id \in Named(pipe, Ending({}))
      BY <1>2, <3>2, LivelyParts, PipeFits, PipeRead DEF m
    <3>5. queue.active # None /\ queue.active.id = m.id
      BY <3>4, LivelyParts, ActiveOne DEF OfActive, Turns
    <3>6. Eager'
      BY <1>1, <3>1, <3>5, TurnEnds
    <3>. QED
      BY <3>3, <3>6 DEF BusyHasTurn
  <2>6. CASE m.k = "answer"
    <3>1. stage' = [stage EXCEPT ![m.id] = m.outcome] /\ UNCHANGED vars
      BY <1>2, <2>6 DEF React
    <3>2. queue' = queue /\ live' = live
      BY <3>1 DEF vars
    <3>3. CASE m.outcome = "accepted"
      <4>1. Started({})' \subseteq Started({})
        BY <1>4, <2>6, <3>1, <3>3, LivelyParts DEF Started
      <4>. QED
        BY <1>1, <1>8, <2>1, <3>2, <4>1 DEF BusyHasTurn, Eager, Active
    <3>4. CASE m.outcome # "accepted"
      <4>1. m \in Ending({})
        BY <1>3, <2>6, <3>4, MessageParts
      <4>. QED
        BY <1>1, <1>8, <3>2, <4>1 DEF BusyHasTurn, Eager
    <3>. QED
      BY <3>3, <3>4
  <2>. QED
    BY <1>4, <2>2, <2>3, <2>4, <2>5, <2>6
<1>. QED
  BY <1>8, <1>10, <1>11, <1>12 DEF Lively

-----------------------------------------------------------------------------
(* The specification.                                                        *)

\* To the queue alone, every step is one of its own or none.
LEMMA QueueSteps ==
  ASSUME TurnTyped, TurnNext
  PROVE  [Next]_vars
<1>1. CASE Edits
  BY <1>1 DEF Edits, Next, UserStep
<1>2. CASE StopTurn \/ \E p \in Prompts : SteerTurn(p)
  BY <1>2 DEF StopTurn, SteerTurn, Next, UserStep
<1>3. CASE Prepared
  <2>1. prep \in {"idle", "busy"} /\ SessionSnapshot(prep)
    BY <1>3 DEF Prepared
  <2>. QED
    BY <2>1 DEF Next, RuntimeStep
<1>4. CASE \E p \in Prompts : Settle(p)
  <2>1. PICK p \in Prompts : stage[p] \in Answers /\ DispatchSettles(p, stage[p])
    BY <1>4 DEF Settle
  <2>. QED
    BY <2>1 DEF Answers, Next, RuntimeStep
<1>5. CASE Deliver
  <2> DEFINE m == Head(pipe)
  <2>1. pipe # <<>> /\ React(m)
    BY <1>5 DEF Deliver
  <2>2. m \in Messages
    BY <2>1, TailAt DEF TurnTyped
  <2>3. /\ m.k \in {"status", "prepared", "turn", "answer", "cancelled"}
        /\ m.k = "turn" => m.id \in Prompts /\ m.result \in {"settled", "failed"}
        /\ m.k = "cancelled" => m.ok \in BOOLEAN
        /\ m.k = "status" => m.status \in {"idle", "busy", "error"}
    BY <2>2, MessageParts
  <2> HIDE DEF m
  <2>4. \/ UNCHANGED vars
        \/ m.k = "status" /\ StatusEvent(m.status)
        \/ m.k = "turn" /\ TurnStatus(m.id, m.result)
        \/ m.k = "cancelled" /\ SteerSettles(m.ok)
    BY <2>1, <2>3 DEF React
  <2>5. CASE m.k = "status" /\ StatusEvent(m.status)
    BY <2>3, <2>5 DEF Next, RuntimeStep
  <2>6. CASE m.k = "turn" /\ TurnStatus(m.id, m.result)
    BY <2>3, <2>6 DEF Next, RuntimeStep
  <2>7. CASE m.k = "cancelled" /\ SteerSettles(m.ok)
    BY <2>3, <2>7 DEF Next, RuntimeStep
  <2>. QED
    BY <2>4, <2>5, <2>6, <2>7
<1>6. CASE \/ Prepare \/ Drain \/ Engine \/ AgentWaits
           \/ \E p \in Prompts : Send(p) \/ SendFails(p)
           \/ \E p \in Prompts, ok \in BOOLEAN : AgentFinishes(p, ok)
  BY <1>6 DEF Prepare, Drain, Engine, EnginePrepare, EngineCancel, EngineSend,
     AgentWaits, Send, SendFails, AgentFinishes
<1>. QED
  BY <1>1, <1>2, <1>3, <1>4, <1>5, <1>6 DEF TurnNext

\* The more prompts are set aside, the less is on its way.
FewerAt(q, K, L, M) ==
    /\ Places(q, L) \subseteq Places(q, K)
    /\ Named(q, L) = Named(q, K) \ M
    /\ OneAtMost(q, K) => OneAtMost(q, L)

LEMMA FewerNames ==
  ASSUME NEW K, NEW L, NEW M, NEW q, \A e : e \in L <=> e \in K /\ e.id \notin M
  PROVE  FewerAt(q, K, L, M)
<1>1. Places(q, L) = {i \in Places(q, K) : q[i].id \notin M}
  BY DEF Places
<1>. QED
  BY <1>1 DEF FewerAt, Named, OneAtMost

LEMMA Fewer ==
  ASSUME NEW M0, NEW M, M0 \subseteq M, Handed(M0)
  PROVE  Handed(M)
<1>1. /\ \A e : e \in Sending(M) <=> e \in Sending(M0) /\ e.id \notin M
      /\ \A e : e \in Ending(M) <=> e \in Ending(M0) /\ e.id \notin M
      /\ \A e : e \in Accepting(M) <=> e \in Accepting(M0) /\ e.id \notin M
  BY DEF Sending, Ending, Accepting
<1>2. ASSUME NEW q
      PROVE  /\ FewerAt(q, Sending(M0), Sending(M), M)
             /\ FewerAt(q, Ending(M0), Ending(M), M)
             /\ FewerAt(q, Accepting(M0), Accepting(M), M)
  <2>1. FewerAt(q, Sending(M0), Sending(M), M)
    BY ONLY <1>1, FewerNames
  <2>2. FewerAt(q, Ending(M0), Ending(M), M)
    BY ONLY <1>1, FewerNames
  <2>3. FewerAt(q, Accepting(M0), Accepting(M), M)
    BY ONLY <1>1, FewerNames
  <2>. QED
    BY <2>1, <2>2, <2>3
<1>3. \A q : /\ Named(q, Sending(M)) = Named(q, Sending(M0)) \ M
             /\ Named(q, Ending(M)) = Named(q, Ending(M0)) \ M
             /\ Named(q, Accepting(M)) = Named(q, Accepting(M0)) \ M
             /\ OneAtMost(q, Sending(M0)) => OneAtMost(q, Sending(M))
             /\ OneAtMost(q, Ending(M0)) => OneAtMost(q, Ending(M))
             /\ OneAtMost(q, Accepting(M0)) => OneAtMost(q, Accepting(M))
             /\ Places(q, Ending(M)) \subseteq Places(q, Ending(M0))
             /\ Places(q, Accepting(M)) \subseteq Places(q, Accepting(M0))
  BY <1>2 DEF FewerAt
<1>4. Started(M) = Started(M0) \ M /\ Running(M) = Running(M0) \ M
  BY DEF Started, Running
<1>5. OneTurn(M0) /\ OfActive(M0) /\ AnswersFirst(M0)
  BY DEF Handed
<1>6. OneTurn(M)
  <2>1. PICK w \in {"stage", "cmds", "engine", "pipe", "bg"} : OnlyAt(w, M0)
    BY <1>5 DEF OneTurn
  <2>2. OnlyAt(w, M)
    BY <1>3, <1>4, <2>1 DEF OnlyAt
  <2>. QED
    BY <1>3, <1>5, <2>2 DEF OneTurn
<1>7. OfActive(M)
  <2>1. Turns(M) = Turns(M0) \ M
    BY <1>3, <1>4 DEF Turns
  <2>. QED
    BY <1>5, <2>1 DEF OfActive
<1>8. AnswersFirst(M)
  BY <1>3, <1>5 DEF AnswersFirst, Before
<1>. QED
  BY <1>6, <1>7, <1>8 DEF Handed

\* What was reported falsely stays so.
LEMMA MisledGrows ==
  ASSUME TurnTyped, misled \subseteq Prompts, [TurnNext]_turnVars
  PROVE  misled \subseteq misled' /\ misled' \subseteq Prompts
<1>1. CASE Edits \/ StopTurn \/ \E p \in Prompts : SteerTurn(p)
  BY <1>1 DEF Edits, StopTurn, SteerTurn, Elsewhere
<1>2. CASE \/ Prepare \/ Prepared \/ Drain \/ EnginePrepare \/ AgentWaits
           \/ \E p \in Prompts : Send(p) \/ SendFails(p) \/ Settle(p)
           \/ \E p \in Prompts, ok \in BOOLEAN : AgentFinishes(p, ok)
  BY <1>2 DEF Prepare, Prepared, Drain, EnginePrepare, AgentWaits, Send, SendFails,
     Settle, AgentFinishes, Elsewhere
<1>3. CASE Deliver
  <2> DEFINE m == Head(pipe)
  <2>1. pipe # << >> /\ React(m)
    BY <1>3 DEF Deliver
  <2>2. m.k \in {"status", "prepared", "turn", "answer", "cancelled"}
    BY <2>1, TailAt, MessageParts DEF TurnTyped
  <2> HIDE DEF m
  <2>. QED
    BY <2>1, <2>2 DEF React, Elsewhere
<1>4. CASE EngineSend
  <2>1. cmds # << >> /\ Head(cmds).op = "send"
    BY <1>4 DEF EngineSend
  <2>2. Head(cmds).id \in Prompts
    BY <2>1, TailAt, CommandParts DEF TurnTyped
  <2>3. misled' = misled \/ misled' = misled \cup {Head(cmds).id}
    BY <1>4 DEF EngineSend, EngineRefuses, EngineRejects, EngineStarts, Misleads
  <2>. QED
    BY <2>2, <2>3
<1>5. CASE EngineCancel
  <2>1. misled' = misled \/ (turn # None /\ misled' = misled \cup {turn})
    BY <1>5 DEF EngineCancel, Misleads
  <2>. QED
    BY <2>1 DEF TurnTyped
<1>6. CASE UNCHANGED turnVars
  BY <1>6 DEF turnVars
<1>. QED
  BY <1>1, <1>2, <1>3, <1>4, <1>5, <1>6 DEF TurnNext, Engine

\* A step seen with the prompts set aside that are misled by then.
LEMMA HandsStep ==
  ASSUME NEW M, HandsInv(M), [TurnNext]_turnVars, misled' \subseteq M
  PROVE  HandsInv(M)'
<1>1. IInv /\ TurnTyped /\ OneTurn(M) /\ AnswersFirst(M)
  BY DEF HandsInv, Handed
<1>2. CASE TurnNext
  <2>1. IInv'
    BY <1>1, <1>2, QueueSteps, NextIInv
  <2>2. Handed(M)'
    BY <1>2, EditsHanded, CancelsHanded, PreparingHanded, DeliverHanded,
       DrainHanded, SendHanded, SendFailsHanded, SettleHanded,
       EnginePrepareHanded, EngineCancelHanded, EngineSendHanded, AgentHanded
       DEF TurnNext, Engine
  <2>. QED
    BY <2>1, <2>2 DEF HandsInv
<1>3. CASE UNCHANGED turnVars
  <2>1. UNCHANGED <<vars, stage, prep, cmds, pipe, bg, session, turn>>
    BY <1>3 DEF turnVars, vars
  <2>2. IInv'
    BY <1>1, <2>1, NextIInv
  <2>3. Untold(M)
    BY <1>1, <2>1, UntoldWhenUnchanged DEF Untold
  <2>4. Handed(M)'
    BY <1>1, <2>1, <2>3, QueueLeft, TurnsGoOn DEF TurnTyped
  <2>. QED
    BY <2>2, <2>4 DEF HandsInv
<1>. QED
  BY <1>2, <1>3

LEMMA TurnParts ==
  ASSUME TurnInv
  PROVE  misled \subseteq Prompts /\ IInv /\ TurnTyped /\ HandsInv(misled)
<1>1. PICK M \in SUBSET Prompts : misled = M /\ Handed(M)
  BY DEF TurnInv
<1>. QED
  BY <1>1 DEF TurnInv, HandsInv, Handed

LEMMA TurnStep == TurnInv /\ [TurnNext]_turnVars => TurnInv'
<1> SUFFICES ASSUME TurnInv, [TurnNext]_turnVars PROVE TurnInv'
  OBVIOUS
<1>1. PICK M0 \in SUBSET Prompts : misled = M0 /\ Handed(M0)
  BY DEF TurnInv
<1>2. misled \subseteq misled' /\ misled' \subseteq Prompts
  BY <1>1, MisledGrows DEF Handed
<1>3. PICK M \in SUBSET Prompts : misled' = M
  BY <1>2
<1>4. Handed(M)
  BY <1>1, <1>2, <1>3, Fewer
<1>5. HandsInv(M)
  BY <1>4 DEF HandsInv, TurnInv
<1>6. HandsInv(M)'
  BY <1>3, <1>5, HandsStep
<1>. QED
  BY <1>3, <1>6 DEF TurnInv, HandsInv

LEMMA TurnStart == TurnInit => TurnInv
<1> SUFFICES ASSUME TurnInit PROVE TurnInv
  OBVIOUS
<1>1. IInv
  BY InitIInv DEF TurnInit
<1>2. queue.active = None /\ Alive
  BY DEF TurnInit, Init, Absent, Record, Alive
<1>3. TurnTyped
  BY DEF TurnInit, TurnTyped
<1>4. /\ Started({}) = {} /\ Running({}) = {} /\ Named(cmds, Sending({})) = {}
      /\ Named(pipe, Ending({})) = {} /\ Named(bg, Ending({})) = {}
      /\ Named(pipe, Accepting({})) = {}
      /\ OneAtMost(cmds, Sending({})) /\ OneAtMost(pipe, Ending({}))
      /\ OneAtMost(bg, Ending({})) /\ OneAtMost(pipe, Accepting({}))
  BY SingleNames DEF TurnInit, Started, Running
<1>5. OneTurn({}) /\ OfActive({}) /\ AnswersFirst({})
  BY <1>2, <1>4, NamesAndPlaces
     DEF OneTurn, OnlyAt, OfActive, Turns, Active, IdOf, AnswersFirst, Before
<1>6. misled = {}
  BY DEF TurnInit
<1>. QED
  BY <1>1, <1>2, <1>3, <1>5, <1>6 DEF TurnInv, Handed

\* In every reachable state of the queue and the sidecar together, the queue's
\* record is sound, and of the prompts that were not misreported there is one
\* turn at most, in one hand, for the prompt that is active in the queue.
THEOREM OneTurnAtATime == TurnSpec => []TurnInv
BY TurnStart, TurnStep, PTL DEF TurnSpec

\* The prompt that the engine runs is the queue's active one until its turn has
\* ended for the queue too, whatever the user cancels, edits or steers and
\* however late the engine's answers and events arrive, unless the engine
\* answered its send, or its cancellation, as failed after it had acted.
THEOREM RunningIsActive == TurnSpec => []TurnIsActive
<1>1. TurnInv => TurnIsActive
  <2> SUFFICES ASSUME TurnInv, turn # None, turn \notin misled
               PROVE  queue.active # None /\ queue.active.id = turn
    BY DEF TurnIsActive
  <2>1. OfActive(misled)
    BY TurnParts DEF HandsInv, Handed
  <2>2. turn \in Active
    BY <2>1 DEF OfActive, Turns, Running
  <2>. QED
    BY <2>2, ActiveOne
<1>. QED
  BY <1>1, OneTurnAtATime, PTL

\* A prompt that reaches the engine finds it without a turn, and begin_prompt
\* refuses none as busy, unless it is misreported, or the one that runs is.
THEOREM NoneIsRefused == TurnSpec => []EngineNeverRefuses
<1>1. TurnInv => EngineNeverRefuses
  <2> SUFFICES ASSUME TurnInv, cmds # <<>>, Head(cmds).op = "send",
                      turn \notin misled, Head(cmds).id \notin misled
               PROVE  turn = None
    BY DEF EngineNeverRefuses
  <2>1. TurnTyped /\ OneTurn(misled)
    BY TurnParts DEF HandsInv, Handed
  <2>2. cmds \in Seq(Commands) /\ OneAtMost(cmds, Sending(misled))
    BY <2>1 DEF TurnTyped, OneTurn
  <2>3. Head(cmds) \in Sending(misled)
    BY <2>2, TailAt, CommandParts
  <2>4. Named(cmds, Sending(misled)) # {}
    BY <2>2, <2>3, TakenNames
  <2>5. Running(misled) = {}
    BY <2>1, <2>4, TheHolder DEF OnlyAt
  <2>. QED
    BY <2>5 DEF Running
<1>. QED
  BY <1>1, OneTurnAtATime, PTL

\* Seen from the queue alone, the queue and the sidecar together do nothing
\* that the queue's own specification does not allow.
THEOREM TurnsAreQueueSteps == TurnSpec => Spec
<1>1. TurnInit => Init
  BY DEF TurnInit
<1>2. TurnInv /\ [TurnNext]_turnVars => [Next]_vars
  <2>1. UNCHANGED turnVars => UNCHANGED vars
    BY DEF turnVars, vars
  <2>. QED
    BY <2>1, QueueSteps, TurnParts
<1>. QED
  BY <1>1, <1>2, OneTurnAtATime, PTL DEF TurnSpec, Spec

\* What keeps the queue going survives every step, as long as nothing is
\* misreported.  A session is prepared once and no waiting status comes late:
\* without the one or the other it does not.
LEMMA LivelyStep ==
  ASSUME ~Reprepare, ~LateStatus, HandsInv({}), Lively, [TurnNext]_turnVars,
         misled' = {}
  PROVE  Lively'
<1>1. CASE Edits \/ StopTurn \/ \E p \in Prompts : SteerTurn(p)
  BY <1>1, UserLively
<1>2. CASE Prepare
  BY <1>2, PrepareLively
<1>3. CASE Prepared
  BY <1>3, PreparedLively
<1>4. CASE Deliver
  BY <1>4, DeliverLively
<1>5. CASE Drain
  BY <1>5, DrainLively
<1>6. CASE \E p \in Prompts : Send(p) \/ SendFails(p)
  BY <1>6, SendLively
<1>7. CASE \E p \in Prompts : Settle(p)
  BY <1>7, SettleLively
<1>8. CASE EnginePrepare
  BY <1>8, EnginePrepareLively
<1>9. CASE EngineCancel
  BY <1>9, EngineCancelLively
<1>10. CASE EngineSend
  <2>1. HandsInv({})'
    BY HandsStep
  <2>. QED
    BY <1>10, <2>1, EngineSendLively
<1>11. CASE \E p \in Prompts, ok \in BOOLEAN : AgentFinishes(p, ok)
  BY <1>11, AgentLively
<1>12. CASE AgentWaits
  BY <1>12 DEF AgentWaits
<1>13. CASE UNCHANGED turnVars
  <2>1. UNCHANGED <<queue, live, stage, prep, cmds, pipe, bg, session, turn, agent>>
    BY <1>13 DEF turnVars
  <2>2. Steady' /\ PreparedOnce' /\ Line' /\ Eager'
    BY <2>1 DEF Lively, Steady, Running, PreparedOnce, OneAtMost, Line, Eager
  <2>3. BusyHasTurn'
    BY <2>1 DEF Lively, BusyHasTurn, SeenBusy, Active, Started
  <2>. QED
    BY <2>2, <2>3 DEF Lively
<1>. QED
  BY <1>1, <1>2, <1>3, <1>4, <1>5, <1>6, <1>7, <1>8, <1>9, <1>10, <1>11, <1>12,
     <1>13 DEF TurnNext, Engine

LEMMA LivelyStart == TurnInit => Lively
<1> SUFFICES ASSUME TurnInit PROVE Lively
  OBVIOUS
<1>1. /\ queue = Absent /\ live = "none" /\ stage = [p \in Prompts |-> "none"]
      /\ prep = "none" /\ cmds = << >> /\ pipe = << >> /\ bg = << >>
      /\ session = "none" /\ turn = None
  BY DEF TurnInit, Init
<1>2. \A K : Places(cmds, K) = {} /\ Places(pipe, K) = {} /\ Named(cmds, K) = {}
  BY <1>1, EmptySeq DEF Places, Named
<1>3. Steady
  BY <1>1, <1>2 DEF Steady, Running
<1>4. PreparedOnce
  BY <1>1, <1>2 DEF PreparedOnce, OneAtMost
<1>5. Line
  BY <1>1, <1>2, LineQuiet, EmptySeq DEF Line, Places
<1>6. BusyHasTurn
  BY <1>1, <1>2 DEF BusyHasTurn, SeenBusy
<1>7. Waiting(queue) = {} /\ queue.items = << >> /\ queue.active = None
  BY <1>1, EmptySeq DEF Absent, Record, Waiting
<1>8. Eager
  BY <1>7 DEF Eager, Justified, Windowed, CanDrain
<1>. QED
  BY <1>3, <1>4, <1>5, <1>6, <1>8 DEF Lively

\* At rest nobody has a turn, so nothing is active and the session is not seen
\* busy: a prompt that waits could be sent, and the queue would have sent it.
LEMMA LivelyRests ==
  ASSUME HandsInv({}), Lively
  PROVE  NoStall
<1> SUFFICES ASSUME AtRest, ~queue.paused, queue.editing = None, Waiting(queue) # {}
             PROVE  Failing(queue)
  BY DEF NoStall, Failing
<1>1. /\ cmds = << >> /\ pipe = << >> /\ bg = << >> /\ agent = {}
      /\ \A p \in Prompts : stage[p] = "none"
  BY DEF AtRest
<1>2. \A K : Places(pipe, K) = {} /\ Named(cmds, K) = {}
             /\ Named(pipe, K) = {} /\ Named(bg, K) = {}
  BY <1>1, EmptySeq DEF Places, Named
<1>3. Started({}) = {} /\ Running({}) = {}
  BY <1>1 DEF Started, Lively, Steady
<1>4. Active = {}
  BY <1>2, <1>3, LivelyParts DEF OfActive, Turns
<1>5. queue.active = None /\ live # "busy"
  BY <1>4, ActiveOne DEF Lively, BusyHasTurn, SeenBusy
<1>6. queue.items # << >>
  BY EmptySeq DEF Waiting
<1>7. queue.owned
  BY <1>6 DEF Lively, Eager, Windowed
<1>8. CanDrain(queue, live)
  BY <1>5, <1>7, LivelyParts DEF CanDrain, Alive
<1>. QED
  BY <1>8 DEF Lively, Eager, Justified

\* A session that is prepared once, whose agent reports no waiting status late
\* and of which nothing is misreported, never comes to rest with a prompt that
\* waits in a queue that could send it: whatever the user cancels, edits or
\* steers, whichever prompts fail, and in whatever order the sidecar's answers
\* and events are read.
THEOREM NothingStalls ==
  ASSUME ~Reprepare, ~LateStatus
  PROVE  TurnSpec => []NoStall
<1> DEFINE Going == TurnInv /\ (misled = {} => Lively)
<1>1. TurnInit => Going
  BY LivelyStart, TurnStart
<1>2. Going /\ [TurnNext]_turnVars => Going'
  <2> SUFFICES ASSUME Going, [TurnNext]_turnVars PROVE Going'
    OBVIOUS
  <2>1. TurnInv'
    BY TurnStep
  <2>2. ASSUME misled' = {} PROVE Lively'
    <3>1. misled = {}
      BY <2>2, TurnParts, MisledGrows
    <3>2. HandsInv({})
      BY <3>1, TurnParts
    <3>. QED
      BY <2>2, <3>1, <3>2, LivelyStep
  <2>. QED
    BY <2>1, <2>2
<1>3. Going => NoStall
  <2> SUFFICES ASSUME Going, misled = {} PROVE NoStall
    BY DEF NoStall
  <2>1. HandsInv({})
    BY TurnParts
  <2>. QED
    BY <2>1, LivelyRests
<1>. QED
  BY <1>1, <1>2, <1>3, PTL DEF TurnSpec

=============================================================================
