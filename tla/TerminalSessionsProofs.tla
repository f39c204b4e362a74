----------------------- MODULE TerminalSessionsProofs -----------------------
(***************************************************************************)
(* What TLAPS proves of TerminalSessions, for any number of sessions,      *)
(* chunks, acts and reloads.  Each part rests on the ones before it:       *)
(*   one session per terminal, and what follows an exit;                   *)
(*   the types, with calls and answers that name sessions there are;       *)
(*   the end of a session is kept: the one creation the store waits for;   *)
(*   what a viewport shows: a list names no session the store would not    *)
(*   have heard of by then, and a session's output is a line from the      *)
(*   process to the viewport.                                              *)
(***************************************************************************)
EXTENDS TerminalSessions, SequenceTheorems, TLAPS

-----------------------------------------------------------------------------
(* One session per terminal.  The property is inductive as it stands: a    *)
(* session is only created when the index finds none, and the index loses  *)
(* an entry only with the session it names.                                *)

LEMMA UnregisterKeepsOne ==
  ASSUME OneSessionPerTerminal, NEW s, Unregister(s)
  PROVE  OneSessionPerTerminal'
BY DEF OneSessionPerTerminal, Unregister

LEMMA ServeKeepsOne ==
  ASSUME OneSessionPerTerminal, Serve
  PROVE  OneSessionPerTerminal'
<1> DEFINE req == Head(requests)
<1>1. CASE ServeReuse(req) \/ ServeList(req)
  BY <1>1 DEF OneSessionPerTerminal, ServeReuse, ServeList, native
<1>2. CASE ServeCreate(req)
  BY <1>2 DEF OneSessionPerTerminal, ServeCreate
<1>3. CASE ServeFailure(req)
  BY <1>3 DEF OneSessionPerTerminal, ServeFailure
<1>4. CASE ServeClose(req)
  <2>1. CASE req.session \in registered
    BY <1>4, <2>1, UnregisterKeepsOne DEF ServeClose
  <2>2. CASE req.session \notin registered
    BY <1>4, <2>2 DEF OneSessionPerTerminal, ServeClose
  <2> QED BY <2>1, <2>2
<1> QED BY <1>1, <1>2, <1>3, <1>4 DEF Serve

LEMMA ThreadsKeepOne ==
  ASSUME OneSessionPerTerminal, NEW s \in Sessions, Threads(s)
  PROVE  OneSessionPerTerminal'
<1>1. CASE MonitorRemoves(s)
  BY <1>1, UnregisterKeepsOne DEF MonitorRemoves
<1>2. CASE ReaderReads(s) \/ ReaderSends(s) \/ MonitorPolls(s) \/ MonitorReports(s) \/ Flush(s)
  BY <1>2 DEF OneSessionPerTerminal, ReaderReads, ReaderSends, MonitorPolls,
              MonitorReports, Flush
<1> QED BY <1>1, <1>2 DEF Threads

(* The registry never holds two sessions of one terminal, and finds the    *)
(* one it holds under the terminal's id (reusable_session and              *)
(* remove_session_from_state).                                             *)
THEOREM OneSession == Spec => []OneSessionPerTerminal
<1>1. Init => OneSessionPerTerminal
  BY DEF Init, OneSessionPerTerminal
<1>2. OneSessionPerTerminal /\ [Next]_vars => OneSessionPerTerminal'
  <2> SUFFICES ASSUME OneSessionPerTerminal, [Next]_vars PROVE OneSessionPerTerminal'
    OBVIOUS
  <2>1. CASE Serve
    BY <2>1, ServeKeepsOne
  <2>2. CASE \E s \in Sessions : Threads(s)
    BY <2>2, ThreadsKeepOne
  <2>3. CASE EnsureTerminal \/ Restart \/ CloseTerminal \/ Hide \/ Show \/ Reload
    BY <2>3 DEF OneSessionPerTerminal, EnsureTerminal, Restart, CloseTerminal, Hide,
                Show, Reload, Act, native
  <2>4. CASE ReceiveAnswer
    BY <2>4 DEF OneSessionPerTerminal, ReceiveAnswer, native
  <2>5. CASE \E s \in Sessions : Receive(s)
    BY <2>5 DEF OneSessionPerTerminal, Receive, ReceiveOutput, ReceiveExit, Receives, native
  <2>6. CASE UNCHANGED vars
    BY <2>6 DEF OneSessionPerTerminal, vars, native
  <2> QED BY <2>1, <2>2, <2>3, <2>4, <2>5, <2>6 DEF Next
<1> QED BY <1>1, <1>2, PTL DEF Spec

-----------------------------------------------------------------------------
(* What follows an exit.  Once a session's monitor has let go of it, the   *)
(* session is closed and its reader takes nothing more; what the coalescer *)
(* holds was swept out before the exit.                                    *)

InHand(s) == IF s \in holding THEN 1 ELSE 0

OutputTyped ==
  /\ taken \in [Sessions -> 0 .. MaxOutput]
  /\ holding \subseteq {s \in Sessions : taken[s] \in Chunks}
  /\ closed \in [Sessions -> BOOLEAN]
  /\ monitor \in [Sessions -> {"none", "watching", "removing", "reporting", "done"}]
  /\ pending \in [Sessions -> Seq(Chunks)]
  /\ events \in [Sessions -> Seq(Chunks \cup {Exit})]

FreshIsUnwatched ==
  /\ created \in 0 .. MaxSessions
  /\ \A s \in Sessions : s > created => monitor[s] = "none"

ReportedIsClosed ==
  \A s \in Sessions : monitor[s] \in {"reporting", "done"} => closed[s]

ExitAndAfter ==
  \A s \in Sessions :
    \A i \in DOMAIN events[s] :
      events[s][i] = Exit =>
        /\ monitor[s] = "done"
        /\ Len(events[s]) + Len(pending[s]) + InHand(s) <= i + 1

ExitInv == OutputTyped /\ FreshIsUnwatched /\ ReportedIsClosed /\ ExitAndAfter

output == <<created, taken, holding, closed, monitor, pending, events>>

(* Arithmetic of the bound: what is counted may shrink, or change places.  *)
LEMMA BoundKept ==
  ASSUME NEW a \in Nat, NEW b \in Nat, NEW c \in Nat, NEW i \in Nat, a + b + c <= i + 1
  PROVE  /\ a + b <= i + 1
         /\ \A d, e \in Nat : d + e = b + c => a + d + e <= i + 1
OBVIOUS

LEMMA ExitStutter ==
  ASSUME ExitInv, UNCHANGED output
  PROVE  ExitInv'
BY DEF ExitInv, OutputTyped, FreshIsUnwatched, ReportedIsClosed, ExitAndAfter, InHand,
       output

LEMMA ExitServe ==
  ASSUME ExitInv, Serve
  PROVE  ExitInv'
<1> USE TerminalBounds DEF Sessions
<1> DEFINE req == Head(requests)
<1>1. CASE ServeReuse(req) \/ ServeList(req) \/ ServeFailure(req)
  BY <1>1, ExitStutter DEF Serve, ServeReuse, ServeList, ServeFailure, native, output
<1>2. CASE ServeCreate(req)
  <2> DEFINE n == created + 1
  <2>1. /\ created < MaxSessions /\ created' = n
        /\ UNCHANGED <<taken, holding, closed, pending, events>>
        /\ monitor' = [monitor EXCEPT ![n] = "watching"]
    BY <1>2 DEF Serve, ServeCreate
  <2>2. n \in Sessions /\ monitor[n] = "none"
    BY <2>1 DEF ExitInv, FreshIsUnwatched
  <2>3. /\ monitor \in [Sessions -> {"none", "watching", "removing", "reporting", "done"}]
        /\ created \in 0 .. MaxSessions
    BY DEF ExitInv, OutputTyped, FreshIsUnwatched
  <2>4. OutputTyped'
    BY <2>1, <2>2, <2>3 DEF ExitInv, OutputTyped
  <2>5. FreshIsUnwatched'
    BY <2>1, <2>2, <2>3 DEF ExitInv, FreshIsUnwatched
  <2>6. ReportedIsClosed'
    BY <2>1, <2>2, <2>3 DEF ExitInv, ReportedIsClosed
  <2>7. ExitAndAfter'
    BY <2>1, <2>2, <2>3 DEF ExitInv, ExitAndAfter, InHand
  <2> QED BY <2>4, <2>5, <2>6, <2>7 DEF ExitInv
<1>3. CASE ServeClose(req)
  <2>1. /\ UNCHANGED <<created, taken, holding, monitor, pending, events>>
        /\ \/ closed' = [closed EXCEPT ![req.session] = TRUE]
           \/ closed' = closed
    BY <1>3 DEF Serve, ServeClose
  <2>2. OutputTyped' /\ FreshIsUnwatched' /\ ReportedIsClosed'
    BY <2>1 DEF ExitInv, OutputTyped, FreshIsUnwatched, ReportedIsClosed
  <2>3. ExitAndAfter'
    BY <2>1 DEF ExitInv, ExitAndAfter, InHand
  <2> QED BY <2>2, <2>3 DEF ExitInv
<1> QED BY <1>1, <1>2, <1>3 DEF Serve

LEMMA ExitReader ==
  ASSUME ExitInv, NEW s \in Sessions, ReaderReads(s) \/ ReaderSends(s)
  PROVE  ExitInv'
<1> USE TerminalBounds
<1>1. CASE ReaderReads(s)
  <2>1. /\ ~closed[s] /\ taken[s] < MaxOutput
        /\ UNCHANGED <<created, closed, monitor, pending, events>>
        /\ taken' = [taken EXCEPT ![s] = @ + 1]
        /\ holding' = holding \cup {s}
    BY <1>1 DEF ReaderReads, elsewhere
  <2>2. taken[s] \in 0 .. MaxOutput /\ taken[s] + 1 \in Chunks
    BY <2>1 DEF ExitInv, OutputTyped, Chunks
  <2>3. OutputTyped' /\ FreshIsUnwatched' /\ ReportedIsClosed'
    BY <2>1, <2>2 DEF ExitInv, OutputTyped, FreshIsUnwatched, ReportedIsClosed, Chunks
  <2>4. monitor[s] # "done"
    BY <2>1 DEF ExitInv, ReportedIsClosed
  <2>5. ExitAndAfter'
    BY <2>1, <2>4 DEF ExitInv, ExitAndAfter, InHand
  <2> QED BY <2>3, <2>5 DEF ExitInv
<1>2. CASE ReaderSends(s)
  <2>1. /\ s \in holding
        /\ UNCHANGED <<created, taken, closed, monitor, events>>
        /\ pending' = [pending EXCEPT ![s] = Append(@, taken[s])]
        /\ holding' = holding \ {s}
    BY <1>2 DEF ReaderSends, elsewhere
  <2>2. /\ pending[s] \in Seq(Chunks) /\ taken[s] \in Chunks
        /\ pending \in [Sessions -> Seq(Chunks)]
    BY <2>1 DEF ExitInv, OutputTyped
  <2>3. /\ Append(pending[s], taken[s]) \in Seq(Chunks)
        /\ Len(Append(pending[s], taken[s])) = Len(pending[s]) + 1
        /\ Len(pending[s]) \in Nat
    BY <2>2
  <2>4. pending' \in [Sessions -> Seq(Chunks)]
    BY <2>1, <2>2, <2>3
  <2>5. OutputTyped' /\ FreshIsUnwatched' /\ ReportedIsClosed'
    BY <2>1, <2>4 DEF ExitInv, OutputTyped, FreshIsUnwatched, ReportedIsClosed
  <2>6. ASSUME NEW t \in Sessions
        PROVE  Len(pending'[t]) + InHand(t)' = Len(pending[t]) + InHand(t)
    <3>1. CASE t = s
      BY <2>1, <2>2, <2>3, <3>1 DEF InHand
    <3>2. CASE t # s
      BY <2>1, <2>2, <3>2 DEF InHand
    <3> QED BY <3>1, <3>2
  <2>7. ExitAndAfter'
    <3> SUFFICES ASSUME NEW t \in Sessions, NEW i \in DOMAIN events[t], events[t][i] = Exit
                 PROVE  /\ monitor[t] = "done"
                        /\ Len(events[t]) + Len(pending'[t]) + InHand(t)' <= i + 1
      BY <2>1 DEF ExitAndAfter
    <3>1. /\ monitor[t] = "done"
          /\ Len(events[t]) + Len(pending[t]) + InHand(t) <= i + 1
      BY DEF ExitInv, ExitAndAfter
    <3>2. /\ Len(events[t]) \in Nat /\ Len(pending[t]) \in Nat /\ i \in Nat
          /\ InHand(t) \in Nat
          /\ Len(pending'[t]) \in Nat /\ InHand(t)' \in Nat
      BY <2>4 DEF ExitInv, OutputTyped, InHand
    <3>3. Len(pending'[t]) + InHand(t)' = Len(pending[t]) + InHand(t)
      BY <2>6
    <3> QED BY <3>1, <3>2, <3>3, BoundKept
  <2> QED BY <2>5, <2>7 DEF ExitInv
<1> QED BY <1>1, <1>2

LEMMA ExitMonitor ==
  ASSUME ExitInv, NEW s \in Sessions, MonitorPolls(s) \/ MonitorRemoves(s)
  PROVE  ExitInv'
<1>1. /\ UNCHANGED <<created, taken, holding, pending, events>>
      /\ monitor[s] \in {"watching", "removing"}
      /\ \/ /\ closed' = closed
            /\ monitor' = [monitor EXCEPT ![s] = "removing"]
         \/ /\ closed' = [closed EXCEPT ![s] = TRUE]
            /\ monitor' = [monitor EXCEPT ![s] = "reporting"]
  BY DEF MonitorPolls, MonitorRemoves, elsewhere
<1>2. OutputTyped'
  BY <1>1 DEF ExitInv, OutputTyped
<1>3. FreshIsUnwatched'
  BY <1>1 DEF ExitInv, OutputTyped, FreshIsUnwatched
<1>4. ReportedIsClosed'
  BY <1>1 DEF ExitInv, OutputTyped, ReportedIsClosed
<1>5. ExitAndAfter'
  BY <1>1 DEF ExitInv, OutputTyped, ExitAndAfter, InHand
<1> QED BY <1>2, <1>3, <1>4, <1>5 DEF ExitInv

(* What the coalescer gives away, it gives away as a whole: with the exit  *)
(* behind it, or alone.                                                    *)
LEMMA ExitSwept ==
  ASSUME ExitInv, NEW s \in Sessions, MonitorReports(s) \/ Flush(s)
  PROVE  ExitInv'
<1> USE TerminalBounds
<1> DEFINE old == events[s]
           swept == pending[s]
<1>1. /\ old \in Seq(Chunks \cup {Exit}) /\ swept \in Seq(Chunks)
      /\ events \in [Sessions -> Seq(Chunks \cup {Exit})]
      /\ pending \in [Sessions -> Seq(Chunks)]
      /\ monitor \in [Sessions -> {"none", "watching", "removing", "reporting", "done"}]
  BY DEF ExitInv, OutputTyped
<1>2. Exit \notin Chunks
  BY DEF Exit, Chunks
<1>3. swept \in Seq(Chunks \cup {Exit})
  BY <1>1
<1>4. /\ UNCHANGED <<created, taken, holding, closed>>
      /\ pending' = [pending EXCEPT ![s] = << >>]
  BY DEF MonitorReports, Flush, elsewhere
<1>5. pending' \in [Sessions -> Seq(Chunks)] /\ pending'[s] = << >>
  BY <1>1, <1>4
<1>6. CASE MonitorReports(s)
  <2>1. /\ monitor[s] = "reporting"
        /\ monitor' = [monitor EXCEPT ![s] = "done"]
        /\ events' = [events EXCEPT ![s] = old \o swept \o <<Exit>>]
    BY <1>6 DEF MonitorReports
  <2>2. old \o swept \o <<Exit>> \in Seq(Chunks \cup {Exit})
    BY <1>1, <1>3
  <2>3. OutputTyped'
    BY <1>1, <1>4, <1>5, <2>1, <2>2 DEF ExitInv, OutputTyped
  <2>4. FreshIsUnwatched' /\ ReportedIsClosed'
    BY <1>1, <1>4, <2>1 DEF ExitInv, FreshIsUnwatched, ReportedIsClosed
  <2>5. \A i \in DOMAIN old : old[i] # Exit
    BY <2>1 DEF ExitInv, ExitAndAfter
  <2>6. \A i \in DOMAIN (old \o swept \o <<Exit>>) :
          (old \o swept \o <<Exit>>)[i] = Exit => i = Len(old \o swept \o <<Exit>>)
    <3> DEFINE both == old \o swept
    <3>1. /\ both \in Seq(Chunks \cup {Exit}) /\ Len(both) = Len(old) + Len(swept)
          /\ Len(old) \in Nat /\ Len(swept) \in Nat
      BY <1>1, <1>3
    <3>2. \A i \in DOMAIN both : both[i] # Exit
      BY <1>1, <1>2, <1>3, <2>5
    <3> HIDE DEF both
    <3>3. \A i \in DOMAIN (both \o <<Exit>>) :
            (both \o <<Exit>>)[i] = Exit => i = Len(both \o <<Exit>>)
      <4>1. \A q \in Seq(Chunks \cup {Exit}) :
              /\ Len(q \o <<Exit>>) = Len(q) + 1
              /\ DOMAIN (q \o <<Exit>>) = 1 .. Len(q) + 1
              /\ \A i \in 1 .. Len(q) : (q \o <<Exit>>)[i] = q[i]
        <5>1. <<Exit>> \in Seq(Chunks \cup {Exit}) /\ Len(<<Exit>>) = 1
          OBVIOUS
        <5> QED BY <5>1
      <4>2. DOMAIN both = 1 .. Len(both) /\ Len(both) \in Nat
        <5>1. \A q \in Seq(Chunks \cup {Exit}) : DOMAIN q = 1 .. Len(q) /\ Len(q) \in Nat
          OBVIOUS
        <5> QED BY <3>1, <5>1
      <4>3. /\ Len(both \o <<Exit>>) = Len(both) + 1
            /\ DOMAIN (both \o <<Exit>>) = 1 .. Len(both) + 1
            /\ \A i \in 1 .. Len(both) : (both \o <<Exit>>)[i] = both[i]
        BY <3>1, <4>1
      <4> DEFINE more == both \o <<Exit>>
      <4> HIDE DEF more
      <4>4. /\ Len(more) = Len(both) + 1 /\ DOMAIN more = 1 .. Len(both) + 1
            /\ \A i \in 1 .. Len(both) : more[i] = both[i]
        BY <4>3 DEF more
      <4>5. \A i \in DOMAIN more : more[i] = Exit => i = Len(more)
        BY <3>2, <4>2, <4>4
      <4> QED BY <4>5 DEF more
    <3> QED BY <3>3 DEF both
  <2>7. ExitAndAfter'
    <3> SUFFICES ASSUME NEW t \in Sessions, NEW i \in DOMAIN events'[t], events'[t][i] = Exit
                 PROVE  /\ monitor'[t] = "done"
                        /\ Len(events'[t]) + Len(pending'[t]) + InHand(t)' <= i + 1
      BY DEF ExitAndAfter
    <3>1. CASE t = s
      <4>1. events'[t] = old \o swept \o <<Exit>> /\ monitor'[t] = "done"
        BY <1>1, <2>1, <3>1
      <4>2. i = Len(events'[t]) /\ Len(events'[t]) \in Nat
        <5> DEFINE whole == old \o swept \o <<Exit>>
        <5>1. events'[t] = whole
          BY <4>1
        <5>2. Len(whole) \in Nat
          <6>1. \A q \in Seq(Chunks \cup {Exit}) : Len(q) \in Nat
            OBVIOUS
          <6> QED BY <2>2, <6>1
        <5>3. \A j \in DOMAIN whole : whole[j] = Exit => j = Len(whole)
          BY <2>6
        <5> HIDE DEF whole
        <5> QED BY <5>1, <5>2, <5>3
      <4>3. Len(pending'[t]) = 0 /\ InHand(t)' \in {0, 1}
        BY <1>5, <3>1 DEF InHand
      <4> HIDE DEF InHand
      <4>4. ASSUME NEW n \in Nat, NEW h \in {0, 1}
            PROVE  n + 0 + h <= n + 1
        OBVIOUS
      <4> QED BY <4>1, <4>2, <4>3, <4>4
    <3>2. CASE t # s
      BY <1>1, <1>4, <2>1, <3>2 DEF ExitInv, ExitAndAfter, InHand
    <3> QED BY <3>1, <3>2
  <2> QED BY <2>3, <2>4, <2>7 DEF ExitInv
<1>7. CASE Flush(s)
  <2>1. /\ monitor' = monitor
        /\ events' = [events EXCEPT ![s] = old \o swept]
    BY <1>7 DEF Flush
  <2>2. /\ old \o swept \in Seq(Chunks \cup {Exit})
        /\ Len(old \o swept) = Len(old) + Len(swept)
        /\ Len(old) \in Nat /\ Len(swept) \in Nat
    BY <1>1, <1>3
  <2>3. OutputTyped'
    BY <1>1, <1>4, <1>5, <2>1, <2>2 DEF ExitInv, OutputTyped
  <2>4. FreshIsUnwatched' /\ ReportedIsClosed'
    BY <1>4, <2>1 DEF ExitInv, FreshIsUnwatched, ReportedIsClosed
  <2>5. \A i \in DOMAIN (old \o swept) :
          (old \o swept)[i] = Exit => i \in DOMAIN old /\ old[i] = Exit
    BY <1>1, <1>2, <1>3
  <2>6. ExitAndAfter'
    <3> SUFFICES ASSUME NEW t \in Sessions, NEW i \in DOMAIN events'[t], events'[t][i] = Exit
                 PROVE  /\ monitor'[t] = "done"
                        /\ Len(events'[t]) + Len(pending'[t]) + InHand(t)' <= i + 1
      BY DEF ExitAndAfter
    <3>1. CASE t = s
      <4>1. events'[t] = old \o swept
        BY <1>1, <2>1, <3>1
      <4>2. i \in DOMAIN old /\ old[i] = Exit
        BY <2>5, <4>1
      <4>3. /\ monitor[s] = "done"
            /\ Len(old) + Len(swept) + InHand(s) <= i + 1
        BY <4>2 DEF ExitInv, ExitAndAfter
      <4>4. Len(pending'[t]) = 0 /\ InHand(t)' = InHand(s) /\ InHand(s) \in {0, 1}
        BY <1>4, <1>5, <3>1 DEF InHand
      <4> QED BY <1>1, <2>1, <2>2, <3>1, <4>1, <4>2, <4>3, <4>4
    <3>2. CASE t # s
      BY <1>1, <1>4, <2>1, <3>2 DEF ExitInv, ExitAndAfter, InHand
    <3> QED BY <3>1, <3>2
  <2> QED BY <2>3, <2>4, <2>6 DEF ExitInv
<1> QED BY <1>6, <1>7

(* An event that is received moves the others forward.                     *)
LEMMA ExitReceive ==
  ASSUME ExitInv, NEW s \in Sessions, Receive(s)
  PROVE  ExitInv'
<1> USE TerminalBounds
<1> DEFINE old == events[s]
<1>1. /\ UNCHANGED <<created, taken, holding, closed, monitor, pending>>
      /\ old # << >>
      /\ events' = [events EXCEPT ![s] = Tail(old)]
  BY DEF Receive, ReceiveOutput, ReceiveExit, Receives, native
<1>2. /\ old \in Seq(Chunks \cup {Exit})
      /\ events \in [Sessions -> Seq(Chunks \cup {Exit})]
      /\ \A t \in Sessions : Len(pending[t]) \in Nat
  BY DEF ExitInv, OutputTyped
<1>3. /\ Tail(old) \in Seq(Chunks \cup {Exit})
      /\ Len(Tail(old)) = Len(old) - 1 /\ Len(old) \in Nat
      /\ \A i \in DOMAIN Tail(old) : i + 1 \in DOMAIN old /\ Tail(old)[i] = old[i + 1]
  BY <1>1, <1>2
<1>4. OutputTyped' /\ FreshIsUnwatched' /\ ReportedIsClosed'
  BY <1>1, <1>2, <1>3 DEF ExitInv, OutputTyped, FreshIsUnwatched, ReportedIsClosed
<1>5. ExitAndAfter'
  <2> SUFFICES ASSUME NEW t \in Sessions, NEW i \in DOMAIN events'[t], events'[t][i] = Exit
               PROVE  /\ monitor'[t] = "done"
                      /\ Len(events'[t]) + Len(pending'[t]) + InHand(t)' <= i + 1
    BY DEF ExitAndAfter
  <2>1. CASE t = s
    <3>1. events'[t] = Tail(old) /\ i \in Nat
      BY <1>1, <1>2, <1>3, <2>1
    <3>2. i + 1 \in DOMAIN old /\ old[i + 1] = Exit
      BY <1>3, <3>1
    <3>3. /\ monitor[s] = "done"
          /\ Len(old) + Len(pending[s]) + InHand(s) <= i + 1 + 1
      BY <3>2 DEF ExitInv, ExitAndAfter
    <3>4. InHand(t)' = InHand(s) /\ InHand(s) \in {0, 1}
      BY <1>1, <2>1 DEF InHand
    <3> QED BY <1>1, <1>2, <1>3, <2>1, <3>1, <3>3, <3>4
  <2>2. CASE t # s
    BY <1>1, <1>2, <2>2 DEF ExitInv, ExitAndAfter, InHand
  <2> QED BY <2>1, <2>2
<1> QED BY <1>4, <1>5 DEF ExitInv

(* Behind a session's exit comes at most the one chunk its reader had in   *)
(* hand (spawn_output_reader, spawn_exit_monitor, handle_message).         *)
THEOREM LittleFollows == Spec => []LittleFollowsTheExit
<1>1. Init => ExitInv
  BY TerminalBounds DEF Init, ExitInv, OutputTyped, FreshIsUnwatched, ReportedIsClosed,
     ExitAndAfter, InHand, Sessions
<1>2. ExitInv /\ [Next]_vars => ExitInv'
  <2> SUFFICES ASSUME ExitInv, [Next]_vars PROVE ExitInv'
    OBVIOUS
  <2>1. CASE Serve
    BY <2>1, ExitServe
  <2>2. CASE \E s \in Sessions : Threads(s)
    BY <2>2, ExitReader, ExitMonitor, ExitSwept DEF Threads
  <2>3. CASE EnsureTerminal \/ Restart \/ CloseTerminal \/ Hide \/ Show \/ Reload
    BY <2>3, ExitStutter DEF EnsureTerminal, Restart, CloseTerminal, Hide, Show, Reload,
       Act, native, output
  <2>4. CASE ReceiveAnswer
    BY <2>4, ExitStutter DEF ReceiveAnswer, native, output
  <2>5. CASE \E s \in Sessions : Receive(s)
    BY <2>5, ExitReceive
  <2>6. CASE UNCHANGED vars
    BY <2>6, ExitStutter DEF vars, native, output
  <2> QED BY <2>1, <2>2, <2>3, <2>4, <2>5, <2>6 DEF Next
<1>3. ExitInv => LittleFollowsTheExit
  <2> SUFFICES ASSUME ExitInv, NEW s \in Sessions, NEW i \in DOMAIN events[s],
                      events[s][i] = Exit
               PROVE  Len(events[s]) + Len(pending[s]) <= i + 1
    BY DEF LittleFollowsTheExit
  <2>1. Len(events[s]) + Len(pending[s]) + InHand(s) <= i + 1
    BY DEF ExitInv, ExitAndAfter
  <2>2. /\ Len(events[s]) \in Nat /\ Len(pending[s]) \in Nat /\ i \in Nat
        /\ InHand(s) \in Nat
    BY DEF ExitInv, OutputTyped, InHand
  <2> QED BY <2>1, <2>2, BoundKept
<1> QED BY <1>1, <1>2, <1>3, PTL DEF Spec

-----------------------------------------------------------------------------
(* Types.  A call and its answer name sessions that were created; that the *)
(* store only ever holds such sessions rests on it.                        *)

GoodRequests(n) ==
  {r \in Request : /\ r.session <= n
                   /\ r.op = "close" => r.session # NoSession
                   /\ r.recreate => r.op = "close"
                   /\ r.op = "create" => r.version # 0}

GoodAnswers(n) ==
  {a \in Answer : /\ a.session <= n
                  /\ a.op = "created" => a.session # NoSession
                  /\ a.op = "failed" => a.session = NoSession
                  /\ a.recreate => a.op = "closed"
                  /\ a.op \in {"created", "failed"} => a.version # 0}

NativeTyped ==
  /\ registered \subseteq 1 .. created
  /\ owner \in 0 .. created
  /\ status \in [Sessions -> {"running", "exited"}]
  /\ holding \subseteq 1 .. created
  /\ \A s \in Sessions : s > created => events[s] = << >> /\ pending[s] = << >>

MessagesTyped ==
  /\ requests \in Seq(GoodRequests(created))
  /\ answers \in Seq(GoodAnswers(created))

StoreTyped ==
  /\ runtime \in [session : 0 .. created, busy : BOOLEAN, status : Statuses \cup {"none"}]
  /\ nextVersion \in Nat \ {0} /\ version \in 0 .. nextVersion - 1
  /\ retired \subseteq 1 .. created /\ ended \subseteq 1 .. created
  /\ unclaimed \in [Sessions -> Seq(Chunks)]
  /\ shown \in Seq([session : Sessions, chunk : Chunks])

SurfaceTyped ==
  /\ visible \in BOOLEAN /\ reloads \in 0 .. MaxReloads /\ steps \in 0 .. MaxActivity

HistoryTyped ==
  /\ lost \in [Sessions -> SUBSET Chunks]
  /\ heard \subseteq 1 .. created /\ early \subseteq 0 .. created

Typed == /\ ExitInv /\ NativeTyped /\ MessagesTyped /\ StoreTyped /\ SurfaceTyped
         /\ HistoryTyped

LEMMA CreatedSessions ==
  ASSUME created \in 0 .. MaxSessions
  PROVE  1 .. created \subseteq Sessions /\ 0 .. created \subseteq Sessions \cup {NoSession}
BY TerminalBounds DEF Sessions, NoSession

LEMMA TypedIsTypeOK == Typed => TypeOK
<1> SUFFICES ASSUME Typed PROVE TypeOK
  OBVIOUS
<1>1. created \in 0 .. MaxSessions
  BY DEF Typed, ExitInv, FreshIsUnwatched
<1>2. GoodRequests(created) \subseteq Request /\ GoodAnswers(created) \subseteq Answer
  BY DEF GoodRequests, GoodAnswers
<1>3. requests \in Seq(Request) /\ answers \in Seq(Answer)
  BY <1>2 DEF Typed, MessagesTyped
<1>4. runtime \in [session : Sessions \cup {NoSession}, busy : BOOLEAN,
                   status : Statuses \cup {"none"}]
  BY <1>1, CreatedSessions DEF Typed, StoreTyped
<1>5. \A s \in Sessions : /\ pending[s] \in Seq(Chunks)
                          /\ events[s] \in Seq(Chunks \cup {Exit})
                          /\ unclaimed[s] \in Seq(Chunks)
                          /\ lost[s] \subseteq Chunks
  BY DEF Typed, ExitInv, OutputTyped, StoreTyped, HistoryTyped
<1> QED BY <1>1, <1>3, <1>4, <1>5
        DEF Typed, TypeOK, ExitInv, OutputTyped, NativeTyped, StoreTyped, SurfaceTyped,
            HistoryTyped

(* What appending to a sequence, and taking its first element, make of it. *)
LEMMA AppendAt ==
  ASSUME NEW S, NEW q \in Seq(S), NEW e \in S
  PROVE  /\ Len(q) \in Nat /\ DOMAIN q = 1 .. Len(q)
         /\ Append(q, e) \in Seq(S)
         /\ Len(Append(q, e)) = Len(q) + 1
         /\ DOMAIN Append(q, e) = 1 .. Len(q) + 1
         /\ \A i \in 1 .. Len(q) : Append(q, e)[i] = q[i]
         /\ Append(q, e)[Len(q) + 1] = e
OBVIOUS

LEMMA TailAt ==
  ASSUME NEW S, NEW q \in Seq(S), q # << >>
  PROVE  /\ Len(q) \in Nat \ {0} /\ DOMAIN q = 1 .. Len(q)
         /\ Head(q) = q[1] /\ Head(q) \in S
         /\ Tail(q) \in Seq(S)
         /\ Len(Tail(q)) = Len(q) - 1
         /\ DOMAIN Tail(q) = 1 .. Len(q) - 1
         /\ \A i \in 1 .. Len(q) - 1 : Tail(q)[i] = q[i + 1]
OBVIOUS

LEMMA ConcatAt ==
  ASSUME NEW S, NEW p \in Seq(S), NEW q \in Seq(S)
  PROVE  /\ Len(p) \in Nat /\ Len(q) \in Nat
         /\ DOMAIN p = 1 .. Len(p) /\ DOMAIN q = 1 .. Len(q)
         /\ p \o q \in Seq(S)
         /\ Len(p \o q) = Len(p) + Len(q)
         /\ DOMAIN (p \o q) = 1 .. Len(p) + Len(q)
         /\ \A i \in 1 .. Len(p) : (p \o q)[i] = p[i]
         /\ \A i \in 1 .. Len(q) : (p \o q)[Len(p) + i] = q[i]
OBVIOUS

LEMMA SeqOfMore ==
  ASSUME NEW S, NEW T, S \subseteq T, NEW q \in Seq(S)
  PROVE  q \in Seq(T)
OBVIOUS

LEMMA GoodOfMore ==
  ASSUME NEW m \in Nat, NEW n \in Nat, m <= n
  PROVE  GoodRequests(m) \subseteq GoodRequests(n) /\ GoodAnswers(m) \subseteq GoodAnswers(n)
<1>1. \A r \in Request : r.session \in Nat
  BY TerminalBounds DEF Request, Sessions, NoSession
<1>2. \A a \in Answer : a.session \in Nat
  BY TerminalBounds DEF Answer, Sessions, NoSession
<1> QED BY <1>1, <1>2 DEF GoodRequests, GoodAnswers

(* What the store writes is a sequence of chunks of one session.           *)
LEMMA WrittenAt ==
  ASSUME NEW s \in Sessions, NEW chunks \in Seq(Chunks)
  PROVE  LET w == [i \in DOMAIN chunks |-> [session |-> s, chunk |-> chunks[i]]]
         IN /\ w \in Seq([session : Sessions, chunk : Chunks])
            /\ Len(w) = Len(chunks) /\ DOMAIN w = 1 .. Len(chunks)
            /\ \A i \in 1 .. Len(chunks) : w[i] = [session |-> s, chunk |-> chunks[i]]
<1> DEFINE w == [i \in DOMAIN chunks |-> [session |-> s, chunk |-> chunks[i]]]
<1>1. DOMAIN chunks = 1 .. Len(chunks) /\ Len(chunks) \in Nat
      /\ \A i \in 1 .. Len(chunks) : chunks[i] \in Chunks
  OBVIOUS
<1>2. w \in [1 .. Len(chunks) -> [session : Sessions, chunk : Chunks]]
  BY <1>1
<1>3. \A i \in 1 .. Len(chunks) : w[i] = [session |-> s, chunk |-> chunks[i]]
  BY <1>1
<1> HIDE DEF w
<1>4. w \in Seq([session : Sessions, chunk : Chunks])
  <2> DEFINE S == [session : Sessions, chunk : Chunks]
             n == Len(chunks)
  <2>1. n \in Nat /\ w \in [1 .. n -> S]
    BY <1>1, <1>2
  <2>2. \A T : Seq(T) = UNION {[1 .. m -> T] : m \in Nat}
    BY SeqDef
  <2> HIDE DEF S, n
  <2>3. w \in UNION {[1 .. m -> S] : m \in Nat}
    BY <2>1
  <2>4. w \in Seq(S)
    BY <2>2, <2>3
  <2> QED BY <2>4 DEF S
<1>5. DOMAIN w = 1 .. Len(chunks)
  BY <1>2
<1>6. Len(w) = Len(chunks)
  BY <1>1, <1>4, <1>5, LenProperties
<1> QED BY <1>3, <1>4, <1>5, <1>6 DEF w

LEMMA CallGood ==
  ASSUME Typed, NEW op \in {"create", "close", "list"}, NEW s \in 0 .. created, NEW v \in Nat,
         NEW again \in BOOLEAN, op = "close" => s # NoSession, again => op = "close",
         op = "create" => v # 0
  PROVE  Call(op, s, v, again) \in GoodRequests(created)
<1>1. s \in Sessions \cup {NoSession} /\ s <= created /\ reloads \in 0 .. MaxReloads
  BY CreatedSessions DEF Typed, ExitInv, FreshIsUnwatched, SurfaceTyped
<1>2. Call(op, s, v, again) \in Request
  BY <1>1 DEF Call, Request, Versions
<1> QED BY <1>1, <1>2 DEF Call, GoodRequests

LEMMA AskGood ==
  ASSUME Typed, AskForSession
  PROVE  /\ requests' \in Seq(GoodRequests(created))
         /\ nextVersion' \in Nat \ {0} /\ version' \in 0 .. nextVersion' - 1
<1>1. nextVersion \in Nat \ {0} /\ requests \in Seq(GoodRequests(created))
      /\ NoSession \in 0 .. created
  BY DEF Typed, StoreTyped, MessagesTyped, ExitInv, FreshIsUnwatched, NoSession
<1>2. Call("create", NoSession, nextVersion, FALSE) \in GoodRequests(created)
  BY <1>1, CallGood
<1>3. Append(requests, Call("create", NoSession, nextVersion, FALSE))
        \in Seq(GoodRequests(created))
  BY <1>1, <1>2, AppendAt
<1>4. requests' \in Seq(GoodRequests(created))
  BY <1>3 DEF AskForSession
<1>5. nextVersion' = nextVersion + 1 /\ version' = nextVersion
  BY DEF AskForSession
<1>6. nextVersion' \in Nat \ {0} /\ version' \in 0 .. nextVersion' - 1
  <2>1. nextVersion \in Nat \ {0}
    BY <1>1
  <2> QED BY <1>5, <2>1
<1> QED BY <1>4, <1>6

LEMMA GiveUpGood ==
  ASSUME Typed, NEW s \in 1 .. created, NEW again \in BOOLEAN, GiveUp(s, again)
  PROVE  /\ requests' \in Seq(GoodRequests(created))
         /\ retired' \subseteq 1 .. created /\ ended' \subseteq 1 .. created
         /\ unclaimed' \in [Sessions -> Seq(Chunks)]
<1>1. requests \in Seq(GoodRequests(created)) /\ s \in 0 .. created /\ s # NoSession
      /\ created \in 0 .. MaxSessions
  BY DEF Typed, MessagesTyped, ExitInv, FreshIsUnwatched, NoSession
<1>2. Call("close", s, 0, again) \in GoodRequests(created)
  BY <1>1, CallGood
<1>3. << >> \in Seq(Chunks)
  OBVIOUS
<1>4. Append(requests, Call("close", s, 0, again)) \in Seq(GoodRequests(created))
  BY <1>1, <1>2, AppendAt
<1>5. unclaimed' \in [Sessions -> Seq(Chunks)]
  BY <1>3 DEF GiveUp, Typed, StoreTyped
<1> QED BY <1>4, <1>5 DEF GiveUp, Typed, StoreTyped

(* What the viewport shows is made of chunks.                              *)
LEMMA ShownChunks ==
  ASSUME StoreTyped
  PROVE  /\ \A s \in Sessions : ShownOf(s) \subseteq Chunks
         /\ ShownOf(NoSession) = {}
<1> DEFINE R == [session : Sessions, chunk : Chunks]
<1>1. \A i \in DOMAIN shown : shown[i] \in R
  <2>1. shown \in Seq(R)
    BY DEF StoreTyped
  <2> HIDE DEF R
  <2> QED BY <2>1
<1>2. \A i \in DOMAIN shown : shown[i].chunk \in Chunks /\ shown[i].session # NoSession
  BY <1>1 DEF Sessions, NoSession
<1> QED BY <1>2 DEF ShownOf

LEMMA ClearGood ==
  ASSUME Typed, ClearViewport
  PROVE  /\ shown' \in Seq([session : Sessions, chunk : Chunks])
         /\ lost' \in [Sessions -> SUBSET Chunks]
BY ShownChunks DEF ClearViewport, Typed, StoreTyped, HistoryTyped

LEMMA WriteGood ==
  ASSUME Typed, NEW s \in Sessions, NEW chunks \in Seq(Chunks), Write(s, chunks)
  PROVE  shown' \in Seq([session : Sessions, chunk : Chunks])
<1> DEFINE w == [i \in DOMAIN chunks |-> [session |-> s, chunk |-> chunks[i]]]
<1>1. w \in Seq([session : Sessions, chunk : Chunks])
  BY WrittenAt
<1>2. shown \in Seq([session : Sessions, chunk : Chunks])
  BY DEF Typed, StoreTyped
<1> HIDE DEF w
<1>3. shown \o w \in Seq([session : Sessions, chunk : Chunks])
  BY <1>1, <1>2
<1> QED BY <1>3 DEF Write, w

(* A step of the store or the surface, which leaves the service alone.     *)
LEMMA StoreStepTyped ==
  ASSUME Typed, UNCHANGED <<native, events>>,
         requests' \in Seq(GoodRequests(created)), answers' \in Seq(GoodAnswers(created)),
         StoreTyped', SurfaceTyped', HistoryTyped'
  PROVE  Typed'
<1>1. ExitInv'
  BY ExitStutter DEF Typed, native, output
<1>2. NativeTyped' /\ MessagesTyped'
  BY DEF Typed, NativeTyped, MessagesTyped, native
<1> QED BY <1>1, <1>2 DEF Typed

LEMMA SurfaceActTyped ==
  ASSUME Typed, EnsureTerminal \/ Restart \/ CloseTerminal \/ Hide \/ Show \/ Reload
  PROVE  Typed'
<1> USE TerminalBounds
<1>0. /\ created \in 0 .. MaxSessions /\ StoreTyped /\ SurfaceTyped /\ HistoryTyped
      /\ requests \in Seq(GoodRequests(created)) /\ answers \in Seq(GoodAnswers(created))
  BY DEF Typed, ExitInv, FreshIsUnwatched, MessagesTyped
<1>1. Starting \in [session : 0 .. created, busy : BOOLEAN, status : Statuses \cup {"none"}]
      /\ NoRuntime \in [session : 0 .. created, busy : BOOLEAN, status : Statuses \cup {"none"}]
  BY <1>0 DEF Starting, NoRuntime, NoSession, Statuses
<1>2. ASSUME Act
      PROVE  /\ UNCHANGED <<native, events, created>> /\ heard' = heard
             /\ steps' \in 0 .. MaxActivity
  BY <1>0, <1>2 DEF Act, SurfaceTyped, native
<1>3. CASE EnsureTerminal
  <2>1. AskForSession /\ Act
    BY <1>3 DEF EnsureTerminal
  <2>2. StoreTyped'
    BY <1>0, <1>1, <1>2, <1>3, <2>1, AskGood DEF EnsureTerminal, StoreTyped
  <2>3. SurfaceTyped' /\ HistoryTyped'
    BY <1>0, <1>2, <1>3, <2>1 DEF EnsureTerminal, SurfaceTyped, HistoryTyped
  <2> QED BY <1>0, <1>2, <1>3, <2>1, <2>2, <2>3, AskGood, StoreStepTyped DEF EnsureTerminal
<1>4. ASSUME Act, ClearViewport, UNCHANGED <<answers, visible, reloads, early>>,
             runtime' \in {Starting, NoRuntime},
             NEW again \in BOOLEAN,
             \/ /\ runtime.session \in (1 .. created) /\ GiveUp(runtime.session, again)
             \/ /\ UNCHANGED <<retired, unclaimed, ended>>
                /\ requests' \in Seq(GoodRequests(created)),
             nextVersion' \in Nat \ {0} /\ version' \in 0 .. nextVersion' - 1
      PROVE  Typed'
  <2>1. /\ requests' \in Seq(GoodRequests(created))
        /\ retired' \subseteq 1 .. created /\ ended' \subseteq 1 .. created
        /\ unclaimed' \in [Sessions -> Seq(Chunks)]
    BY <1>0, <1>4, GiveUpGood DEF StoreTyped
  <2>2. created' = created
    BY <1>2, <1>4
  <2>3. StoreTyped'
    BY <1>1, <1>4, <2>1, <2>2, ClearGood DEF StoreTyped
  <2>4. SurfaceTyped' /\ HistoryTyped'
    BY <1>0, <1>2, <1>4, <2>2, ClearGood DEF SurfaceTyped, HistoryTyped
  <2> QED BY <1>0, <1>2, <1>4, <2>1, <2>3, <2>4, StoreStepTyped
<1>5. runtime.session \notin retired \cup {NoSession} => runtime.session \in 1 .. created
  BY <1>0 DEF StoreTyped, NoSession
<1>6. CASE Restart
  <2>1. /\ Act /\ ClearViewport /\ UNCHANGED <<answers, visible, reloads, early>>
        /\ runtime' = Starting
        /\ \/ /\ runtime.session \in 1 .. created /\ GiveUp(runtime.session, TRUE)
              /\ UNCHANGED <<version, nextVersion>>
           \/ AskForSession /\ UNCHANGED <<retired, unclaimed, ended>>
    BY <1>5, <1>6 DEF Restart
  <2>2. nextVersion' \in Nat \ {0} /\ version' \in 0 .. nextVersion' - 1
    BY <1>0, <2>1, AskGood DEF StoreTyped
  <2> QED BY <1>4, <2>1, <2>2, AskGood
<1>7. CASE CloseTerminal
  <2>1. /\ Act /\ ClearViewport /\ UNCHANGED <<answers, visible, reloads, early>>
        /\ runtime' = NoRuntime /\ version' = 0 /\ nextVersion' = nextVersion + 1
        /\ \/ runtime.session \in 1 .. created /\ GiveUp(runtime.session, FALSE)
           \/ UNCHANGED <<retired, unclaimed, ended, requests>>
    BY <1>5, <1>7 DEF CloseTerminal
  <2>2. nextVersion' \in Nat \ {0} /\ version' \in 0 .. nextVersion' - 1
    BY <1>0, <2>1 DEF StoreTyped
  <2> QED BY <1>0, <1>4, <2>1, <2>2
<1>8. CASE Hide
  <2>1. SurfaceTyped' /\ HistoryTyped' /\ StoreTyped'
    BY <1>0, <1>2, <1>8 DEF Hide, SurfaceTyped, HistoryTyped, StoreTyped, store
  <2> QED BY <1>0, <1>2, <1>8, <2>1, StoreStepTyped DEF Hide
<1>9. CASE Show
  <2>1. /\ UNCHANGED <<native, events, answers, store, reloads, steps, lost, heard, early>>
        /\ visible' = TRUE
        /\ requests' = Append(requests, Call("list", NoSession, 0, FALSE))
    BY <1>9 DEF Show
  <2>2. SurfaceTyped' /\ HistoryTyped' /\ StoreTyped'
    BY <1>0, <2>1 DEF SurfaceTyped, HistoryTyped, StoreTyped, store, native
  <2>3. Call("list", NoSession, 0, FALSE) \in GoodRequests(created)
    <3>1. NoSession \in 0 .. created
      BY <1>0 DEF NoSession
    <3> QED BY <3>1, CallGood
  <2>4. requests' \in Seq(GoodRequests(created))
    BY <1>0, <2>1, <2>3, AppendAt
  <2> QED BY <1>0, <2>1, <2>2, <2>4, StoreStepTyped
<1>10. CASE Reload
  <2>1. Act /\ reloads < MaxReloads
    BY <1>10 DEF Reload
  <2>2. StoreTyped'
    <3>1. << >> \in Seq([session : Sessions, chunk : Chunks]) /\ << >> \in Seq(Chunks)
      OBVIOUS
    <3> QED BY <1>0, <1>1, <1>2, <1>10, <2>1, <3>1 DEF Reload, StoreTyped
  <2>3. SurfaceTyped'
    BY <1>0, <1>2, <1>10, <2>1 DEF Reload, SurfaceTyped
  <2>4. lost' \in [Sessions -> SUBSET Chunks]
    <3>1. \A s \in Sessions : ToSet(unclaimed[s]) \subseteq Chunks
      <4> SUFFICES ASSUME NEW s \in Sessions PROVE ToSet(unclaimed[s]) \subseteq Chunks
        OBVIOUS
      <4>1. unclaimed[s] \in Seq(Chunks)
        BY <1>0 DEF StoreTyped
      <4>2. \A i \in DOMAIN unclaimed[s] : unclaimed[s][i] \in Chunks
        BY <4>1
      <4> QED BY <4>2 DEF ToSet
    <3> QED BY <1>0, <1>10, <3>1, ShownChunks DEF Reload, HistoryTyped
  <2>5. HistoryTyped'
    BY <1>0, <1>2, <1>10, <2>1, <2>4 DEF Reload, HistoryTyped
  <2>6. answers' \in Seq(GoodAnswers(created))
    BY <1>10 DEF Reload
  <2> QED BY <1>0, <1>2, <1>10, <2>1, <2>2, <2>3, <2>5, <2>6, StoreStepTyped DEF Reload
<1> QED BY <1>3, <1>6, <1>7, <1>8, <1>9, <1>10


(* An answer names a session that was created by then.                     *)
LEMMA ReplyGood ==
  ASSUME Typed, NEW n \in 0 .. MaxSessions, created <= n, NEW req \in GoodRequests(n),
         NEW op \in {"created", "failed", "closed", "listed"}, NEW s \in 0 .. n,
         NEW st \in Statuses, op = "created" => s # NoSession, op = "failed" => s = NoSession,
         req.recreate => op = "closed", op \in {"created", "failed"} => req.version # 0,
         Reply(op, s, req, st)
  PROVE  answers' \in Seq(GoodAnswers(n))
<1> DEFINE a == [op |-> op, session |-> s, version |-> req.version,
                 recreate |-> req.recreate, status |-> st]
<1>1. created \in 0 .. MaxSessions /\ n \in Nat
  BY DEF Typed, ExitInv, FreshIsUnwatched
<1>2. answers \in Seq(GoodAnswers(n))
  BY <1>1, GoodOfMore, SeqOfMore DEF Typed, MessagesTyped
<1>3. a \in GoodAnswers(n)
  <2>1. s \in Sessions \cup {NoSession} /\ s <= n
    BY <1>1, TerminalBounds DEF Sessions, NoSession
  <2>2. req.version \in Versions /\ req.recreate \in BOOLEAN
    BY DEF GoodRequests, Request
  <2>3. a \in Answer
    BY <2>1, <2>2 DEF Answer
  <2> QED BY <2>1, <2>3 DEF GoodAnswers
<1> HIDE DEF a
<1>4. Append(answers, a) \in Seq(GoodAnswers(n))
  BY <1>2, <1>3, AppendAt
<1> QED BY <1>2, <1>4 DEF Reply, a

LEMMA StoreGrows ==
  ASSUME StoreTyped, HistoryTyped, SurfaceTyped, created \in Nat, created' \in Nat,
         created <= created', UNCHANGED <<store, visible, reloads, steps, lost, heard, early>>
  PROVE  StoreTyped' /\ HistoryTyped' /\ SurfaceTyped'
<1>1. 0 .. created \subseteq 0 .. created' /\ 1 .. created \subseteq 1 .. created'
  OBVIOUS
<1>2. StoreTyped'
  BY <1>1 DEF StoreTyped, store
<1> QED BY <1>1, <1>2 DEF HistoryTyped, SurfaceTyped

LEMMA ServeTyped ==
  ASSUME Typed, Serve
  PROVE  Typed'
<1> USE TerminalBounds
<1> DEFINE req == Head(requests)
<1>0. /\ created \in 0 .. MaxSessions /\ StoreTyped /\ SurfaceTyped /\ HistoryTyped
      /\ requests \in Seq(GoodRequests(created)) /\ requests # << >>
      /\ UNCHANGED <<events, store, visible, reloads, steps, lost, heard, early>>
      /\ requests' = Tail(requests) /\ NativeTyped
  BY DEF Typed, ExitInv, FreshIsUnwatched, MessagesTyped, Serve
<1>1. req \in GoodRequests(created) /\ requests' \in Seq(GoodRequests(created))
  BY <1>0, TailAt
<1>2. ExitInv'
  BY ExitServe DEF Typed
<1>3. ASSUME created' = created, NativeTyped', answers' \in Seq(GoodAnswers(created))
      PROVE  Typed'
  <2>1. StoreTyped' /\ SurfaceTyped' /\ HistoryTyped'
    BY <1>0, <1>3, StoreGrows
  <2>2. MessagesTyped'
    BY <1>1, <1>3 DEF MessagesTyped
  <2> QED BY <1>2, <1>3, <2>1, <2>2 DEF Typed
<1>4. /\ req.recreate => req.op = "close"
      /\ req.op = "create" => req.version # 0
      /\ req.op = "close" => req.session # NoSession
      /\ req.session \in 0 .. created
  <2> HIDE DEF req
  <2>1. req.session \in Nat
    BY <1>1 DEF GoodRequests, Request, Sessions, NoSession
  <2> QED BY <1>0, <1>1, <2>1 DEF GoodRequests
<1>5. \A s \in registered : s \in 1 .. created /\ s # NoSession /\ status[s] \in Statuses
  <2>1. \A s \in registered : s \in Sessions
    BY <1>0, CreatedSessions DEF NativeTyped
  <2> QED BY <1>0, <2>1 DEF NativeTyped, NoSession, Statuses
<1>6. created \in 0 .. MaxSessions /\ created <= created
      /\ "exited" \in Statuses /\ "running" \in Statuses /\ "error" \in Statuses
      /\ NoSession \in 0 .. created
  BY <1>0 DEF Statuses, NoSession
<1> HIDE DEF req
<1>7. CASE ServeReuse(req)
  <2>1. created' = created /\ NativeTyped'
    BY <1>0, <1>7 DEF ServeReuse, NativeTyped, native
  <2>2. owner \in 0 .. created /\ owner # NoSession /\ status[owner] \in Statuses
        /\ req.op = "create" /\ Reply("created", owner, req, status[owner])
    BY <1>5, <1>7 DEF ServeReuse
  <2>3. answers' \in Seq(GoodAnswers(created))
    BY <1>1, <1>4, <1>6, <2>2, ReplyGood
  <2> QED BY <1>3, <2>1, <2>3
<1>8. CASE ServeList(req)
  <2>1. created' = created /\ NativeTyped'
    BY <1>0, <1>8 DEF ServeList, NativeTyped, native
  <2>2. \/ Reply("listed", NoSession, req, "exited")
        \/ \E s \in registered : Reply("listed", s, req, status[s])
    BY <1>8 DEF ServeList
  <2>3. req.op = "list"
    BY <1>8 DEF ServeList
  <2>4. CASE Reply("listed", NoSession, req, "exited")
    <3>1. answers' \in Seq(GoodAnswers(created))
      BY <1>1, <1>4, <1>6, <2>3, <2>4, ReplyGood
    <3> QED BY <1>3, <2>1, <3>1
  <2>5. CASE \E s \in registered : Reply("listed", s, req, status[s])
    <3>1. PICK s \in registered : Reply("listed", s, req, status[s])
      BY <2>5
    <3>2. s \in 0 .. created /\ status[s] \in Statuses
      BY <1>5
    <3>3. answers' \in Seq(GoodAnswers(created))
      BY <1>1, <1>4, <1>6, <2>3, <3>1, <3>2, ReplyGood
    <3> QED BY <1>3, <2>1, <3>3
  <2> QED BY <2>2, <2>4, <2>5
<1>9. CASE ServeFailure(req)
  <2>1. created' = created /\ NativeTyped'
    BY <1>0, <1>6, <1>9 DEF ServeFailure, NativeTyped
  <2>2. answers' \in Seq(GoodAnswers(created))
    <3>1. Reply("failed", NoSession, req, "error") /\ req.op = "create"
      BY <1>9 DEF ServeFailure
    <3> QED BY <1>1, <1>4, <1>6, <3>1, ReplyGood
  <2> QED BY <1>3, <2>1, <2>2
<1>10. CASE ServeClose(req)
  <2>1. created' = created /\ NativeTyped'
    BY <1>0, <1>6, <1>10 DEF ServeClose, Unregister, NativeTyped
  <2>2. answers' \in Seq(GoodAnswers(created))
    <3>1. Reply("closed", req.session, req, "exited") /\ req.op = "close"
      BY <1>10 DEF ServeClose
    <3> QED BY <1>1, <1>4, <1>6, <3>1, ReplyGood
  <2> QED BY <1>3, <2>1, <2>2
<1>11. CASE ServeCreate(req)
  <2> DEFINE n == created + 1
  <2>1. /\ n \in 1 .. MaxSessions /\ created <= n /\ created' = n
        /\ registered' = registered \cup {n} /\ owner' = n
        /\ Reply("created", n, req, "running")
        /\ UNCHANGED <<status, holding, pending>> /\ req.op = "create"
    BY <1>0, <1>11 DEF ServeCreate
  <2>2. NativeTyped'
    BY <1>0, <2>1 DEF NativeTyped, Sessions
  <2>3. StoreTyped' /\ SurfaceTyped' /\ HistoryTyped'
    BY <1>0, <2>1, StoreGrows
  <2>4. GoodRequests(created) \subseteq GoodRequests(n)
    BY <1>0, <2>1, GoodOfMore
  <2> HIDE DEF n
  <2>5. answers' \in Seq(GoodAnswers(n))
    <3>1. n \in 0 .. MaxSessions /\ n # NoSession /\ n \in 0 .. n /\ req \in GoodRequests(n)
      BY <1>1, <2>1, <2>4 DEF NoSession
    <3> QED BY <1>4, <1>6, <2>1, <3>1, ReplyGood
  <2>6. MessagesTyped'
    BY <1>1, <2>1, <2>4, <2>5, SeqOfMore DEF MessagesTyped
  <2> QED BY <1>2, <2>2, <2>3, <2>6 DEF Typed
<1> QED BY <1>7, <1>8, <1>9, <1>10, <1>11 DEF Serve, req

LEMMA ThreadsTyped ==
  ASSUME Typed, NEW s \in Sessions, Threads(s)
  PROVE  Typed'
<1> USE TerminalBounds
<1>0. /\ created \in 0 .. MaxSessions /\ NativeTyped /\ StoreTyped /\ SurfaceTyped
      /\ HistoryTyped /\ \A t \in Sessions : t > created => monitor[t] = "none"
      /\ holding \subseteq 1 .. created
  BY DEF Typed, ExitInv, FreshIsUnwatched, NativeTyped
<1>1. ExitInv'
  BY ExitReader, ExitMonitor, ExitSwept DEF Typed, Threads
<1>2. /\ UNCHANGED <<created, requests, answers, store, visible, reloads, lost, heard, early>>
      /\ steps' \in 0 .. MaxActivity
  <2>1. CASE ReaderReads(s)
    <3>1. steps' = steps + 1 /\ steps < MaxActivity
      BY <2>1 DEF ReaderReads
    <3>2. steps' \in 0 .. MaxActivity
      BY <1>0, <3>1 DEF SurfaceTyped
    <3> QED BY <2>1, <3>2 DEF ReaderReads
  <2>2. CASE ReaderSends(s) \/ MonitorPolls(s) \/ MonitorRemoves(s)
    BY <1>0, <2>2 DEF ReaderSends, MonitorPolls, MonitorRemoves, elsewhere, SurfaceTyped
  <2>3. CASE MonitorReports(s) \/ Flush(s)
    BY <1>0, <2>3 DEF MonitorReports, Flush, elsewhere, SurfaceTyped
  <2> QED BY <2>1, <2>2, <2>3 DEF Threads
<1>3. MessagesTyped' /\ StoreTyped' /\ SurfaceTyped' /\ HistoryTyped'
  <2>1. MessagesTyped'
    BY <1>2 DEF Typed, MessagesTyped
  <2>2. StoreTyped'
    BY <1>0, <1>2 DEF StoreTyped, store
  <2> QED BY <1>0, <1>2, <2>1, <2>2 DEF SurfaceTyped, HistoryTyped
<1>4. s <= created
  <2>1. CASE s \in holding
    BY <1>0, <2>1
  <2>2. CASE monitor[s] # "none"
    BY <1>0, <2>2 DEF Sessions
  <2>3. CASE pending[s] # << >>
    BY <1>0, <2>3 DEF Sessions, NativeTyped
  <2> QED BY <2>1, <2>2, <2>3 DEF Threads, ReaderReads, ReaderSends, MonitorPolls,
             MonitorRemoves, MonitorReports, Flush
<1>5. NativeTyped'
  <2>1. ASSUME NEW t \in Sessions, t # s
        PROVE  events'[t] = events[t] /\ pending'[t] = pending[t]
    BY <2>1 DEF Threads, ReaderReads, ReaderSends, MonitorPolls, MonitorRemoves,
                MonitorReports, Flush, elsewhere, Typed, ExitInv, OutputTyped
  <2>2. \A t \in Sessions : t > created' => events'[t] = << >> /\ pending'[t] = << >>
    BY <1>0, <1>2, <1>4, <2>1 DEF NativeTyped, Sessions
  <2>3. registered' \subseteq registered /\ owner' \in {owner, NoSession}
    BY DEF Threads, ReaderReads, ReaderSends, MonitorPolls, MonitorRemoves,
           MonitorReports, Flush, elsewhere, Unregister
  <2>4. holding' \subseteq holding \cup {s}
    BY DEF Threads, ReaderReads, ReaderSends, MonitorPolls, MonitorRemoves,
           MonitorReports, Flush
  <2>5. status' \in [Sessions -> {"running", "exited"}]
    BY <1>0 DEF NativeTyped, Threads, ReaderReads, ReaderSends, MonitorPolls, MonitorRemoves,
           MonitorReports, Flush, elsewhere
  <2>6. registered' \subseteq 1 .. created' /\ owner' \in 0 .. created'
    BY <1>0, <1>2, <2>3 DEF NativeTyped, NoSession
  <2>7. holding' \subseteq 1 .. created'
    BY <1>0, <1>2, <1>4, <2>4 DEF Sessions
  <2> QED BY <2>2, <2>5, <2>6, <2>7 DEF NativeTyped
<1> QED BY <1>1, <1>3, <1>5 DEF Typed

LEMMA ReceiveTyped ==
  ASSUME Typed, NEW s \in Sessions, Receive(s)
  PROVE  Typed'
<1> USE TerminalBounds
<1>0. /\ created \in 0 .. MaxSessions /\ NativeTyped /\ StoreTyped /\ SurfaceTyped
      /\ HistoryTyped /\ events[s] \in Seq(Chunks \cup {Exit})
      /\ events \in [Sessions -> Seq(Chunks \cup {Exit})]
  BY DEF Typed, ExitInv, FreshIsUnwatched, OutputTyped
<1>1. ExitInv'
  BY ExitReceive DEF Typed
<1>2. /\ events[s] # << >> /\ events' = [events EXCEPT ![s] = Tail(@)]
      /\ Receives
  BY DEF Receive, ReceiveOutput, ReceiveExit
<1>3. s \in 1 .. created
  BY <1>0, <1>2 DEF NativeTyped, Sessions
<1>4. NativeTyped'
  BY <1>0, <1>2, <1>3 DEF NativeTyped, Receives, native
<1>5. MessagesTyped' /\ SurfaceTyped'
  BY <1>0, <1>2 DEF Typed, MessagesTyped, SurfaceTyped, Receives, native
<1>6. UNCHANGED <<created, version, nextVersion, retired, early>>
  BY <1>2 DEF Receives, native
<1>7. CASE ReceiveOutput(s)
  <2> DEFINE chunk == Head(events[s])
  <2>1. chunk \in Chunks
    BY <1>0, <1>2, <1>7, TailAt DEF ReceiveOutput
  <2>2. <<chunk>> \in Seq(Chunks) /\ Append(unclaimed[s], chunk) \in Seq(Chunks)
    <3>1. unclaimed[s] \in Seq(Chunks)
      BY <1>0 DEF StoreTyped
    <3> HIDE DEF chunk
    <3>2. <<chunk>> \in Seq(Chunks)
      BY <2>1
    <3> QED BY <2>1, <3>1, <3>2, AppendAt
  <2>3. /\ lost' = lost \/ lost' = [lost EXCEPT ![s] = @ \cup {chunk}]
        /\ unclaimed' = unclaimed \/ unclaimed' = [unclaimed EXCEPT ![s] = Append(@, chunk)]
        /\ shown' = shown \/ Write(s, <<chunk>>)
        /\ UNCHANGED <<runtime, ended, heard>>
    BY <1>7 DEF ReceiveOutput
  <2> HIDE DEF chunk
  <2>4. shown' \in Seq([session : Sessions, chunk : Chunks])
    <3>1. CASE shown' = shown
      BY <1>0, <3>1 DEF StoreTyped
    <3>2. CASE Write(s, <<chunk>>)
      BY <2>2, <3>2, WriteGood
    <3> QED BY <2>3, <3>1, <3>2
  <2>5. unclaimed' \in [Sessions -> Seq(Chunks)]
    BY <1>0, <2>2, <2>3 DEF StoreTyped
  <2>6. lost' \in [Sessions -> SUBSET Chunks]
    BY <1>0, <2>1, <2>3 DEF HistoryTyped
  <2>7. StoreTyped' /\ HistoryTyped'
    BY <1>0, <1>6, <2>3, <2>4, <2>5, <2>6 DEF StoreTyped, HistoryTyped
  <2> QED BY <1>1, <1>4, <1>5, <2>7 DEF Typed
<1>8. CASE ReceiveExit(s)
  <2>1. /\ \/ runtime' = runtime
           \/ runtime' = [runtime EXCEPT !.busy = FALSE, !.status = "exited"]
        /\ ended' = ended \/ ended' = ended \cup {s}
        /\ heard' = heard \/ heard' = heard \cup {s}
        /\ UNCHANGED <<unclaimed, shown, lost>>
    BY <1>8 DEF ReceiveExit
  <2>2. runtime' \in [session : 0 .. created, busy : BOOLEAN, status : Statuses \cup {"none"}]
    BY <1>0, <2>1 DEF StoreTyped, Statuses
  <2>3. StoreTyped' /\ HistoryTyped'
    BY <1>0, <1>3, <1>6, <2>1, <2>2 DEF StoreTyped, HistoryTyped
  <2> QED BY <1>1, <1>4, <1>5, <2>3 DEF Typed
<1> QED BY <1>7, <1>8 DEF Receive

LEMMA ReceiveAnswerTyped ==
  ASSUME Typed, ReceiveAnswer
  PROVE  Typed'
<1> USE TerminalBounds
<1> DEFINE a == Head(answers)
           Runtimes == [session : 0 .. created, busy : BOOLEAN, status : Statuses \cup {"none"}]
           StoreNext == /\ runtime' \in Runtimes
                        /\ nextVersion' \in Nat \ {0} /\ version' \in 0 .. nextVersion' - 1
                        /\ retired' \subseteq 1 .. created /\ ended' \subseteq 1 .. created
                        /\ unclaimed' \in [Sessions -> Seq(Chunks)]
                        /\ shown' \in Seq([session : Sessions, chunk : Chunks])
                        /\ requests' \in Seq(GoodRequests(created))
<1>0. /\ created \in 0 .. MaxSessions /\ StoreTyped /\ SurfaceTyped /\ HistoryTyped
      /\ requests \in Seq(GoodRequests(created)) /\ answers \in Seq(GoodAnswers(created))
      /\ answers # << >> /\ answers' = Tail(answers)
      /\ UNCHANGED <<native, events, visible, reloads, steps, lost>>
  BY DEF Typed, ExitInv, FreshIsUnwatched, MessagesTyped, ReceiveAnswer
<1>1. a \in GoodAnswers(created) /\ answers' \in Seq(GoodAnswers(created))
  BY <1>0, TailAt
<1>2. created' = created
  BY <1>0 DEF native
<1>3. /\ ReceiveStale(a) \/ ReceiveCreated(a) \/ ReceiveFailure(a) \/ ReceiveClosed(a)
           \/ ReceiveList(a)
      /\ heard' = heard \/ heard' = heard \ {a.session}
      /\ early' = early \/ early' = early \cup {a.session}
  BY DEF ReceiveAnswer
<1> HIDE DEF a
<1>4. /\ a.session \in 0 .. created /\ a.status \in Statuses
      /\ a.op = "created" => a.session \in 1 .. created /\ a.session \in Sessions
  <2>1. a.session \in Nat
    BY <1>1 DEF GoodAnswers, Answer, Sessions, NoSession
  <2>2. a.session <= created /\ a.status \in Statuses /\ (a.op = "created" => a.session # NoSession)
    BY <1>1 DEF GoodAnswers, Answer
  <2> QED BY <1>0, <2>1, <2>2 DEF Sessions, NoSession
<1>5. ASSUME ReceiveStale(a) PROVE StoreNext
  <2>1. /\ UNCHANGED <<runtime, version, nextVersion, shown>> /\ a.op = "created"
        /\ GiveUp(a.session, FALSE) \/ UNCHANGED <<retired, unclaimed, ended, requests>>
    BY <1>5 DEF ReceiveStale
  <2>2. StoreNext
    BY <1>0, <1>4, <2>1, GiveUpGood DEF StoreTyped
  <2> QED BY <2>2
<1>6. ASSUME ReceiveCreated(a) PROVE StoreNext
  <2>1. /\ Write(a.session, unclaimed[a.session]) /\ a.session \in Sessions
        /\ a.session \in 1 .. created
        /\ unclaimed' = [unclaimed EXCEPT ![a.session] = << >>]
        /\ ended' = ended \ {a.session}
        /\ UNCHANGED <<retired, version, nextVersion, requests>>
    BY <1>4, <1>6 DEF ReceiveCreated
  <2>2. runtime' \in Runtimes
    BY <1>4, <1>6, <2>1 DEF ReceiveCreated, Statuses
  <2>3. unclaimed[a.session] \in Seq(Chunks) /\ << >> \in Seq(Chunks)
    BY <1>0, <2>1 DEF StoreTyped
  <2>4. shown' \in Seq([session : Sessions, chunk : Chunks])
    BY <2>1, <2>3, WriteGood
  <2>5. unclaimed' \in [Sessions -> Seq(Chunks)]
    BY <1>0, <2>1, <2>3 DEF StoreTyped
  <2> QED BY <1>0, <2>1, <2>2, <2>4, <2>5 DEF StoreTyped
<1>7. ASSUME ReceiveFailure(a) \/ ReceiveList(a) PROVE StoreNext
  <2>1. UNCHANGED <<retired, unclaimed, ended, shown, version, nextVersion, requests>>
    BY <1>7 DEF ReceiveFailure, ReceiveList
  <2>2. runtime' \in Runtimes
    <3>1. runtime \in Runtimes
      BY <1>0 DEF StoreTyped
    <3>2. \/ runtime' = runtime
          \/ runtime' = [runtime EXCEPT !.busy = FALSE, !.status = "error"]
          \/ runtime' = [session |-> a.session, busy |-> FALSE, status |-> a.status]
      BY <1>7 DEF ReceiveFailure, ReceiveList
    <3>3. [session |-> a.session, busy |-> FALSE, status |-> a.status] \in Runtimes
      BY <1>4
    <3> QED BY <3>1, <3>2, <3>3 DEF Statuses
  <2> QED BY <1>0, <2>1, <2>2 DEF StoreTyped
<1>8. ASSUME ReceiveClosed(a) PROVE StoreNext
  <2>1. /\ UNCHANGED <<runtime, retired, unclaimed, ended, shown>>
        /\ AskForSession \/ UNCHANGED <<version, nextVersion, requests>>
    BY <1>8 DEF ReceiveClosed
  <2> QED BY <1>0, <2>1, AskGood DEF StoreTyped
<1>9. StoreNext
  BY <1>3, <1>5, <1>6, <1>7, <1>8
<1>10. StoreTyped' /\ SurfaceTyped'
  BY <1>0, <1>2, <1>9 DEF StoreTyped, SurfaceTyped
<1>11. HistoryTyped'
  BY <1>0, <1>2, <1>3, <1>4 DEF HistoryTyped
<1> QED BY <1>0, <1>1, <1>9, <1>10, <1>11, StoreStepTyped

LEMMA InitTyped == Init => Typed
<1> SUFFICES ASSUME Init PROVE Typed
  OBVIOUS
<1>1. ExitInv
  BY TerminalBounds DEF Init, ExitInv, OutputTyped, FreshIsUnwatched, ReportedIsClosed,
     ExitAndAfter, InHand, Sessions
<1>2. NativeTyped
  BY DEF Init, NativeTyped, NoSession
<1>3. MessagesTyped
  BY DEF Init, MessagesTyped
<1>4. StoreTyped
  BY DEF Init, StoreTyped, NoRuntime, NoSession
<1>5. SurfaceTyped /\ HistoryTyped
  BY TerminalBounds DEF Init, SurfaceTyped, HistoryTyped
<1> QED BY <1>1, <1>2, <1>3, <1>4, <1>5 DEF Typed

LEMMA NextTyped == Typed /\ [Next]_vars => Typed'
<1> SUFFICES ASSUME Typed, [Next]_vars PROVE Typed'
  OBVIOUS
<1>1. CASE UNCHANGED vars
  BY <1>1, ExitStutter DEF Typed, NativeTyped, MessagesTyped, StoreTyped, SurfaceTyped,
     HistoryTyped, vars, native, store, output
<1> QED BY <1>1, SurfaceActTyped, ServeTyped, ReceiveAnswerTyped, ThreadsTyped, ReceiveTyped
        DEF Next

LEMMA TypedAlways == Spec => []Typed
BY InitTyped, NextTyped, PTL DEF Spec

(* Every variable has the values the code gives it; in particular the      *)
(* store never holds, gives up or is told of a session that was not        *)
(* created before (createSessionForTerminal, closeSessionIds, the          *)
(* handlers of the terminal events).                                       *)
THEOREM TypeCorrect == Spec => []TypeOK
BY TypedAlways, TypedIsTypeOK, PTL

-----------------------------------------------------------------------------
(* The end of a session.  What matters of the calls on their way is the    *)
(* creation the store still waits for (of the tab's version, asked for     *)
(* since the surface was built) and the closing that will ask for one.     *)

Places == Nat \ {0}

CreateReq(q, v, e, i) ==
  i \in DOMAIN q /\ q[i].op = "create" /\ q[i].version = v /\ q[i].epoch = e
AgainReq(q, e, i) == i \in DOMAIN q /\ q[i].recreate /\ q[i].epoch = e
CreateAns(q, v, i) ==
  i \in DOMAIN q /\ q[i].op \in {"created", "failed"} /\ q[i].version = v
AgainAns(q, i) == i \in DOMAIN q /\ q[i].recreate

BusyHasNone ==
  /\ runtime.busy => runtime = Starting
  /\ runtime.session = NoSession => \/ runtime \in {NoRuntime, Starting}
                                    \/ runtime.status = "error"

EpochsPast == \A i \in DOMAIN requests : requests[i].epoch <= reloads

VersionsUsed ==
  /\ \A i \in DOMAIN requests :
       requests[i].epoch = reloads => requests[i].version < nextVersion
  /\ \A i \in DOMAIN answers : answers[i].version < nextVersion

(* The creation the store waits for is asked for once, and answered once.  *)
OneCreation ==
  /\ \A i, k \in Places :
       CreateReq(requests, version, reloads, i) /\ CreateReq(requests, version, reloads, k)
         => i = k
  /\ \A i, k \in Places :
       CreateAns(answers, version, i) /\ CreateAns(answers, version, k) => i = k
  /\ \A i, k \in Places :
       ~(CreateReq(requests, version, reloads, i) /\ CreateAns(answers, version, k))

(* It was asked for after every closing that asks for another.             *)
AgainIsFirst ==
  early = {} =>
    /\ \A i, k \in Places :
         CreateReq(requests, version, reloads, i) /\ AgainReq(requests, reloads, k) => k < i
    /\ \A i, k \in Places :
         CreateAns(answers, version, i) /\ AgainAns(answers, k) => k < i
    /\ \A i, k \in Places :
         ~(CreateAns(answers, version, i) /\ AgainReq(requests, reloads, k))

(* A tab that is not busy waits for nothing.                               *)
Quiet ==
  \A i \in Places : /\ ~CreateReq(requests, version, reloads, i)
                    /\ ~AgainReq(requests, reloads, i)
                    /\ ~CreateAns(answers, version, i)
                    /\ ~AgainAns(answers, i)

IdleIsQuiet == early = {} /\ runtime # NoRuntime /\ ~runtime.busy => Quiet

EndedIsOver ==
  \A s \in Sessions :
    /\ monitor[s] \in {"reporting", "done"} => s \notin registered
    /\ s \in heard => monitor[s] = "done"

(* The session of the answer it waits for has not ended, or its end is kept. *)
HeardIsKept ==
  early = {} =>
    \A i \in Places :
      /\ CreateAns(answers, version, i)
      /\ answers[i].op = "created" /\ answers[i].session \in heard \ retired
      => answers[i].session \in ended

TalkInv == EpochsPast /\ VersionsUsed /\ OneCreation
EndInv == /\ Typed /\ BusyHasNone /\ TalkInv /\ AgainIsFirst /\ IdleIsQuiet
          /\ EndedIsOver /\ HeardIsKept /\ EndIsNotForgotten

(* One more request, one less; the same of answers.                        *)
LEMMA MoreRequests ==
  ASSUME NEW S, NEW q \in Seq(S), NEW r \in S
  PROVE  /\ \A v, e : \A i \in Places :
              CreateReq(Append(q, r), v, e, i) <=>
                \/ CreateReq(q, v, e, i)
                \/ i = Len(q) + 1 /\ r.op = "create" /\ r.version = v /\ r.epoch = e
         /\ \A e : \A i \in Places :
              AgainReq(Append(q, r), e, i) <=>
                AgainReq(q, e, i) \/ (i = Len(q) + 1 /\ r.recreate /\ r.epoch = e)
<1> DEFINE w == Append(q, r)
<1>1. /\ Len(q) \in Nat /\ DOMAIN q = 1 .. Len(q) /\ DOMAIN w = 1 .. Len(q) + 1
      /\ \A i \in 1 .. Len(q) : w[i] = q[i]
      /\ w[Len(q) + 1] = r
  BY AppendAt
<1> HIDE DEF w
<1>2. /\ \A v, e : \A i \in Places :
           CreateReq(w, v, e, i) <=>
             \/ CreateReq(q, v, e, i)
             \/ i = Len(q) + 1 /\ r.op = "create" /\ r.version = v /\ r.epoch = e
      /\ \A e : \A i \in Places :
           AgainReq(w, e, i) <=>
             AgainReq(q, e, i) \/ (i = Len(q) + 1 /\ r.recreate /\ r.epoch = e)
  <2> SUFFICES ASSUME NEW v, NEW e, NEW i \in Places
               PROVE /\ CreateReq(w, v, e, i) <=>
                          \/ CreateReq(q, v, e, i)
                          \/ /\ i = Len(q) + 1 /\ r.op = "create"
                             /\ r.version = v /\ r.epoch = e
                     /\ AgainReq(w, e, i) <=>
                          AgainReq(q, e, i) \/ (i = Len(q) + 1 /\ r.recreate /\ r.epoch = e)
    OBVIOUS
  <2>1. CASE i \in 1 .. Len(q)
    <3>1. i \in DOMAIN w /\ i \in DOMAIN q /\ w[i] = q[i] /\ i # Len(q) + 1
      BY <1>1, <2>1
    <3> QED BY <3>1 DEF CreateReq, AgainReq
  <2>2. CASE i = Len(q) + 1
    <3>1. i \in DOMAIN w /\ i \notin DOMAIN q /\ w[i] = r
      BY <1>1, <2>2
    <3>2. CreateReq(w, v, e, i) <=> r.op = "create" /\ r.version = v /\ r.epoch = e
      BY <3>1 DEF CreateReq
    <3>3. AgainReq(w, e, i) <=> r.recreate /\ r.epoch = e
      BY <3>1 DEF AgainReq
    <3>4. ~CreateReq(q, v, e, i) /\ ~AgainReq(q, e, i)
      BY <3>1 DEF CreateReq, AgainReq
    <3> QED BY <2>2, <3>2, <3>3, <3>4
  <2>3. CASE i \notin 1 .. Len(q) + 1
    <3>1. i \notin DOMAIN w /\ i \notin DOMAIN q /\ i # Len(q) + 1
      BY <1>1, <2>3
    <3> QED BY <3>1 DEF CreateReq, AgainReq
  <2>4. i \in 1 .. Len(q) \/ i = Len(q) + 1 \/ i \notin 1 .. Len(q) + 1
    BY <1>1 DEF Places
  <2> QED BY <2>1, <2>2, <2>3, <2>4
<1> QED BY <1>2 DEF w

LEMMA MoreAnswers ==
  ASSUME NEW S, NEW q \in Seq(S), NEW a \in S
  PROVE  /\ \A v : \A i \in Places :
              CreateAns(Append(q, a), v, i) <=>
                \/ CreateAns(q, v, i)
                \/ i = Len(q) + 1 /\ a.op \in {"created", "failed"} /\ a.version = v
         /\ \A i \in Places :
              AgainAns(Append(q, a), i) <=> AgainAns(q, i) \/ (i = Len(q) + 1 /\ a.recreate)
<1> DEFINE w == Append(q, a)
<1>1. /\ Len(q) \in Nat /\ DOMAIN q = 1 .. Len(q) /\ DOMAIN w = 1 .. Len(q) + 1
      /\ \A i \in 1 .. Len(q) : w[i] = q[i]
      /\ w[Len(q) + 1] = a
  BY AppendAt
<1> HIDE DEF w
<1>2. ASSUME NEW v, NEW i \in Places
      PROVE  /\ CreateAns(w, v, i) <=>
                  \/ CreateAns(q, v, i)
                  \/ i = Len(q) + 1 /\ a.op \in {"created", "failed"} /\ a.version = v
             /\ AgainAns(w, i) <=> AgainAns(q, i) \/ (i = Len(q) + 1 /\ a.recreate)
  <2>1. CASE i \in 1 .. Len(q)
    <3>1. i \in DOMAIN w /\ i \in DOMAIN q /\ w[i] = q[i] /\ i # Len(q) + 1
      BY <1>1, <2>1
    <3> QED BY <3>1 DEF CreateAns, AgainAns
  <2>2. CASE i = Len(q) + 1
    <3>1. i \in DOMAIN w /\ i \notin DOMAIN q /\ w[i] = a
      BY <1>1, <2>2
    <3>2. CreateAns(w, v, i) <=> a.op \in {"created", "failed"} /\ a.version = v
      BY <3>1 DEF CreateAns
    <3>3. AgainAns(w, i) <=> a.recreate
      BY <3>1 DEF AgainAns
    <3>4. ~CreateAns(q, v, i) /\ ~AgainAns(q, i)
      BY <3>1 DEF CreateAns, AgainAns
    <3> QED BY <2>2, <3>2, <3>3, <3>4
  <2>3. CASE i \notin 1 .. Len(q) + 1
    <3>1. i \notin DOMAIN w /\ i \notin DOMAIN q /\ i # Len(q) + 1
      BY <1>1, <2>3
    <3> QED BY <3>1 DEF CreateAns, AgainAns
  <2>4. i \in 1 .. Len(q) \/ i = Len(q) + 1 \/ i \notin 1 .. Len(q) + 1
    BY <1>1 DEF Places
  <2> QED BY <2>1, <2>2, <2>3, <2>4
<1> QED BY <1>2 DEF w

LEMMA FewerRequests ==
  ASSUME NEW S, NEW q \in Seq(S), q # << >>
  PROVE  /\ \A i \in Places : i + 1 \in Places
         /\ \A v, e : \A i \in Places : CreateReq(Tail(q), v, e, i) <=> CreateReq(q, v, e, i + 1)
         /\ \A e : \A i \in Places : AgainReq(Tail(q), e, i) <=> AgainReq(q, e, i + 1)
         /\ \A v, e : CreateReq(q, v, e, 1) <=>
              /\ Head(q).op = "create" /\ Head(q).version = v /\ Head(q).epoch = e
         /\ \A e : AgainReq(q, e, 1) <=> Head(q).recreate /\ Head(q).epoch = e
<1> DEFINE w == Tail(q)
           h == Head(q)
<1>1. /\ Len(q) \in Nat \ {0} /\ DOMAIN q = 1 .. Len(q) /\ DOMAIN w = 1 .. Len(q) - 1
      /\ h = q[1]
      /\ \A i \in 1 .. Len(q) - 1 : w[i] = q[i + 1]
  BY TailAt
<1> HIDE DEF w, h
<1>2. \A i \in Places : /\ i + 1 \in Places
                        /\ i \in DOMAIN w <=> i + 1 \in DOMAIN q
                        /\ i \in DOMAIN w => w[i] = q[i + 1]
  BY <1>1 DEF Places
<1>3. 1 \in DOMAIN q /\ q[1] = h
  BY <1>1
<1>4. \A v, e : \A i \in Places : CreateReq(w, v, e, i) <=> CreateReq(q, v, e, i + 1)
  BY <1>2 DEF CreateReq
<1>5. \A e : \A i \in Places : AgainReq(w, e, i) <=> AgainReq(q, e, i + 1)
  BY <1>2 DEF AgainReq
<1>6. /\ \A v, e : CreateReq(q, v, e, 1) <=> h.op = "create" /\ h.version = v /\ h.epoch = e
      /\ \A e : AgainReq(q, e, 1) <=> h.recreate /\ h.epoch = e
  BY <1>3 DEF CreateReq, AgainReq
<1> QED BY <1>2, <1>4, <1>5, <1>6 DEF w, h

LEMMA FewerAnswers ==
  ASSUME NEW S, NEW q \in Seq(S), q # << >>
  PROVE  /\ \A i \in Places : i + 1 \in Places
         /\ \A v : \A i \in Places : CreateAns(Tail(q), v, i) <=> CreateAns(q, v, i + 1)
         /\ \A i \in Places : AgainAns(Tail(q), i) <=> AgainAns(q, i + 1)
         /\ \A v : \A i \in Places : CreateAns(q, v, i + 1) => Tail(q)[i] = q[i + 1]
         /\ \A v : CreateAns(q, v, 1) <=>
              Head(q).op \in {"created", "failed"} /\ Head(q).version = v
         /\ AgainAns(q, 1) <=> Head(q).recreate
         /\ q[1] = Head(q)
<1> DEFINE w == Tail(q)
           h == Head(q)
<1>1. /\ Len(q) \in Nat \ {0} /\ DOMAIN q = 1 .. Len(q) /\ DOMAIN w = 1 .. Len(q) - 1
      /\ h = q[1]
      /\ \A i \in 1 .. Len(q) - 1 : w[i] = q[i + 1]
  BY TailAt
<1> HIDE DEF w, h
<1>2. \A i \in Places : /\ i + 1 \in Places
                        /\ i \in DOMAIN w <=> i + 1 \in DOMAIN q
                        /\ i \in DOMAIN w => w[i] = q[i + 1]
  BY <1>1 DEF Places
<1>3. 1 \in DOMAIN q /\ q[1] = h
  BY <1>1
<1>4. \A v : \A i \in Places : CreateAns(w, v, i) <=> CreateAns(q, v, i + 1)
  BY <1>2 DEF CreateAns
<1>5. \A i \in Places : AgainAns(w, i) <=> AgainAns(q, i + 1)
  BY <1>2 DEF AgainAns
<1>6. /\ \A v : CreateAns(q, v, 1) <=> h.op \in {"created", "failed"} /\ h.version = v
      /\ AgainAns(q, 1) <=> h.recreate
  BY <1>3 DEF CreateAns, AgainAns
<1>7. \A v : \A i \in Places : CreateAns(q, v, i + 1) => w[i] = q[i + 1]
  BY <1>2 DEF CreateAns
<1> QED BY <1>2, <1>3, <1>4, <1>5, <1>6, <1>7 DEF w, h

(* Asking for a session: from now on the store waits for this creation,    *)
(* and for no other.                                                       *)
LEMMA AskTalk ==
  ASSUME Typed, Typed', EpochsPast, VersionsUsed, AskForSession, reloads' = reloads,
         \/ answers' = answers
         \/ answers # << >> /\ answers' = Tail(answers)
  PROVE  TalkInv' /\ AgainIsFirst' /\ HeardIsKept'
<1> DEFINE r == Call("create", NoSession, nextVersion, FALSE)
           n == Len(requests) + 1
<1>1. /\ requests \in Seq(GoodRequests(created)) /\ answers \in Seq(GoodAnswers(created))
      /\ nextVersion \in Nat \ {0} /\ reloads \in Nat /\ NoSession \in 0 .. created
  BY DEF Typed, MessagesTyped, StoreTyped, SurfaceTyped, ExitInv, FreshIsUnwatched, NoSession
<1>2. r \in GoodRequests(created)
  BY <1>1, CallGood
<1>3. /\ requests' = Append(requests, r) /\ version' = nextVersion
      /\ nextVersion' = nextVersion + 1
  BY DEF AskForSession
<1>4. r.op = "create" /\ r.version = nextVersion /\ r.epoch = reloads /\ ~r.recreate
  BY DEF Call
<1>5. /\ Len(requests) \in Nat /\ DOMAIN requests = 1 .. Len(requests)
      /\ DOMAIN requests' = 1 .. n
      /\ \A i \in 1 .. Len(requests) : requests'[i] = requests[i]
      /\ requests'[n] = r
  <2> HIDE DEF r
  <2> QED BY <1>1, <1>2, <1>3, AppendAt
<1>6. /\ \A i \in Places : CreateReq(requests', version', reloads', i) <=>
           CreateReq(requests, nextVersion, reloads, i) \/ i = n
      /\ \A i \in Places : AgainReq(requests', reloads', i) => AgainReq(requests, reloads, i)
  <2> HIDE DEF r
  <2> QED BY <1>1, <1>2, <1>3, <1>4, MoreRequests
<1>7. \A i \in DOMAIN requests : requests[i].version \in Nat
  <2>1. \A i \in DOMAIN requests : requests[i] \in GoodRequests(created)
    BY <1>1, <1>5
  <2> QED BY <2>1 DEF GoodRequests, Request, Versions
<1>8. \A i \in Places : ~CreateReq(requests, nextVersion, reloads, i)
  BY <1>1, <1>7 DEF VersionsUsed, CreateReq
<1>9. \A i \in Places : AgainReq(requests', reloads', i) => i < n
  BY <1>5, <1>6 DEF AgainReq
<1>10. \A i \in DOMAIN answers' :
         answers'[i].version \in Nat /\ answers'[i].version < nextVersion
  <2>1. \A i \in DOMAIN answers : answers[i] \in GoodAnswers(created)
    BY <1>1
  <2>2. \A i \in DOMAIN answers :
          answers[i].version \in Nat /\ answers[i].version < nextVersion
    BY <2>1 DEF VersionsUsed, GoodAnswers, Answer, Versions
  <2>3. CASE answers' = answers
    BY <2>2, <2>3
  <2>4. CASE answers # << >> /\ answers' = Tail(answers)
    <3>1. \A i \in DOMAIN answers' : i + 1 \in DOMAIN answers /\ answers'[i] = answers[i + 1]
      BY <1>1, <2>4, TailAt
    <3> QED BY <2>2, <3>1
  <2> QED BY <2>3, <2>4
<1>11. \A i \in Places : ~CreateAns(answers', version', i)
  BY <1>1, <1>3, <1>10 DEF CreateAns
<1>12. EpochsPast'
  <2> HIDE DEF r
  <2>1. \A i \in DOMAIN requests' : i = n \/ i \in 1 .. Len(requests)
    BY <1>5
  <2>2. r.epoch <= reloads
    BY <1>1, <1>4
  <2> QED BY <1>5, <2>1, <2>2 DEF EpochsPast
<1>13. VersionsUsed'
  <2>1. \A i \in DOMAIN answers' : answers'[i].version < nextVersion'
    BY <1>1, <1>3, <1>10
  <2>2. ASSUME NEW i \in DOMAIN requests', requests'[i].epoch = reloads'
        PROVE  requests'[i].version < nextVersion'
    <3> HIDE DEF r
    <3>1. CASE i \in 1 .. Len(requests)
      <4>1. requests'[i] = requests[i] /\ i \in DOMAIN requests
        BY <1>5, <3>1
      <4>2. requests[i].version \in Nat /\ requests[i].version < nextVersion
        BY <1>7, <2>2, <4>1 DEF VersionsUsed
      <4> QED BY <1>1, <1>3, <4>1, <4>2
    <3>2. CASE i = n
      BY <1>1, <1>3, <1>4, <1>5, <3>2
    <3> QED BY <1>5, <3>1, <3>2
  <2> QED BY <2>1, <2>2 DEF VersionsUsed
<1> HIDE DEF n, r
<1>14. \A i \in Places : CreateReq(requests', version', reloads', i) <=> i = n
  BY <1>6, <1>8
<1>15. OneCreation'
  BY <1>11, <1>14 DEF OneCreation
<1>16. AgainIsFirst'
  BY <1>9, <1>11, <1>14 DEF AgainIsFirst
<1>17. HeardIsKept'
  BY <1>11 DEF HeardIsKept
<1> QED BY <1>12, <1>13, <1>15, <1>16, <1>17 DEF TalkInv

(* Any other call: nothing the store waits for comes with it, but the      *)
(* closing that will ask for a session again.                              *)
LEMMA CallTalk ==
  ASSUME Typed, EpochsPast, VersionsUsed,
         NEW op \in {"close", "list"}, NEW s \in 0 .. created, NEW again \in BOOLEAN,
         op = "close" => s # NoSession, again => op = "close",
         requests' = Append(requests, Call(op, s, 0, again)), reloads' = reloads,
         nextVersion' \in {nextVersion, nextVersion + 1}
  PROVE  /\ EpochsPast'
         /\ \A i \in DOMAIN requests' :
              requests'[i].epoch = reloads' => requests'[i].version < nextVersion'
         /\ \A v : \A i \in Places : CreateReq(requests', v, reloads', i) <=>
                                       CreateReq(requests, v, reloads, i)
         /\ \A i \in Places : AgainReq(requests', reloads', i) <=>
                                \/ AgainReq(requests, reloads, i)
                                \/ again /\ i = Len(requests) + 1
<1> DEFINE r == Call(op, s, 0, again)
           n == Len(requests) + 1
<1>1. /\ requests \in Seq(GoodRequests(created))
      /\ nextVersion \in Nat \ {0} /\ reloads \in Nat
  BY DEF Typed, MessagesTyped, StoreTyped, SurfaceTyped
<1>2. r \in GoodRequests(created)
  BY CallGood
<1>3. r.op = op /\ r.version = 0 /\ r.epoch = reloads /\ r.recreate = again
  BY DEF Call
<1>4. /\ Len(requests) \in Nat /\ DOMAIN requests = 1 .. Len(requests)
      /\ DOMAIN requests' = 1 .. n
      /\ \A i \in 1 .. Len(requests) : requests'[i] = requests[i]
      /\ requests'[n] = r
  BY <1>1, <1>2, AppendAt
<1>5. \A i \in DOMAIN requests : requests[i].version \in Nat
  <2>1. \A i \in DOMAIN requests : requests[i] \in GoodRequests(created)
    BY <1>1, <1>4
  <2> QED BY <2>1 DEF GoodRequests, Request, Versions
<1>6. EpochsPast'
  BY <1>1, <1>3, <1>4 DEF EpochsPast
<1> HIDE DEF r
<1>7. ASSUME NEW i \in DOMAIN requests', requests'[i].epoch = reloads'
      PROVE  requests'[i].version < nextVersion'
  <2>1. CASE i \in 1 .. Len(requests)
    <3>1. requests'[i] = requests[i] /\ i \in DOMAIN requests
      BY <1>4, <2>1
    <3>2. requests[i].version \in Nat /\ requests[i].version < nextVersion
      BY <1>5, <1>7, <3>1 DEF VersionsUsed
    <3> QED BY <1>1, <3>1, <3>2
  <2>2. CASE i = n
    BY <1>1, <1>3, <1>4, <2>2
  <2> QED BY <1>4, <2>1, <2>2
<1>8. /\ \A v : \A i \in Places : CreateReq(requests', v, reloads', i) <=>
                                    CreateReq(requests, v, reloads, i)
      /\ \A i \in Places : AgainReq(requests', reloads', i) <=>
                             AgainReq(requests, reloads, i) \/ (again /\ i = n)
  <2>1. requests' = Append(requests, r)
    BY DEF r
  <2>2. r.op # "create"
    BY <1>3
  <2>3. \A i \in Places : AgainReq(requests', reloads', i) <=>
          AgainReq(requests, reloads, i) \/ (i = n /\ r.recreate /\ r.epoch = reloads)
    BY <1>1, <1>2, <2>1, MoreRequests
  <2>4. \A v : \A i \in Places : CreateReq(requests', v, reloads', i) <=>
                                   CreateReq(requests, v, reloads, i)
    BY <1>1, <1>2, <2>1, <2>2, MoreRequests
  <2> QED BY <1>3, <2>3, <2>4
<1> QED BY <1>6, <1>7, <1>8

(* What the store waits for is the same before and after.                  *)
SameTalk ==
  \A i \in Places :
    /\ CreateReq(requests', version', reloads', i) <=> CreateReq(requests, version, reloads, i)
    /\ AgainReq(requests', reloads', i) <=> AgainReq(requests, reloads, i)
    /\ CreateAns(answers', version', i) <=> CreateAns(answers, version, i)
    /\ AgainAns(answers', i) <=> AgainAns(answers, i)

LEMMA SameTalkKeeps ==
  ASSUME SameTalk
  PROVE  /\ OneCreation => OneCreation'
         /\ AgainIsFirst /\ early' = early => AgainIsFirst'
         /\ Quiet => Quiet'
<1>1. OneCreation => OneCreation'
  BY DEF SameTalk, OneCreation
<1>2. AgainIsFirst /\ early' = early => AgainIsFirst'
  BY DEF SameTalk, AgainIsFirst
<1>3. Quiet => Quiet'
  BY DEF SameTalk, Quiet
<1> QED BY <1>1, <1>2, <1>3

LEMMA EndSurface ==
  ASSUME EndInv, Typed', EnsureTerminal \/ Restart \/ CloseTerminal \/ Hide \/ Show \/ Reload
  PROVE  EndInv'
<1>0. /\ Typed /\ BusyHasNone /\ TalkInv /\ EpochsPast /\ VersionsUsed /\ OneCreation
      /\ AgainIsFirst /\ IdleIsQuiet /\ EndedIsOver /\ HeardIsKept /\ EndIsNotForgotten
      /\ nextVersion \in Nat \ {0} /\ reloads \in Nat
      /\ heard \subseteq 1 .. created /\ NoSession \notin heard
      /\ runtime.session \in 0 .. created /\ created \in Nat
  BY DEF EndInv, TalkInv, Typed, StoreTyped, SurfaceTyped, HistoryTyped, ExitInv,
         FreshIsUnwatched, NoSession
<1>1. EndedIsOver'
  BY <1>0 DEF EndedIsOver, EnsureTerminal, Restart, CloseTerminal, Hide, Show, Reload, Act,
              native
<1>2. /\ Starting.session = NoSession /\ Starting.busy /\ Starting # NoRuntime
      /\ NoRuntime.session = NoSession /\ ~NoRuntime.busy
  BY DEF Starting, NoRuntime
<1>3. ASSUME runtime' = Starting, heard' = heard
      PROVE  BusyHasNone' /\ IdleIsQuiet' /\ EndIsNotForgotten'
  <2>1. runtime'.session = NoSession /\ runtime'.busy
    BY <1>2, <1>3
  <2> QED BY <1>0, <1>3, <2>1 DEF BusyHasNone, IdleIsQuiet, EndIsNotForgotten
<1>4. ASSUME runtime' = NoRuntime, heard' = heard
      PROVE  BusyHasNone' /\ IdleIsQuiet' /\ EndIsNotForgotten'
  <2>1. runtime'.session = NoSession /\ ~runtime'.busy
    BY <1>2, <1>4
  <2> QED BY <1>0, <1>4, <2>1 DEF BusyHasNone, IdleIsQuiet, EndIsNotForgotten
<1>5. ASSUME AskForSession, runtime' = Starting, heard' = heard, reloads' = reloads,
             answers' = answers
      PROVE  EndInv'
  <2>1. TalkInv' /\ AgainIsFirst' /\ HeardIsKept'
    BY <1>0, <1>5, AskTalk
  <2> QED BY <1>1, <1>3, <1>5, <2>1 DEF EndInv
<1>6. CASE EnsureTerminal
  BY <1>5, <1>6 DEF EnsureTerminal, Act
<1>7. CASE Restart
  <2>1. /\ runtime' = Starting /\ UNCHANGED <<heard, reloads, answers, early>>
        /\ runtime # NoRuntime
        /\ \/ /\ runtime.session # NoSession /\ GiveUp(runtime.session, TRUE)
              /\ UNCHANGED <<version, nextVersion>>
           \/ AskForSession
    BY <1>7 DEF Restart, Act
  <2>2. CASE AskForSession
    BY <1>5, <2>1, <2>2
  <2>3. CASE /\ runtime.session # NoSession /\ GiveUp(runtime.session, TRUE)
             /\ UNCHANGED <<version, nextVersion>>
    <3>1. ~runtime.busy
      BY <1>0, <1>2, <2>3 DEF BusyHasNone
    <3>2. early = {} => Quiet
      BY <1>0, <2>1, <3>1 DEF IdleIsQuiet
    <3>3. requests' = Append(requests, Call("close", runtime.session, 0, TRUE))
      BY <2>3 DEF GiveUp
    <3>4. /\ EpochsPast'
          /\ \A i \in DOMAIN requests' :
               requests'[i].epoch = reloads' => requests'[i].version < nextVersion'
          /\ \A i \in Places : CreateReq(requests', version', reloads', i) <=>
                                 CreateReq(requests, version, reloads, i)
      BY <1>0, <2>1, <2>3, <3>3, CallTalk
    <3>5. VersionsUsed'
      BY <1>0, <2>1, <2>3, <3>4 DEF VersionsUsed
    <3>6. OneCreation'
      BY <1>0, <2>1, <2>3, <3>4 DEF OneCreation
    <3>7. AgainIsFirst'
      BY <2>1, <2>3, <3>2, <3>4 DEF AgainIsFirst, Quiet
    <3>8. HeardIsKept'
      BY <2>1, <2>3, <3>2 DEF HeardIsKept, Quiet
    <3> QED BY <1>1, <1>3, <2>1, <3>4, <3>5, <3>6, <3>7, <3>8 DEF EndInv, TalkInv
  <2> QED BY <2>1, <2>2, <2>3
<1>8. CASE CloseTerminal
  <2>1. /\ runtime' = NoRuntime /\ UNCHANGED <<heard, reloads, answers, early>>
        /\ version' = 0 /\ nextVersion' = nextVersion + 1
        /\ \/ runtime.session # NoSession /\ GiveUp(runtime.session, FALSE)
           \/ requests' = requests
    BY <1>8 DEF CloseTerminal, Act
  <2>2. /\ EpochsPast'
        /\ \A i \in DOMAIN requests' :
             requests'[i].epoch = reloads' => requests'[i].version < nextVersion'
        /\ \A i \in Places : CreateReq(requests', 0, reloads', i) <=>
                               CreateReq(requests, 0, reloads, i)
    <3>1. CASE runtime.session # NoSession /\ GiveUp(runtime.session, FALSE)
      <4>1. requests' = Append(requests, Call("close", runtime.session, 0, FALSE))
        BY <3>1 DEF GiveUp
      <4> QED BY <1>0, <2>1, <3>1, <4>1, CallTalk
    <3>2. CASE requests' = requests
      <4>1. \A i \in DOMAIN requests : requests[i] \in GoodRequests(created)
        <5>1. requests \in Seq(GoodRequests(created))
          BY <1>0 DEF Typed, MessagesTyped
        <5> QED BY <5>1
      <4>2. \A i \in DOMAIN requests : requests[i].version \in Nat
        BY <4>1 DEF GoodRequests, Request, Versions
      <4> QED BY <1>0, <2>1, <3>2, <4>2 DEF EpochsPast, VersionsUsed
    <3> QED BY <2>1, <3>1, <3>2
  <2>3. /\ \A i \in Places : ~CreateReq(requests, 0, reloads, i)
        /\ \A i \in Places : ~CreateAns(answers, 0, i)
        /\ \A i \in DOMAIN answers : answers[i].version \in Nat
    <3>1. /\ requests \in Seq(GoodRequests(created)) /\ answers \in Seq(GoodAnswers(created))
      BY <1>0 DEF Typed, MessagesTyped
    <3>2. /\ \A i \in DOMAIN requests : requests[i] \in GoodRequests(created)
          /\ \A i \in DOMAIN answers : answers[i] \in GoodAnswers(created)
      BY <3>1
    <3> QED BY <3>2 DEF GoodRequests, GoodAnswers, Answer, Versions, CreateReq, CreateAns
  <2>4. /\ \A i \in Places : ~CreateReq(requests', version', reloads', i)
        /\ \A i \in Places : ~CreateAns(answers', version', i)
    BY <2>1, <2>2, <2>3
  <2>5. VersionsUsed'
    BY <1>0, <2>1, <2>2, <2>3 DEF VersionsUsed
  <2>6. OneCreation' /\ AgainIsFirst' /\ HeardIsKept'
    BY <2>4 DEF OneCreation, AgainIsFirst, HeardIsKept
  <2> QED BY <1>1, <1>4, <2>1, <2>2, <2>5, <2>6 DEF EndInv, TalkInv
<1>9. ASSUME UNCHANGED <<answers, version, nextVersion, reloads, runtime, retired, ended,
                         heard, early>>,
             SameTalk, EpochsPast',
             \A i \in DOMAIN requests' :
               requests'[i].epoch = reloads' => requests'[i].version < nextVersion'
      PROVE  EndInv'
  <2>1. OneCreation' /\ AgainIsFirst' /\ (Quiet => Quiet')
    BY <1>0, <1>9, SameTalkKeeps
  <2>2. VersionsUsed'
    BY <1>0, <1>9 DEF VersionsUsed
  <2>3. BusyHasNone' /\ IdleIsQuiet' /\ EndIsNotForgotten'
    BY <1>0, <1>9, <2>1 DEF BusyHasNone, IdleIsQuiet, EndIsNotForgotten
  <2>4. HeardIsKept'
    BY <1>0, <1>9 DEF HeardIsKept
  <2> QED BY <1>1, <1>9, <2>1, <2>2, <2>3, <2>4 DEF EndInv, TalkInv
<1>10. CASE Hide
  <2>1. UNCHANGED <<requests, answers, version, nextVersion, reloads, runtime, retired,
                    ended, heard, early>>
    BY <1>10 DEF Hide, Act, store
  <2>2. SameTalk /\ EpochsPast'
    BY <1>0, <2>1 DEF SameTalk, EpochsPast
  <2> QED BY <1>0, <1>9, <2>1, <2>2 DEF VersionsUsed
<1>11. CASE Show
  <2>1. /\ UNCHANGED <<answers, version, nextVersion, reloads, runtime, retired,
                       ended, heard, early>>
        /\ requests' = Append(requests, Call("list", NoSession, 0, FALSE))
    BY <1>11 DEF Show, store
  <2>2. NoSession \in 0 .. created
    BY <1>0 DEF NoSession
  <2>3. /\ EpochsPast'
        /\ \A i \in DOMAIN requests' :
             requests'[i].epoch = reloads' => requests'[i].version < nextVersion'
        /\ \A i \in Places : CreateReq(requests', version, reloads', i) <=>
                               CreateReq(requests, version, reloads, i)
        /\ \A i \in Places : AgainReq(requests', reloads', i) <=>
                               AgainReq(requests, reloads, i)
    BY <1>0, <2>1, <2>2, CallTalk
  <2>4. SameTalk
    BY <2>1, <2>3 DEF SameTalk
  <2> QED BY <1>9, <2>1, <2>3, <2>4
<1>12. CASE Reload
  <2>1. /\ runtime' = NoRuntime /\ UNCHANGED <<heard, requests>> /\ reloads' = reloads + 1
        /\ answers' = << >> /\ early' = {}
    BY <1>12 DEF Reload, Act
  <2>2. \A i \in DOMAIN requests : requests[i].epoch \in Nat /\ requests[i].epoch <= reloads
    <3>1. requests \in Seq(GoodRequests(created))
      BY <1>0 DEF Typed, MessagesTyped
    <3>2. \A i \in DOMAIN requests : requests[i] \in GoodRequests(created)
      BY <3>1
    <3> QED BY <1>0, <3>2, TerminalBounds DEF GoodRequests, Request, EpochsPast
  <2>3. EpochsPast' /\ VersionsUsed'
    BY <1>0, <2>1, <2>2 DEF EpochsPast, VersionsUsed
  <2>4. \A i \in Places : /\ ~CreateReq(requests', version', reloads', i)
                          /\ ~AgainReq(requests', reloads', i)
                          /\ ~CreateAns(answers', version', i)
                          /\ ~AgainAns(answers', i)
    BY <1>0, <2>1, <2>2 DEF CreateReq, AgainReq, CreateAns, AgainAns
  <2>5. OneCreation' /\ AgainIsFirst' /\ HeardIsKept'
    BY <2>4 DEF OneCreation, AgainIsFirst, HeardIsKept
  <2> QED BY <1>1, <1>4, <2>1, <2>3, <2>5 DEF EndInv, TalkInv
<1> QED BY <1>6, <1>7, <1>8, <1>10, <1>11, <1>12

LEMMA EndCalm ==
  ASSUME EndInv, Typed', EndedIsOver',
         UNCHANGED <<requests, answers, version, nextVersion, reloads, runtime, retired,
                     ended, heard, early>>
  PROVE  EndInv'
<1>1. BusyHasNone' /\ EpochsPast' /\ VersionsUsed' /\ EndIsNotForgotten'
  BY DEF EndInv, TalkInv, BusyHasNone, EpochsPast, VersionsUsed, EndIsNotForgotten
<1>2. OneCreation' /\ AgainIsFirst' /\ IdleIsQuiet' /\ HeardIsKept'
  BY DEF EndInv, TalkInv, OneCreation, AgainIsFirst, IdleIsQuiet, Quiet, HeardIsKept
<1> QED BY <1>1, <1>2 DEF EndInv, TalkInv

LEMMA EndThreads ==
  ASSUME EndInv, Typed', NEW s \in Sessions, Threads(s)
  PROVE  EndInv'
<1>1. UNCHANGED <<requests, answers, version, nextVersion, reloads, runtime, retired,
                  ended, heard, early>>
  <2>1. CASE ReaderReads(s)
    BY <2>1 DEF ReaderReads, store
  <2>2. CASE ReaderSends(s) \/ MonitorPolls(s) \/ MonitorRemoves(s)
    BY <2>2 DEF ReaderSends, MonitorPolls, MonitorRemoves, elsewhere, store
  <2>3. CASE MonitorReports(s) \/ Flush(s)
    BY <2>3 DEF MonitorReports, Flush, elsewhere, store
  <2> QED BY <2>1, <2>2, <2>3 DEF Threads
<1>2. /\ EndedIsOver
      /\ monitor \in [Sessions -> {"none", "watching", "removing", "reporting", "done"}]
  BY DEF EndInv, Typed, ExitInv, OutputTyped
<1>3. EndedIsOver'
  <2>1. CASE ReaderReads(s) \/ ReaderSends(s) \/ Flush(s)
    BY <1>1, <1>2, <2>1 DEF EndedIsOver, ReaderReads, ReaderSends, Flush
  <2>2. CASE MonitorPolls(s)
    BY <1>1, <1>2, <2>2 DEF EndedIsOver, MonitorPolls
  <2>3. CASE MonitorRemoves(s)
    BY <1>1, <1>2, <2>3 DEF EndedIsOver, MonitorRemoves, Unregister
  <2>4. CASE MonitorReports(s)
    BY <1>1, <1>2, <2>4 DEF EndedIsOver, MonitorReports
  <2> QED BY <2>1, <2>2, <2>3, <2>4 DEF Threads
<1> QED BY <1>1, <1>3, EndCalm

(* The exit of a session the tab does not hold is kept; one it holds had   *)
(* nothing on its way that would make the tab take another.                *)
LEMMA EndReceive ==
  ASSUME EndInv, Typed', NEW s \in Sessions, Receive(s)
  PROVE  EndInv'
<1>0. /\ Receives /\ EndedIsOver /\ BusyHasNone /\ IdleIsQuiet /\ HeardIsKept
      /\ EndIsNotForgotten /\ Typed
      /\ s # NoSession
  BY DEF Receive, ReceiveOutput, ReceiveExit, EndInv, Sessions, NoSession
<1>1. UNCHANGED <<requests, answers, version, nextVersion, reloads, retired, early,
                  monitor, registered>>
  BY <1>0 DEF Receives, native
<1>2. CASE ReceiveOutput(s)
  <2>1. UNCHANGED <<runtime, ended, heard>>
    BY <1>2 DEF ReceiveOutput
  <2>2. EndedIsOver'
    BY <1>0, <1>1, <2>1 DEF EndedIsOver
  <2> QED BY <1>1, <2>1, <2>2, EndCalm
<1>3. CASE ReceiveExit(s)
  <2>1. monitor[s] = "done"
    <3>1. events[s] \in Seq(Chunks \cup {Exit}) /\ events[s] # << >>
      BY <1>0, <1>3 DEF ReceiveExit, Typed, ExitInv, OutputTyped
    <3>2. 1 \in DOMAIN events[s] /\ events[s][1] = Head(events[s])
      BY <3>1, TailAt
    <3>3. Head(events[s]) = Exit
      BY <1>3 DEF ReceiveExit
    <3> QED BY <1>0, <3>2, <3>3 DEF Typed, ExitInv, ExitAndAfter
  <2>2. EndedIsOver'
    BY <1>0, <1>1, <1>3, <2>1 DEF EndedIsOver, ReceiveExit
  <2>3. CASE UNCHANGED <<runtime, ended, heard>>
    BY <1>1, <2>2, <2>3, EndCalm
  <2>4. CASE /\ runtime.session = s
             /\ runtime' = [runtime EXCEPT !.busy = FALSE, !.status = "exited"]
             /\ heard' = heard \cup {s} /\ ended' = ended
    <3>1. /\ runtime'.session = s /\ ~runtime'.busy /\ runtime'.status = "exited"
      <4>1. runtime \in [session : 0 .. created, busy : BOOLEAN,
                         status : Statuses \cup {"none"}]
        BY <1>0 DEF Typed, StoreTyped
      <4> QED BY <2>4, <4>1
    <3>2. ~runtime.busy /\ runtime # NoRuntime
      BY <1>0, <2>4 DEF BusyHasNone, Starting, NoRuntime
    <3>3. early = {} => Quiet
      BY <1>0, <3>2 DEF IdleIsQuiet
    <3>4. HeardIsKept'
      BY <1>1, <3>3 DEF HeardIsKept, Quiet
    <3>5. BusyHasNone' /\ EndIsNotForgotten'
      BY <1>0, <3>1 DEF BusyHasNone, EndIsNotForgotten
    <3>6. IdleIsQuiet'
      BY <1>1, <3>3 DEF IdleIsQuiet, Quiet
    <3>7. EpochsPast' /\ VersionsUsed'
      BY <1>1 DEF EndInv, TalkInv, EpochsPast, VersionsUsed
    <3>8. OneCreation' /\ AgainIsFirst'
      BY <1>1 DEF EndInv, TalkInv, OneCreation, AgainIsFirst
    <3> QED BY <2>2, <3>4, <3>5, <3>6, <3>7, <3>8 DEF EndInv, TalkInv
  <2>5. CASE /\ runtime.session # s /\ runtime' = runtime
             /\ ended' = ended \cup {s} /\ heard' = heard \cup {s}
    <3>1. HeardIsKept'
      BY <1>0, <1>1, <2>5 DEF HeardIsKept
    <3>2. BusyHasNone' /\ EndIsNotForgotten'
      BY <1>0, <1>1, <2>5 DEF BusyHasNone, EndIsNotForgotten
    <3>3. IdleIsQuiet'
      BY <1>0, <1>1, <2>5 DEF IdleIsQuiet, Quiet
    <3>4. EpochsPast' /\ VersionsUsed'
      BY <1>1 DEF EndInv, TalkInv, EpochsPast, VersionsUsed
    <3>5. OneCreation' /\ AgainIsFirst'
      BY <1>1 DEF EndInv, TalkInv, OneCreation, AgainIsFirst
    <3> QED BY <2>2, <3>1, <3>2, <3>3, <3>4, <3>5 DEF EndInv, TalkInv
  <2> QED BY <1>3, <2>3, <2>4, <2>5 DEF ReceiveExit
<1> QED BY <1>2, <1>3 DEF Receive

(* What serving a request puts on the way back.                            *)
Served(req, a) ==
  /\ req.epoch = reloads
  /\ a.version = req.version /\ a.recreate = req.recreate
  /\ a.op \in {"created", "failed"} <=> req.op = "create"
  /\ a.op = "created" => a.session \notin heard

LEMMA ReplyServes ==
  ASSUME NEW req, NEW op, NEW s, NEW st, Reply(op, s, req, st),
         op \in {"created", "failed"} <=> req.op = "create",
         op = "created" => s \notin heard
  PROVE  \/ answers' = answers
         \/ \E a : Served(req, a) /\ answers' = Append(answers, a)
<1> DEFINE a == [op |-> op, session |-> s, version |-> req.version,
                 recreate |-> req.recreate, status |-> st]
<1>1. \/ answers' = answers
      \/ req.epoch = reloads /\ answers' = Append(answers, a)
  BY DEF Reply
<1>2. /\ a.op = op /\ a.session = s /\ a.version = req.version
      /\ a.recreate = req.recreate
  OBVIOUS
<1> HIDE DEF a
<1>3. req.epoch = reloads => Served(req, a)
  BY <1>2 DEF Served
<1> QED BY <1>1, <1>3

LEMMA ServeAnswers ==
  ASSUME EndInv, Serve
  PROVE  \/ answers' = answers
         \/ \E a : Served(Head(requests), a) /\ answers' = Append(answers, a)
<1> DEFINE req == Head(requests)
<1>1. /\ EndedIsOver /\ heard \subseteq 1 .. created /\ registered \subseteq 1 .. created
      /\ created \in 0 .. MaxSessions
  BY DEF EndInv, Typed, HistoryTyped, NativeTyped, ExitInv, FreshIsUnwatched
<1>2. \A s \in registered : s \notin heard
  <2>1. registered \subseteq Sessions
    BY <1>1, CreatedSessions
  <2> QED BY <1>1, <2>1 DEF EndedIsOver
<1> HIDE DEF req
<1>3. PICK op, s, st : /\ Reply(op, s, req, st)
                       /\ op \in {"created", "failed"} <=> req.op = "create"
                       /\ op = "created" => s \notin heard
  <2>1. CASE ServeReuse(req)
    <3>1. /\ Reply("created", owner, req, status[owner]) /\ req.op = "create"
          /\ owner \notin heard
      BY <1>2, <2>1 DEF ServeReuse
    <3> QED BY <3>1
  <2>2. CASE ServeCreate(req)
    <3>1. /\ Reply("created", created + 1, req, "running") /\ req.op = "create"
          /\ created + 1 \notin heard
      BY <1>1, <2>2 DEF ServeCreate
    <3> QED BY <3>1
  <2>3. CASE ServeFailure(req)
    <3>1. Reply("failed", NoSession, req, "error") /\ req.op = "create"
      BY <2>3 DEF ServeFailure
    <3> QED BY <3>1
  <2>4. CASE ServeClose(req)
    <3>1. Reply("closed", req.session, req, "exited") /\ req.op = "close"
      BY <2>4 DEF ServeClose
    <3> QED BY <3>1
  <2>5. CASE ServeList(req)
    <3>1. PICK s, st : Reply("listed", s, req, st) /\ req.op = "list"
      BY <2>5 DEF ServeList
    <3> QED BY <3>1
  <2> QED BY <2>1, <2>2, <2>3, <2>4, <2>5 DEF Serve, req
<1>4. \/ answers' = answers
      \/ \E a : Served(req, a) /\ answers' = Append(answers, a)
  BY <1>3, ReplyServes
<1> QED BY <1>4 DEF req

LEMMA EndServe ==
  ASSUME EndInv, Typed', Serve
  PROVE  EndInv'
<1> DEFINE req == Head(requests)
<1>0. /\ Typed /\ BusyHasNone /\ EpochsPast /\ VersionsUsed /\ OneCreation /\ AgainIsFirst
      /\ IdleIsQuiet /\ EndedIsOver /\ HeardIsKept /\ EndIsNotForgotten
      /\ requests \in Seq(GoodRequests(created)) /\ answers \in Seq(GoodAnswers(created))
      /\ created \in Nat /\ heard \subseteq 1 .. created /\ nextVersion \in Nat
      /\ monitor \in [Sessions -> {"none", "watching", "removing", "reporting", "done"}]
  <2>1. /\ created \in Nat /\ heard \subseteq 1 .. created /\ nextVersion \in Nat
        /\ monitor \in [Sessions -> {"none", "watching", "removing", "reporting", "done"}]
    BY DEF EndInv, Typed, StoreTyped, HistoryTyped, ExitInv, OutputTyped, FreshIsUnwatched
  <2> QED BY <2>1 DEF EndInv, TalkInv, Typed, MessagesTyped
<1>1. /\ requests # << >> /\ requests' = Tail(requests)
      /\ UNCHANGED <<version, nextVersion, reloads, runtime, retired, ended, heard, early>>
  BY DEF Serve, store
<1>2. EndedIsOver'
  <2>1. CASE ServeCreate(req)
    <3>1. /\ registered' = registered \cup {created + 1}
          /\ monitor' = [monitor EXCEPT ![created + 1] = "watching"]
      BY <2>1 DEF ServeCreate
    <3>2. created + 1 \notin heard
      BY <1>0
    <3> QED BY <1>0, <1>1, <3>1, <3>2 DEF EndedIsOver
  <2>2. CASE ServeReuse(req) \/ ServeFailure(req) \/ ServeClose(req) \/ ServeList(req)
    <3>1. registered' \subseteq registered /\ monitor' = monitor
      BY <2>2 DEF ServeReuse, ServeFailure, ServeClose, ServeList, Unregister, native
    <3> QED BY <1>0, <1>1, <3>1 DEF EndedIsOver
  <2> QED BY <2>1, <2>2 DEF Serve
<1>3. /\ Len(requests) \in Nat \ {0} /\ DOMAIN requests = 1 .. Len(requests)
      /\ req = requests[1] /\ req \in GoodRequests(created)
      /\ DOMAIN requests' = 1 .. Len(requests) - 1
      /\ \A i \in 1 .. Len(requests) - 1 : requests'[i] = requests[i + 1]
  BY <1>0, <1>1, TailAt
<1> HIDE DEF req
<1>4. /\ \A i \in Places : i + 1 \in Places
      /\ \A i \in Places : CreateReq(requests', version', reloads', i) <=>
                             CreateReq(requests, version, reloads, i + 1)
      /\ \A i \in Places : AgainReq(requests', reloads', i) <=>
                             AgainReq(requests, reloads, i + 1)
      /\ CreateReq(requests, version, reloads, 1) <=>
           /\ req.op = "create" /\ req.version = version /\ req.epoch = reloads
      /\ AgainReq(requests, reloads, 1) <=> req.recreate /\ req.epoch = reloads
  BY <1>0, <1>1, FewerRequests DEF req
<1>5. EpochsPast'
  BY <1>0, <1>1, <1>3 DEF EpochsPast
<1>6. \A i \in DOMAIN requests' :
        requests'[i].epoch = reloads' => requests'[i].version < nextVersion'
  BY <1>0, <1>1, <1>3 DEF VersionsUsed
<1>7. BusyHasNone' /\ EndIsNotForgotten'
  BY <1>0, <1>1 DEF BusyHasNone, EndIsNotForgotten
<1>8. /\ 1 \in Places
      /\ \A i \in Places : i + 1 # 1 /\ ~(i + 1 < 1)
      /\ \A i, k \in Places : i + 1 = k + 1 => i = k
      /\ \A i, k \in Places : k + 1 < i + 1 => k < i
      /\ Len(answers) \in Nat /\ Len(answers) + 1 \in Places
  <2>1. Len(answers) \in Nat
    BY <1>0
  <2> QED BY <2>1 DEF Places
<1>9. ASSUME answers' = answers
      PROVE  EndInv'
  <2>1. VersionsUsed'
    BY <1>0, <1>1, <1>6, <1>9 DEF VersionsUsed
  <2>2. OneCreation'
    BY <1>0, <1>1, <1>4, <1>8, <1>9 DEF OneCreation
  <2>3. AgainIsFirst'
    BY <1>0, <1>1, <1>4, <1>8, <1>9 DEF AgainIsFirst
  <2>4. IdleIsQuiet'
    BY <1>0, <1>1, <1>4, <1>9 DEF IdleIsQuiet, Quiet
  <2>5. HeardIsKept'
    BY <1>0, <1>1, <1>9 DEF HeardIsKept
  <2> QED BY <1>2, <1>5, <1>7, <2>1, <2>2, <2>3, <2>4, <2>5 DEF EndInv, TalkInv
<1>10. ASSUME NEW a, Served(req, a), answers' = Append(answers, a)
       PROVE  EndInv'
  <2> DEFINE n == Len(answers) + 1
             S == GoodAnswers(created) \cup {a}
  <2>1. answers \in Seq(S) /\ a \in S
    BY <1>0, SeqOfMore
  <2> HIDE DEF S
  <2>2. /\ DOMAIN answers = 1 .. Len(answers) /\ DOMAIN answers' = 1 .. n
        /\ \A i \in 1 .. Len(answers) : answers'[i] = answers[i]
        /\ answers'[n] = a
    BY <1>10, <2>1, AppendAt
  <2>3. /\ \A i \in Places : CreateAns(answers', version', i) <=>
             \/ CreateAns(answers, version, i)
             \/ i = n /\ a.op \in {"created", "failed"} /\ a.version = version
        /\ \A i \in Places : AgainAns(answers', i) <=>
                               AgainAns(answers, i) \/ (i = n /\ a.recreate)
    BY <1>1, <1>10, <2>1, MoreAnswers
  <2>4. /\ \A i \in Places : CreateAns(answers, version, i) => i < n /\ i # n
        /\ \A i \in Places : AgainAns(answers, i) => i < n
    BY <1>8, <2>2 DEF CreateAns, AgainAns
  <2>5. /\ \A i \in Places : CreateAns(answers', version', i) <=>
             \/ CreateAns(answers, version, i)
             \/ i = n /\ CreateReq(requests, version, reloads, 1)
        /\ \A i \in Places : AgainAns(answers', i) <=>
             \/ AgainAns(answers, i)
             \/ i = n /\ AgainReq(requests, reloads, 1)
    BY <1>4, <1>10, <2>3 DEF Served
  <2>6. VersionsUsed'
    <3>1. req.version < nextVersion
      BY <1>0, <1>3, <1>10 DEF VersionsUsed, Served
    <3>2. \A i \in DOMAIN answers' : answers'[i].version < nextVersion'
      <4> SUFFICES ASSUME NEW i \in DOMAIN answers' PROVE answers'[i].version < nextVersion
        BY <1>1
      <4>1. CASE i \in 1 .. Len(answers)
        BY <1>0, <2>2, <4>1 DEF VersionsUsed
      <4>2. CASE i = n
        BY <1>10, <2>2, <3>1, <4>2 DEF Served
      <4> QED BY <1>8, <2>2, <4>1, <4>2
    <3> QED BY <1>6, <3>2 DEF VersionsUsed
  <2> HIDE DEF n
  <2>7. OneCreation'
    BY <1>0, <1>4, <1>8, <2>4, <2>5 DEF OneCreation
  <2>8. AgainIsFirst'
    <3> SUFFICES ASSUME early = {}
                 PROVE  AgainIsFirst'
      BY <1>1 DEF AgainIsFirst
    <3> DEFINE create(i) == CreateReq(requests', version', reloads', i)
               again(i) == AgainReq(requests', reloads', i)
               made(i) == CreateAns(answers', version', i)
               shut(i) == AgainAns(answers', i)
    <3>1. \A i, k \in Places : create(i) /\ again(k) => k < i
      BY <1>0, <1>1, <1>4, <1>8 DEF AgainIsFirst
    <3>2. \A i, k \in Places : made(i) /\ shut(k) => k < i
      BY <1>0, <1>4, <1>8, <2>4, <2>5 DEF AgainIsFirst
    <3>3. \A i, k \in Places : ~(made(i) /\ again(k))
      BY <1>0, <1>1, <1>4, <1>8, <2>5 DEF AgainIsFirst
    <3> QED BY <3>1, <3>2, <3>3 DEF AgainIsFirst
  <2>9. IdleIsQuiet'
    BY <1>0, <1>1, <1>4, <1>8, <2>5 DEF IdleIsQuiet, Quiet
  <2>10. HeardIsKept'
    <3> SUFFICES ASSUME early = {}, NEW i \in Places, CreateAns(answers', version', i),
                        answers'[i].op = "created", answers'[i].session \in heard \ retired
                 PROVE  answers'[i].session \in ended
      BY <1>1 DEF HeardIsKept
    <3>1. CASE CreateAns(answers, version, i)
      <4>1. answers'[i] = answers[i]
        BY <2>2, <3>1 DEF CreateAns
      <4> QED BY <1>0, <3>1, <4>1 DEF HeardIsKept
    <3>2. CASE i = n
      BY <1>10, <2>2, <3>2 DEF Served
    <3> QED BY <2>5, <3>1, <3>2
  <2> QED BY <1>2, <1>5, <1>7, <2>6, <2>7, <2>8, <2>9, <2>10 DEF EndInv, TalkInv
<1> QED BY <1>9, <1>10, ServeAnswers DEF req

(* The answers.  The one the store waits for comes when nothing else is on *)
(* its way: the tab has its session, or the error, and waits for nothing.  *)
LEMMA EndReceiveAnswer ==
  ASSUME EndInv, Typed', ReceiveAnswer
  PROVE  EndInv'
<1> DEFINE a == Head(answers)
<1>0. /\ Typed /\ BusyHasNone /\ TalkInv /\ EpochsPast /\ VersionsUsed /\ OneCreation
      /\ AgainIsFirst /\ IdleIsQuiet /\ EndedIsOver /\ HeardIsKept /\ EndIsNotForgotten
  BY DEF EndInv, TalkInv
<1>1. /\ answers \in Seq(GoodAnswers(created)) /\ answers # << >> /\ answers' = Tail(answers)
      /\ reloads' = reloads /\ UNCHANGED <<monitor, registered>>
      /\ ReceiveStale(a) \/ ReceiveCreated(a) \/ ReceiveFailure(a) \/ ReceiveClosed(a)
           \/ ReceiveList(a)
      /\ heard' = IF a.op = "listed" THEN heard \ {a.session} ELSE heard
      /\ early' = IF a.op = "listed" /\ runtime.busy
                    THEN early \cup {a.session} ELSE early
  BY <1>0 DEF ReceiveAnswer, Typed, MessagesTyped, native
<1>2. /\ DOMAIN answers = 1 .. Len(answers) /\ Len(answers) \in Nat \ {0}
      /\ a \in GoodAnswers(created)
      /\ DOMAIN answers' = 1 .. Len(answers) - 1
      /\ \A i \in 1 .. Len(answers) - 1 : answers'[i] = answers[i + 1]
  BY <1>1, TailAt
<1>3. /\ \A i \in Places : i + 1 \in Places
      /\ \A v : \A i \in Places : CreateAns(answers', v, i) <=> CreateAns(answers, v, i + 1)
      /\ \A i \in Places : AgainAns(answers', i) <=> AgainAns(answers, i + 1)
      /\ \A v : \A i \in Places : CreateAns(answers, v, i + 1) => answers'[i] = answers[i + 1]
      /\ \A v : CreateAns(answers, v, 1) <=>
           a.op \in {"created", "failed"} /\ a.version = v
      /\ AgainAns(answers, 1) <=> a.recreate
      /\ answers[1] = a
  <2> DEFINE w == Tail(answers)
             S == GoodAnswers(created)
  <2>1. answers \in Seq(S) /\ answers # << >>
    BY <1>1
  <2> HIDE DEF S
  <2>2. /\ \A i \in Places : i + 1 \in Places
        /\ \A v : \A i \in Places : CreateAns(w, v, i) <=> CreateAns(answers, v, i + 1)
        /\ \A i \in Places : AgainAns(w, i) <=> AgainAns(answers, i + 1)
        /\ \A v : \A i \in Places : CreateAns(answers, v, i + 1) => w[i] = answers[i + 1]
        /\ \A v : CreateAns(answers, v, 1) <=>
             a.op \in {"created", "failed"} /\ a.version = v
        /\ AgainAns(answers, 1) <=> a.recreate
        /\ answers[1] = a
    BY <2>1, FewerAnswers
  <2>3. w = answers'
    BY <1>1
  <2> HIDE DEF w
  <2> QED BY <2>2, <2>3
<1> HIDE DEF a
<1>4. /\ a.op = "created" => a.session # NoSession
      /\ a.recreate => a.op = "closed"
  BY <1>2 DEF GoodAnswers
<1>5. EndedIsOver'
  BY <1>0, <1>1 DEF EndedIsOver
<1>6. /\ 1 \in Places
      /\ \A i \in Places : i + 1 # 1 /\ ~(i < 1)
      /\ \A i, k \in Places : i + 1 = k + 1 => i = k
      /\ \A i, k \in Places : k + 1 < i + 1 => k < i
  BY DEF Places
<1>7. \A i \in DOMAIN answers' : answers'[i].version < nextVersion
  BY <1>0, <1>2 DEF VersionsUsed
<1>8. /\ runtime.session # NoSession => ~runtime.busy /\ runtime # NoRuntime
      /\ runtime = Starting => runtime.busy
  BY <1>0 DEF BusyHasNone, Starting, NoRuntime
(* What is left of the talk when an answer is taken from it.               *)
<1>9. ASSUME version' = version,
             \A i \in Places : /\ CreateReq(requests', version, reloads', i) <=>
                                    CreateReq(requests, version, reloads, i)
                               /\ AgainReq(requests', reloads', i) <=>
                                    AgainReq(requests, reloads, i)
      PROVE  /\ OneCreation'
             /\ early' = early => AgainIsFirst'
             /\ Quiet => Quiet'
  <2>1. OneCreation'
    BY <1>0, <1>3, <1>6, <1>9 DEF OneCreation
  <2>2. early' = early => AgainIsFirst'
    BY <1>0, <1>3, <1>6, <1>9 DEF AgainIsFirst
  <2>3. Quiet => Quiet'
    BY <1>3, <1>9 DEF Quiet
  <2> QED BY <2>1, <2>2, <2>3
<1>10. ASSUME UNCHANGED <<requests, version, nextVersion>>
       PROVE  EpochsPast' /\ VersionsUsed' /\ TalkInv'
              /\ (early' = early => AgainIsFirst') /\ (Quiet => Quiet')
  <2>1. EpochsPast' /\ VersionsUsed'
    BY <1>0, <1>1, <1>7, <1>10 DEF EpochsPast, VersionsUsed
  <2> QED BY <1>1, <1>9, <1>10, <2>1 DEF TalkInv
(* The answer the store waits for.                                         *)
<1>11. ASSUME a.op \in {"created", "failed"}, a.version = version, early = {},
              UNCHANGED <<requests, version>>
       PROVE  Quiet'
  <2>1. CreateAns(answers, version, 1)
    BY <1>3, <1>11
  <2>2. \A i \in Places : /\ ~CreateReq(requests, version, reloads, i)
                          /\ CreateAns(answers, version, i) => i = 1
    BY <1>0, <1>6, <2>1 DEF OneCreation
  <2>3. \A i \in Places : ~AgainReq(requests, reloads, i) /\ ~AgainAns(answers, i)
    BY <1>0, <1>6, <1>11, <2>1 DEF AgainIsFirst
  <2> QED BY <1>1, <1>3, <1>6, <1>11, <2>2, <2>3 DEF Quiet
<1>12. CASE ReceiveStale(a)
  <2>1. /\ UNCHANGED <<runtime, version, nextVersion, heard, early>> /\ a.op = "created"
        /\ \/ UNCHANGED <<retired, unclaimed, ended, requests>>
           \/ GiveUp(a.session, FALSE)
    BY <1>1, <1>12 DEF ReceiveStale
  <2>2. a.session \in 0 .. created /\ a.session # NoSession
    <3>1. a.session \in Nat
      BY <1>2, TerminalBounds DEF GoodAnswers, Answer, Sessions, NoSession
    <3>2. a.session <= created /\ created \in Nat
      BY <1>0, <1>2 DEF GoodAnswers, Typed, ExitInv, FreshIsUnwatched
    <3> QED BY <1>4, <2>1, <3>1, <3>2
  <2>3. /\ EpochsPast' /\ VersionsUsed' /\ OneCreation' /\ AgainIsFirst'
        /\ Quiet => Quiet'
    <3>1. CASE requests' = requests
      BY <1>10, <2>1, <3>1 DEF TalkInv
    <3>2. CASE GiveUp(a.session, FALSE)
      <4>1. requests' = Append(requests, Call("close", a.session, 0, FALSE))
        BY <3>2 DEF GiveUp
      <4>2. /\ EpochsPast'
            /\ \A i \in DOMAIN requests' :
                 requests'[i].epoch = reloads' => requests'[i].version < nextVersion'
            /\ \A i \in Places : CreateReq(requests', version, reloads', i) <=>
                                   CreateReq(requests, version, reloads, i)
            /\ \A i \in Places : AgainReq(requests', reloads', i) <=>
                                   AgainReq(requests, reloads, i)
        BY <1>0, <1>1, <2>1, <2>2, <4>1, CallTalk
      <4>3. VersionsUsed'
        BY <1>7, <2>1, <4>2 DEF VersionsUsed
      <4> QED BY <1>9, <2>1, <4>2, <4>3
    <3> QED BY <2>1, <3>1, <3>2
  <2>4. /\ retired \subseteq retired'
        /\ \/ ended' = ended
           \/ ended' = ended \ {a.session} /\ a.session \in retired'
    BY <2>1 DEF GiveUp
  <2>5. HeardIsKept'
    BY <1>0, <1>3, <2>1, <2>4 DEF HeardIsKept
  <2>6. BusyHasNone' /\ EndIsNotForgotten' /\ IdleIsQuiet'
    BY <1>0, <2>1, <2>3, <2>4 DEF BusyHasNone, EndIsNotForgotten, IdleIsQuiet
  <2> QED BY <1>5, <2>3, <2>5, <2>6 DEF EndInv, TalkInv
<1>13. CASE ReceiveCreated(a)
  <2>1. /\ a.op = "created" /\ runtime # NoRuntime /\ version = a.version
        /\ runtime' = [session |-> a.session, busy |-> FALSE,
                       status |-> IF a.session \in ended THEN "exited" ELSE a.status]
        /\ UNCHANGED <<retired, version, nextVersion, requests, heard, early>>
    BY <1>1, <1>13 DEF ReceiveCreated
  <2>2. early = {} => Quiet'
    BY <1>11, <2>1
  <2>3. /\ runtime'.session = a.session /\ ~runtime'.busy
        /\ a.session \in ended => runtime'.status = "exited"
        /\ a.session # NoSession
    BY <1>4, <2>1
  <2>4. BusyHasNone' /\ IdleIsQuiet' /\ HeardIsKept'
    BY <2>1, <2>2, <2>3 DEF BusyHasNone, IdleIsQuiet, HeardIsKept, Quiet
  <2>5. EndIsNotForgotten'
    <3>1. CreateAns(answers, version, 1)
      BY <1>3, <2>1
    <3>2. early = {} /\ a.session \in heard \ retired => a.session \in ended
      BY <1>0, <1>3, <1>6, <2>1, <3>1 DEF HeardIsKept
    <3> QED BY <2>1, <2>3, <3>2 DEF EndIsNotForgotten
  <2> QED BY <1>5, <1>10, <2>1, <2>4, <2>5 DEF EndInv
<1>14. CASE ReceiveFailure(a)
  <2>1. /\ a.op = "failed"
        /\ UNCHANGED <<retired, ended, version, nextVersion, requests, heard, early>>
    BY <1>1, <1>14 DEF ReceiveFailure
  <2>2. HeardIsKept'
    BY <1>0, <1>3, <2>1 DEF HeardIsKept
  <2>3. CASE runtime' = runtime
    <3>1. BusyHasNone' /\ EndIsNotForgotten' /\ IdleIsQuiet'
      BY <1>0, <1>10, <2>1, <2>3 DEF BusyHasNone, EndIsNotForgotten, IdleIsQuiet
    <3> QED BY <1>5, <1>10, <2>1, <2>2, <3>1 DEF EndInv
  <2>4. CASE /\ runtime # NoRuntime /\ version = a.version
             /\ runtime' = [runtime EXCEPT !.busy = FALSE, !.status = "error"]
    <3>1. /\ runtime'.session = runtime.session /\ ~runtime'.busy
          /\ runtime'.status = "error"
      <4>1. runtime \in [session : 0 .. created, busy : BOOLEAN,
                         status : Statuses \cup {"none"}]
        BY <1>0 DEF Typed, StoreTyped
      <4> QED BY <2>4, <4>1
    <3>2. early = {} => Quiet'
      BY <1>11, <2>1, <2>4
    <3>3. CreateAns(answers, version, 1)
      BY <1>3, <2>1, <2>4
    <3>4. early = {} => runtime.session = NoSession
      BY <1>0, <1>6, <1>8, <2>4, <3>3 DEF IdleIsQuiet, Quiet
    <3>5. NoSession \notin heard
      BY <1>0 DEF Typed, HistoryTyped, NoSession
    <3>6. BusyHasNone' /\ IdleIsQuiet' /\ EndIsNotForgotten'
      BY <2>1, <3>1, <3>2, <3>4, <3>5 DEF BusyHasNone, IdleIsQuiet, EndIsNotForgotten
    <3> QED BY <1>5, <1>10, <2>1, <2>2, <3>6 DEF EndInv
  <2> QED BY <1>14, <2>3, <2>4 DEF ReceiveFailure
<1>15. CASE ReceiveClosed(a)
  <2>1. /\ a.op = "closed" /\ UNCHANGED <<runtime, retired, ended, heard, early>>
        /\ \/ a.recreate /\ AskForSession
           \/ UNCHANGED <<version, nextVersion, requests>>
    BY <1>1, <1>15 DEF ReceiveClosed
  <2>2. BusyHasNone' /\ EndIsNotForgotten'
    BY <1>0, <2>1 DEF BusyHasNone, EndIsNotForgotten
  <2>3. CASE a.recreate /\ AskForSession
    <3>1. TalkInv' /\ AgainIsFirst' /\ HeardIsKept'
      BY <1>0, <1>1, <2>3, AskTalk
    <3>2. AgainAns(answers, 1)
      BY <1>3, <2>3
    <3>3. IdleIsQuiet'
      BY <1>0, <1>6, <2>1, <3>2 DEF IdleIsQuiet, Quiet
    <3> QED BY <1>5, <2>2, <3>1, <3>3 DEF EndInv
  <2>4. CASE UNCHANGED <<version, nextVersion, requests>>
    <3>1. HeardIsKept'
      BY <1>0, <1>3, <2>1, <2>4 DEF HeardIsKept
    <3>2. IdleIsQuiet'
      BY <1>0, <1>10, <2>1, <2>4 DEF IdleIsQuiet
    <3> QED BY <1>5, <1>10, <2>1, <2>2, <2>4, <3>1, <3>2 DEF EndInv
  <2> QED BY <2>1, <2>3, <2>4
<1>16. CASE ReceiveList(a)
  <2>1. /\ a.op = "listed" /\ heard' = heard \ {a.session}
        /\ UNCHANGED <<retired, ended, version, nextVersion, requests>>
        /\ early' = IF runtime.busy THEN early \cup {a.session} ELSE early
        /\ \/ runtime' = runtime
           \/ /\ runtime # NoRuntime /\ a.session # NoSession
              /\ runtime' = [session |-> a.session, busy |-> FALSE, status |-> a.status]
    BY <1>1, <1>16 DEF ReceiveList
  <2>2. early' = {} => early = {} /\ ~runtime.busy
    BY <2>1
  <2>3. HeardIsKept'
    BY <1>0, <1>3, <2>1, <2>2 DEF HeardIsKept
  <2>4. AgainIsFirst'
    <3>1. CASE early' = early
      BY <1>10, <2>1, <3>1
    <3>2. CASE early' # {}
      BY <3>2 DEF AgainIsFirst
    <3> QED BY <2>1, <3>1, <3>2
  <2>5. CASE runtime' = runtime
    <3>1. BusyHasNone' /\ EndIsNotForgotten' /\ IdleIsQuiet'
      BY <1>0, <1>10, <2>1, <2>2, <2>5 DEF BusyHasNone, EndIsNotForgotten, IdleIsQuiet
    <3> QED BY <1>5, <1>10, <2>1, <2>3, <2>4, <3>1 DEF EndInv
  <2>6. CASE /\ runtime # NoRuntime /\ a.session # NoSession
             /\ runtime' = [session |-> a.session, busy |-> FALSE, status |-> a.status]
    <3>1. runtime'.session = a.session /\ ~runtime'.busy
      BY <2>6
    <3>2. BusyHasNone' /\ EndIsNotForgotten'
      BY <2>1, <2>6, <3>1 DEF BusyHasNone, EndIsNotForgotten
    <3>3. IdleIsQuiet'
      BY <1>0, <1>10, <2>1, <2>2, <2>6 DEF IdleIsQuiet
    <3> QED BY <1>5, <1>10, <2>1, <2>3, <2>4, <3>2, <3>3 DEF EndInv
  <2> QED BY <2>1, <2>5, <2>6
<1> QED BY <1>1, <1>12, <1>13, <1>14, <1>15, <1>16

LEMMA InitEnd == Init => EndInv
<1> SUFFICES ASSUME Init PROVE EndInv
  OBVIOUS
<1>1. Typed
  BY InitTyped
<1>2. /\ requests = << >> /\ answers = << >> /\ runtime = NoRuntime /\ heard = {}
      /\ registered = {} /\ early = {}
  BY DEF Init
<1>3. BusyHasNone /\ EndIsNotForgotten /\ IdleIsQuiet /\ EndedIsOver
  BY <1>2 DEF BusyHasNone, EndIsNotForgotten, IdleIsQuiet, EndedIsOver, NoRuntime
<1>4. EpochsPast /\ VersionsUsed
  BY <1>2 DEF EpochsPast, VersionsUsed
<1>5. \A i \in Places : /\ ~CreateReq(requests, version, reloads, i)
                        /\ ~CreateAns(answers, version, i)
  BY <1>2 DEF CreateReq, CreateAns
<1>6. OneCreation /\ AgainIsFirst /\ HeardIsKept
  BY <1>5 DEF OneCreation, AgainIsFirst, HeardIsKept
<1> QED BY <1>1, <1>3, <1>4, <1>6 DEF EndInv, TalkInv

LEMMA NextEnd == EndInv /\ [Next]_vars => EndInv'
<1> SUFFICES ASSUME EndInv, [Next]_vars PROVE EndInv'
  OBVIOUS
<1>1. Typed'
  BY NextTyped DEF EndInv
<1>2. CASE UNCHANGED vars
  <2>1. /\ UNCHANGED <<requests, answers, version, nextVersion, reloads, runtime, retired,
                       ended, heard, early>>
        /\ UNCHANGED <<registered, monitor>>
    BY <1>2 DEF vars, native, store
  <2>2. EndedIsOver'
    BY <2>1 DEF EndInv, EndedIsOver
  <2> QED BY <1>1, <2>1, <2>2, EndCalm
<1> QED BY <1>1, <1>2, EndSurface, EndServe, EndReceiveAnswer, EndThreads, EndReceive DEF Next

(* A tab does not show a session as running once the store was told of its *)
(* end: the exit that overtakes the answer of the creation is kept for it, *)
(* and no other answer can bring that session back, unless a list gave the *)
(* tab a session while it awaited a creation (createSessionForTerminal,    *)
(* handleTerminalExited, restartTerminal, resyncSessions).                 *)
THEOREM EndIsKept == Spec => []EndIsNotForgotten
<1>1. EndInv => EndIsNotForgotten
  BY DEF EndInv
<1> QED BY <1>1, InitEnd, NextEnd, PTL DEF Spec

-----------------------------------------------------------------------------
(* What a viewport shows.  A session's output is a line: what is on its    *)
(* way (the events, what the coalescer holds, the chunk in the reader's    *)
(* hand) is what was taken last, in order; everything before it came to    *)
(* the store, which has shown it, holds it back, or has lost it.           *)

Marks == Chunks \cup {Exit}
ChunksOf(q) == ToSet(q) \ {Exit}
Rising(q) == \A i, k \in DOMAIN q : i < k /\ q[i] # Exit /\ q[k] # Exit => q[i] < q[k]

LEMMA MarksAreNumbers == /\ Exit \in Nat /\ Exit \notin Chunks
                         /\ \A m \in Marks : m \in Nat /\ (m # Exit <=> m \in Chunks)
BY TerminalBounds DEF Marks, Chunks, Exit

LEMMA ToSetAt ==
  ASSUME NEW S, NEW q \in Seq(S)
  PROVE  /\ ToSet(q) \subseteq S
         /\ ToSet(q) = {q[i] : i \in 1 .. Len(q)}
         /\ ToSet(<< >>) = {}
<1>1. DOMAIN q = 1 .. Len(q) /\ \A i \in 1 .. Len(q) : q[i] \in S
  OBVIOUS
<1>2. DOMAIN << >> = {}
  OBVIOUS
<1> QED BY <1>1, <1>2 DEF ToSet

LEMMA RisingAppend ==
  ASSUME NEW q \in Seq(Marks), NEW m \in Marks, Rising(q),
         m # Exit => \A c \in ChunksOf(q) : c < m
  PROVE  /\ Append(q, m) \in Seq(Marks)
         /\ Rising(Append(q, m))
         /\ ChunksOf(Append(q, m)) = ChunksOf(q) \cup ({m} \ {Exit})
<1> DEFINE w == Append(q, m)
<1>1. /\ Len(q) \in Nat /\ DOMAIN q = 1 .. Len(q) /\ DOMAIN w = 1 .. Len(q) + 1
      /\ w \in Seq(Marks)
      /\ \A i \in 1 .. Len(q) : w[i] = q[i]
      /\ w[Len(q) + 1] = m
  BY AppendAt
<1> HIDE DEF w
<1>2. ToSet(w) = ToSet(q) \cup {m}
  <2>1. \A i \in DOMAIN w : w[i] \in ToSet(q) \cup {m}
    BY <1>1 DEF ToSet
  <2>2. \A i \in DOMAIN q : q[i] \in ToSet(w)
    BY <1>1 DEF ToSet
  <2>3. m \in ToSet(w)
    <3>1. Len(q) + 1 \in DOMAIN w
      BY <1>1
    <3> QED BY <1>1, <3>1 DEF ToSet
  <2> QED BY <2>1, <2>2, <2>3 DEF ToSet
<1>3. Rising(w)
  <2> SUFFICES ASSUME NEW i \in DOMAIN w, NEW k \in DOMAIN w, i < k, w[i] # Exit, w[k] # Exit
               PROVE  w[i] < w[k]
    BY DEF Rising
  <2>1. i \in 1 .. Len(q) /\ w[i] = q[i] /\ q[i] \in ChunksOf(q)
    <3>1. i \in 1 .. Len(q)
      BY <1>1
    <3> QED BY <1>1, <3>1 DEF ChunksOf, ToSet
  <2>2. CASE k \in 1 .. Len(q)
    BY <1>1, <2>1, <2>2 DEF Rising
  <2>3. CASE k = Len(q) + 1
    BY <1>1, <2>1, <2>3
  <2> QED BY <1>1, <2>2, <2>3
<1> QED BY <1>1, <1>2, <1>3 DEF ChunksOf, w

LEMMA RisingTail ==
  ASSUME NEW q \in Seq(Marks), q # << >>, Rising(q)
  PROVE  /\ Tail(q) \in Seq(Marks)
         /\ Rising(Tail(q))
         /\ Head(q) = Exit => ChunksOf(Tail(q)) = ChunksOf(q)
         /\ Head(q) # Exit => /\ ChunksOf(Tail(q)) = ChunksOf(q) \ {Head(q)}
                              /\ Head(q) \in ChunksOf(q)
                              /\ \A c \in ChunksOf(q) : Head(q) <= c
<1> DEFINE w == Tail(q)
           h == Head(q)
<1>1. /\ Len(q) \in Nat \ {0} /\ DOMAIN q = 1 .. Len(q) /\ DOMAIN w = 1 .. Len(q) - 1
      /\ h = q[1] /\ w \in Seq(Marks)
      /\ \A i \in 1 .. Len(q) - 1 : w[i] = q[i + 1]
      /\ \A i \in 1 .. Len(q) : q[i] \in Nat
  <2>1. \A i \in 1 .. Len(q) : q[i] \in Marks
    OBVIOUS
  <2> QED BY <2>1, TailAt, MarksAreNumbers
<1> HIDE DEF w, h
<1>2. ToSet(q) = ToSet(w) \cup {h}
  <2>1. \A i \in DOMAIN w : i + 1 \in DOMAIN q /\ w[i] = q[i + 1]
    BY <1>1
  <2>2. \A i \in DOMAIN q : i = 1 \/ (i - 1 \in DOMAIN w /\ w[i - 1] = q[i])
    BY <1>1
  <2>3. 1 \in DOMAIN q
    BY <1>1
  <2>4. \A i \in DOMAIN q : q[i] \in ToSet(w) \cup {h}
    <3> SUFFICES ASSUME NEW i \in DOMAIN q PROVE q[i] \in ToSet(w) \cup {h}
      OBVIOUS
    <3>1. CASE i = 1
      BY <1>1, <3>1
    <3>2. CASE i - 1 \in DOMAIN w /\ w[i - 1] = q[i]
      <4> DEFINE k == i - 1
      <4>1. k \in DOMAIN w /\ w[k] = q[i]
        BY <3>2
      <4> HIDE DEF k
      <4> QED BY <4>1 DEF ToSet
    <3> QED BY <2>2, <3>1, <3>2
  <2>5. \A i \in DOMAIN w : w[i] \in ToSet(q)
    BY <2>1 DEF ToSet
  <2>6. h \in ToSet(q)
    BY <1>1, <2>3 DEF ToSet
  <2> QED BY <2>4, <2>5, <2>6 DEF ToSet
<1>3. Rising(w)
  <2> SUFFICES ASSUME NEW i \in DOMAIN w, NEW k \in DOMAIN w, i < k, w[i] # Exit, w[k] # Exit
               PROVE  w[i] < w[k]
    BY DEF Rising
  <2>1. /\ i + 1 \in DOMAIN q /\ k + 1 \in DOMAIN q /\ i + 1 < k + 1
        /\ w[i] = q[i + 1] /\ w[k] = q[k + 1]
    BY <1>1
  <2> QED BY <2>1 DEF Rising
<1>4. \A c \in ToSet(w) : c # Exit /\ h # Exit => h < c
  <2> SUFFICES ASSUME NEW i \in DOMAIN w, w[i] # Exit, h # Exit PROVE h < w[i]
    BY DEF ToSet
  <2>1. /\ i + 1 \in DOMAIN q /\ 1 \in DOMAIN q /\ 1 < i + 1 /\ w[i] = q[i + 1]
    BY <1>1
  <2> QED BY <1>1, <2>1 DEF Rising
<1>5. h \in Nat /\ \A c \in ToSet(w) : c \in Nat
  <2>1. 1 \in 1 .. Len(q)
    BY <1>1
  <2> QED BY <1>1, <2>1 DEF ToSet
<1>6. h # Exit => h \notin ToSet(w)
  BY <1>4, <1>5
<1>7. h = Exit => ChunksOf(w) = ChunksOf(q)
  BY <1>2 DEF ChunksOf
<1>8. h # Exit => ChunksOf(w) = ChunksOf(q) \ {h} /\ h \in ChunksOf(q)
  BY <1>2, <1>6 DEF ChunksOf
<1>9. h # Exit => \A c \in ChunksOf(q) : h <= c
  BY <1>2, <1>4, <1>5 DEF ChunksOf
<1> QED BY <1>1, <1>3, <1>7, <1>8, <1>9 DEF w, h

(* The line of a session: its events, and behind them what the coalescer   *)
(* holds.                                                                  *)
LEMMA LineAt ==
  ASSUME NEW e \in Seq(Marks), NEW p \in Seq(Marks), NEW m \in Marks
  PROVE  /\ e \o p \in Seq(Marks)
         /\ (e \o p) \o << >> = e \o p
         /\ e \o Append(p, m) = Append(e \o p, m)
         /\ ((e \o p) \o <<m>>) \o << >> = Append(e \o p, m)
         /\ e # << >> => /\ Tail(e) \o p = Tail(e \o p)
                         /\ Head(e \o p) = Head(e)
                         /\ e \o p # << >>
<1>1. e \o p \in Seq(Marks) /\ <<m>> \in Seq(Marks) /\ (e \o p) \o <<m>> \in Seq(Marks)
  <2>1. e \o p \in Seq(Marks)
    BY ConcatProperties
  <2>2. <<m>> \in Seq(Marks)
    OBVIOUS
  <2> QED BY <2>1, <2>2, ConcatProperties
<1>2. (e \o p) \o << >> = e \o p
  BY <1>1, ConcatEmptySeq
<1>3. e \o Append(p, m) = Append(e \o p, m)
  <2>1. Append(p, m) = p \o <<m>> /\ Append(e \o p, m) = (e \o p) \o <<m>>
    BY <1>1, AppendIsConcat
  <2>2. (e \o p) \o <<m>> = e \o (p \o <<m>>)
    BY <1>1, ConcatAssociative
  <2> QED BY <2>1, <2>2
<1>4. ((e \o p) \o <<m>>) \o << >> = Append(e \o p, m)
  <2>1. ((e \o p) \o <<m>>) \o << >> = (e \o p) \o <<m>>
    BY <1>1, ConcatEmptySeq
  <2>2. Append(e \o p, m) = (e \o p) \o <<m>>
    BY <1>1, AppendIsConcat
  <2> QED BY <2>1, <2>2
<1>5. ASSUME e # << >>
      PROVE  Tail(e) \o p = Tail(e \o p) /\ Head(e \o p) = Head(e) /\ e \o p # << >>
  <2> DEFINE l == e \o p
             t == Tail(e)
             u == Tail(l)
             v == t \o p
  <2>1. /\ Len(e) \in Nat \ {0} /\ t \in Seq(Marks) /\ Len(t) = Len(e) - 1
        /\ Head(e) = e[1] /\ \A i \in 1 .. Len(e) - 1 : t[i] = e[i + 1]
    BY <1>5, TailAt
  <2>2. /\ l \in Seq(Marks) /\ Len(p) \in Nat /\ Len(l) = Len(e) + Len(p)
        /\ \A i \in 1 .. Len(e) : l[i] = e[i]
        /\ \A i \in 1 .. Len(p) : l[Len(e) + i] = p[i]
    BY ConcatAt
  <2> HIDE DEF l, t
  <2>3. l # << >> /\ l[1] = e[1]
    BY <2>1, <2>2
  <2>4. /\ u \in Seq(Marks) /\ Len(u) = Len(l) - 1 /\ Head(l) = l[1]
        /\ \A i \in 1 .. Len(l) - 1 : u[i] = l[i + 1]
    BY <2>2, <2>3, TailAt
  <2>5. /\ v \in Seq(Marks) /\ Len(v) = Len(t) + Len(p)
        /\ \A i \in 1 .. Len(t) : v[i] = t[i]
        /\ \A i \in 1 .. Len(p) : v[Len(t) + i] = p[i]
    <3>1. t \in Seq(Marks) /\ p \in Seq(Marks)
      BY <2>1
    <3> QED BY <3>1, ConcatAt
  <2> HIDE DEF u, v
  <2>6. Len(u) = Len(v)
    BY <2>1, <2>2, <2>4, <2>5
  <2>7. ASSUME NEW i \in 1 .. Len(u) PROVE u[i] = v[i]
    <3>1. CASE i \in 1 .. Len(e) - 1
      <4>1. u[i] = l[i + 1] /\ l[i + 1] = e[i + 1]
        BY <2>1, <2>2, <2>4, <3>1
      <4>2. v[i] = t[i] /\ t[i] = e[i + 1]
        BY <2>1, <2>5, <3>1
      <4> QED BY <4>1, <4>2
    <3>2. CASE i \notin 1 .. Len(e) - 1
      <4> DEFINE k == i - Len(t)
      <4>1. k \in 1 .. Len(p) /\ i = Len(t) + k /\ i + 1 = Len(e) + k
        BY <2>1, <2>2, <2>4, <3>2
      <4>2. u[i] = l[i + 1]
        BY <2>1, <2>2, <2>4
      <4> HIDE DEF k
      <4>3. l[i + 1] = p[k] /\ v[i] = p[k]
        BY <2>2, <2>5, <4>1
      <4> QED BY <4>2, <4>3
    <3> QED BY <3>1, <3>2
  <2>8. u = v
    BY <2>4, <2>5, <2>6, <2>7, SeqEqual
  <2> QED BY <2>3, <2>4, <2>8 DEF l, t, u, v
<1> QED BY <1>1, <1>2, <1>3, <1>4, <1>5

(* A list names a session the store may not have heard of; the answer of   *)
(* its creation is then ahead of the list.                                 *)

(* At place i a list names the session s, or would if it were served now.  *)
Names(i, s) ==
  \/ i \in DOMAIN answers /\ answers[i].op = "listed" /\ answers[i].session = s
  \/ i = Len(answers) + 1 /\ s \in registered

CreatedBefore(k, i, s) ==
  \E m \in DOMAIN answers :
    k < m /\ m < i /\ answers[m].op = "created" /\ answers[m].session = s

(* An answer after which the tab is not busy.                              *)
Settles(a) == \/ a.op \in {"created", "failed"}
              \/ a.op = "listed" /\ a.session # NoSession

NewAreAnnounced ==
  \A s \in Sessions, i \in Places :
    Names(i, s) =>
      /\ \A k \in DOMAIN answers :
           k < i /\ Settles(answers[k]) =>
             answers[k].session = s \/ CreatedBefore(k, i, s)
      /\ runtime # NoRuntime /\ ~runtime.busy =>
           runtime.session = s \/ s \in retired \/ CreatedBefore(0, i, s)

(* The requests of a surface that is gone are served first; until then the *)
(* store has had no answer.                                                *)
EpochsInOrder ==
  /\ \A i, k \in DOMAIN requests : i < k => requests[i].epoch <= requests[k].epoch
  /\ \A i \in DOMAIN requests :
       requests[i].epoch # reloads => answers = << >> /\ runtime \in {NoRuntime, Starting}

NamesInv == OneSessionPerTerminal /\ NewAreAnnounced /\ EpochsInOrder

(* The tab does not become idle with another session.                      *)
NotSettled ==
  \/ runtime' = NoRuntime
  \/ runtime'.busy
  \/ runtime # NoRuntime /\ ~runtime.busy /\ runtime'.session = runtime.session

LEMMA NamesCalm ==
  ASSUME NewAreAnnounced, answers' = answers, registered' \subseteq registered,
         retired \subseteq retired', NotSettled
  PROVE  NewAreAnnounced'
<1> SUFFICES ASSUME NEW s \in Sessions, NEW i \in Places, Names(i, s)'
             PROVE  /\ \A k \in DOMAIN answers :
                         k < i /\ Settles(answers[k]) =>
                           answers[k].session = s \/ CreatedBefore(k, i, s)'
                    /\ runtime' # NoRuntime /\ ~runtime'.busy =>
                         \/ runtime'.session = s \/ s \in retired'
                         \/ CreatedBefore(0, i, s)'
  BY DEF NewAreAnnounced
<1>1. Names(i, s)
  BY DEF Names
<1>2. \A k : CreatedBefore(k, i, s) => CreatedBefore(k, i, s)'
  BY DEF CreatedBefore
<1> QED BY <1>1, <1>2 DEF NewAreAnnounced, NotSettled

LEMMA NamesAppended ==
  ASSUME Typed, NewAreAnnounced, UNCHANGED <<runtime, retired>>,
         NEW a, answers' = Append(answers, a),
         \A s \in Sessions :
           /\ s \in registered' => s \in registered \/ (a.op = "created" /\ a.session = s)
           /\ s \in registered' /\ Settles(a) => a.session = s
           /\ a.op = "listed" /\ a.session = s => s \in registered
  PROVE  NewAreAnnounced'
<1> DEFINE n == Len(answers) + 1
           S == GoodAnswers(created) \cup {a}
<1>1. /\ Len(answers) \in Nat /\ DOMAIN answers = 1 .. Len(answers)
      /\ Len(answers') = n /\ DOMAIN answers' = 1 .. n
      /\ \A i \in 1 .. Len(answers) : answers'[i] = answers[i]
      /\ answers'[n] = a
  <2>1. answers \in Seq(S) /\ a \in S
    BY SeqOfMore DEF Typed, MessagesTyped
  <2> HIDE DEF S
  <2> QED BY <2>1, AppendAt
<1> SUFFICES ASSUME NEW s \in Sessions, NEW i \in Places, Names(i, s)'
             PROVE  /\ \A k \in DOMAIN answers' :
                         k < i /\ Settles(answers'[k]) =>
                           answers'[k].session = s \/ CreatedBefore(k, i, s)'
                    /\ runtime' # NoRuntime /\ ~runtime'.busy =>
                         \/ runtime'.session = s \/ s \in retired'
                         \/ CreatedBefore(0, i, s)'
  BY DEF NewAreAnnounced
<1>2. ASSUME NEW k \in Nat, NEW j \in Places, j <= i, CreatedBefore(k, j, s)
      PROVE  CreatedBefore(k, i, s)'
  <2>1. PICK m \in DOMAIN answers :
          k < m /\ m < j /\ answers[m].op = "created" /\ answers[m].session = s
    BY <1>2 DEF CreatedBefore
  <2>2. m \in DOMAIN answers' /\ answers'[m] = answers[m] /\ m < i
    BY <1>1, <1>2, <2>1 DEF Places
  <2> QED BY <2>1, <2>2 DEF CreatedBefore
<1>3. ASSUME NEW j \in Places, j <= i, j <= n, Names(j, s)
      PROVE  /\ \A k \in DOMAIN answers' :
                  k < j /\ Settles(answers'[k]) =>
                    answers'[k].session = s \/ CreatedBefore(k, i, s)'
             /\ runtime' # NoRuntime /\ ~runtime'.busy =>
                  runtime'.session = s \/ s \in retired' \/ CreatedBefore(0, i, s)'
  <2>1. ASSUME NEW k \in DOMAIN answers', k < j, Settles(answers'[k])
        PROVE  answers'[k].session = s \/ CreatedBefore(k, i, s)'
    <3>1. k \in DOMAIN answers /\ answers'[k] = answers[k] /\ k \in Nat
      BY <1>1, <1>3, <2>1 DEF Places
    <3>2. answers[k].session = s \/ CreatedBefore(k, j, s)
      BY <1>3, <2>1, <3>1 DEF NewAreAnnounced
    <3> QED BY <1>2, <1>3, <3>1, <3>2
  <2>2. runtime' # NoRuntime /\ ~runtime'.busy =>
          runtime'.session = s \/ s \in retired' \/ CreatedBefore(0, j, s)
    BY <1>3 DEF NewAreAnnounced
  <2> QED BY <1>2, <1>3, <2>1, <2>2
<1>4. CASE i \in 1 .. Len(answers)
  <2>1. i \in DOMAIN answers /\ answers'[i] = answers[i] /\ i # Len(answers') + 1 /\ i <= n
    BY <1>1, <1>4
  <2>2. Names(i, s)
    BY <2>1 DEF Names
  <2> QED BY <1>3, <2>1, <2>2 DEF Places
<1>5. CASE i = n
  <2>1. a.op = "listed" /\ a.session = s
    BY <1>1, <1>5 DEF Names
  <2>2. Names(n, s)
    BY <2>1 DEF Names
  <2> QED BY <1>1, <1>3, <1>5, <2>2 DEF Places
<1>6. CASE i = n + 1
  <2>1. s \in registered'
    BY <1>1, <1>6 DEF Names
  <2>2. n \in Places /\ n <= i /\ n \in DOMAIN answers' /\ n < i
    BY <1>1, <1>6 DEF Places
  <2>3. \A k \in DOMAIN answers' : k < n \/ k = n
    BY <1>1
  <2>4. CASE s \in registered
    <3>1. Names(n, s)
      BY <2>4 DEF Names
    <3>2. /\ \A k \in DOMAIN answers' :
               k < n /\ Settles(answers'[k]) =>
                 answers'[k].session = s \/ CreatedBefore(k, i, s)'
          /\ runtime' # NoRuntime /\ ~runtime'.busy =>
               runtime'.session = s \/ s \in retired' \/ CreatedBefore(0, i, s)'
      BY <1>1, <1>3, <2>2, <3>1
    <3> QED BY <1>1, <2>1, <2>3, <3>2
  <2>5. CASE a.op = "created" /\ a.session = s
    <3>1. \A k \in Nat : k < n => CreatedBefore(k, i, s)'
      BY <1>1, <2>2, <2>5 DEF CreatedBefore
    <3>2. \A k \in DOMAIN answers' : k \in Nat
      BY <1>1
    <3>3. 0 < n
      BY <1>1
    <3> QED BY <1>1, <2>3, <2>5, <3>1, <3>2, <3>3
  <2> QED BY <2>1, <2>4, <2>5
<1> QED BY <1>1, <1>4, <1>5, <1>6 DEF Names

LEMMA NamesServe ==
  ASSUME EndInv, NamesInv, Serve
  PROVE  NewAreAnnounced' /\ EpochsInOrder'
<1> DEFINE req == Head(requests)
<1>0. /\ Typed /\ NewAreAnnounced /\ EpochsInOrder /\ OneSessionPerTerminal /\ EpochsPast
      /\ requests \in Seq(GoodRequests(created)) /\ registered \subseteq 1 .. created
      /\ reloads \in Nat
  BY DEF EndInv, TalkInv, Typed, NamesInv, MessagesTyped, NativeTyped, SurfaceTyped
<1>1. /\ requests # << >> /\ requests' = Tail(requests)
      /\ UNCHANGED <<reloads, runtime, retired>>
  BY DEF Serve, store
<1>2. /\ Len(requests) \in Nat \ {0} /\ DOMAIN requests = 1 .. Len(requests)
      /\ req = requests[1] /\ DOMAIN requests' = 1 .. Len(requests) - 1
      /\ \A i \in 1 .. Len(requests) - 1 : requests'[i] = requests[i + 1]
      /\ \A i \in DOMAIN requests : requests[i].epoch \in Nat
  <2>1. \A i \in DOMAIN requests : requests[i] \in GoodRequests(created)
    BY <1>0
  <2>2. \A i \in DOMAIN requests : requests[i].epoch \in Nat
    BY <2>1, TerminalBounds DEF GoodRequests, Request
  <2> QED BY <1>0, <1>1, <2>2, TailAt
<1> HIDE DEF req
<1>3. CASE req.epoch # reloads
  <2>1. answers = << >> /\ runtime \in {NoRuntime, Starting}
    BY <1>0, <1>2, <1>3 DEF EpochsInOrder
  <2>2. answers' = answers
    <3>1. \E op, s, st : Reply(op, s, req, st)
      BY DEF Serve, ServeReuse, ServeCreate, ServeFailure, ServeClose, ServeList, req
    <3> QED BY <1>3, <3>1 DEF Reply
  <2>3. NewAreAnnounced'
    <3>1. DOMAIN answers' = {} /\ (runtime' = NoRuntime \/ runtime'.busy)
      BY <1>1, <2>1, <2>2 DEF Starting
    <3> QED BY <3>1 DEF NewAreAnnounced
  <2>4. EpochsInOrder'
    BY <1>0, <1>1, <1>2, <2>1, <2>2 DEF EpochsInOrder
  <2> QED BY <2>3, <2>4
<1>4. CASE req.epoch = reloads
  <2>1. \A i \in DOMAIN requests : requests[i].epoch = reloads
    <3> SUFFICES ASSUME NEW i \in DOMAIN requests PROVE requests[i].epoch = reloads
      OBVIOUS
    <3>1. 1 \in DOMAIN requests /\ (i = 1 \/ 1 < i)
      BY <1>2
    <3>2. requests[1].epoch <= requests[i].epoch /\ requests[i].epoch <= reloads
      BY <1>0, <1>2, <3>1 DEF EpochsInOrder, EpochsPast
    <3> QED BY <1>0, <1>2, <1>4, <3>2
  <2>2. EpochsInOrder'
    <3>1. \A i \in DOMAIN requests' : requests'[i].epoch = reloads'
      BY <1>1, <1>2, <2>1
    <3> QED BY <1>0, <1>1, <3>1 DEF EpochsInOrder
  <2>3. ASSUME NEW op, NEW t, NEW st, Reply(op, t, req, st),
               \A s \in Sessions :
                 /\ s \in registered' => s \in registered \/ (op = "created" /\ t = s)
                 /\ s \in registered' /\ op \in {"created", "failed", "listed"}
                      /\ (op = "listed" => t # NoSession) => t = s
                 /\ op = "listed" /\ t = s => s \in registered
        PROVE  NewAreAnnounced'
    <3> DEFINE a == [op |-> op, session |-> t, version |-> req.version,
                     recreate |-> req.recreate, status |-> st]
    <3>1. answers' = Append(answers, a)
      BY <1>4, <2>3 DEF Reply
    <3>2. a.op = op /\ a.session = t
      OBVIOUS
    <3> HIDE DEF a
    <3>3. \A s \in Sessions :
            /\ s \in registered' => s \in registered \/ (a.op = "created" /\ a.session = s)
            /\ s \in registered' /\ Settles(a) => a.session = s
            /\ a.op = "listed" /\ a.session = s => s \in registered
      BY <2>3, <3>2 DEF Settles
    <3> QED BY <1>0, <1>1, <3>1, <3>3, NamesAppended
  <2>4. NoSession \notin Sessions /\ \A s \in registered : s = owner
    BY <1>0 DEF OneSessionPerTerminal, Sessions, NoSession
  <2>5. CASE ServeReuse(req)
    <3>1. /\ Reply("created", owner, req, status[owner]) /\ registered' = registered
      BY <2>5 DEF ServeReuse, native
    <3> QED BY <2>2, <2>3, <2>4, <3>1
  <2>6. CASE ServeCreate(req)
    <3>1. /\ Reply("created", created + 1, req, "running")
          /\ registered' = registered \cup {created + 1} /\ owner \notin registered
      BY <2>6 DEF ServeCreate
    <3>2. registered = {}
      BY <2>4, <3>1
    <3> QED BY <2>2, <2>3, <3>1, <3>2
  <2>7. CASE ServeFailure(req)
    <3>1. /\ Reply("failed", NoSession, req, "error")
          /\ registered' = registered /\ owner \notin registered
      BY <2>7 DEF ServeFailure
    <3>2. registered' = {}
      BY <2>4, <3>1
    <3> QED BY <2>2, <2>3, <3>1, <3>2
  <2>8. CASE ServeClose(req)
    <3>1. /\ Reply("closed", req.session, req, "exited")
          /\ registered' \subseteq registered
      BY <2>8 DEF ServeClose, Unregister
    <3> QED BY <2>2, <2>3, <3>1
  <2>9. CASE ServeList(req)
    <3>1. registered' = registered
      BY <2>9 DEF ServeList, native
    <3>2. CASE registered = {} /\ Reply("listed", NoSession, req, "exited")
      BY <2>2, <2>3, <2>4, <3>1, <3>2
    <3>3. CASE \E s \in registered : Reply("listed", s, req, status[s])
      <4>1. PICK t \in registered : Reply("listed", t, req, status[t])
        BY <3>3
      <4>2. t = owner
        BY <2>4
      <4> QED BY <2>2, <2>3, <2>4, <3>1, <4>1, <4>2
    <3> QED BY <2>9, <3>2, <3>3 DEF ServeList
  <2> QED BY <2>5, <2>6, <2>7, <2>8, <2>9 DEF Serve, req
<1> QED BY <1>3, <1>4

LEMMA OrderAppended ==
  ASSUME Typed, EpochsPast, EpochsInOrder, NEW r, r.epoch = reloads,
         requests' = Append(requests, r), reloads' = reloads,
         \/ answers = << >> /\ answers' = answers /\ runtime' \in {runtime, Starting, NoRuntime}
         \/ answers # << >>
         \/ runtime \notin {NoRuntime, Starting}
  PROVE  EpochsInOrder'
<1> DEFINE n == Len(requests) + 1
           S == GoodRequests(created) \cup {r}
<1>1. /\ Len(requests) \in Nat /\ DOMAIN requests = 1 .. Len(requests)
      /\ DOMAIN requests' = 1 .. n
      /\ \A i \in 1 .. Len(requests) : requests'[i] = requests[i]
      /\ requests'[n] = r
  <2>1. requests \in Seq(S) /\ r \in S
    BY SeqOfMore DEF Typed, MessagesTyped
  <2> HIDE DEF S
  <2> QED BY <2>1, AppendAt
<1>2. ASSUME NEW i \in DOMAIN requests', NEW k \in DOMAIN requests', i < k
      PROVE  requests'[i].epoch <= requests'[k].epoch
  <2>1. i \in DOMAIN requests /\ requests'[i] = requests[i]
    BY <1>1, <1>2
  <2>2. CASE k = n
    BY <1>1, <2>1, <2>2 DEF EpochsPast
  <2>3. CASE k \in DOMAIN requests
    BY <1>1, <1>2, <2>1, <2>3 DEF EpochsInOrder
  <2> QED BY <1>1, <2>2, <2>3
<1>3. ASSUME NEW i \in DOMAIN requests', requests'[i].epoch # reloads'
      PROVE  answers' = << >> /\ runtime' \in {NoRuntime, Starting}
  <2>1. i \in DOMAIN requests /\ requests'[i] = requests[i]
    BY <1>1, <1>3
  <2>2. answers = << >> /\ runtime \in {NoRuntime, Starting}
    BY <1>3, <2>1 DEF EpochsInOrder
  <2> QED BY <2>2
<1> QED BY <1>2, <1>3 DEF EpochsInOrder

LEMMA OrderKept ==
  ASSUME EpochsInOrder, requests' = requests, reloads' = reloads,
         \/ answers' = answers /\ runtime' \in {runtime, Starting, NoRuntime}
         \/ answers # << >>
         \/ runtime \notin {NoRuntime, Starting}
  PROVE  EpochsInOrder'
BY DEF EpochsInOrder

LEMMA OrderAsked ==
  ASSUME Typed, EpochsPast, EpochsInOrder, reloads' = reloads,
         \/ requests' = requests
         \/ AskForSession
         \/ \E s, again : GiveUp(s, again),
         \/ answers' = answers /\ runtime' \in {runtime, Starting, NoRuntime}
         \/ answers # << >>
         \/ runtime \notin {NoRuntime, Starting}
  PROVE  EpochsInOrder'
<1>1. CASE requests' = requests
  BY <1>1, OrderKept
<1>2. ASSUME NEW r, r.epoch = reloads, requests' = Append(requests, r)
      PROVE  EpochsInOrder'
  <2>1. answers = << >> \/ answers # << >>
    OBVIOUS
  <2> QED BY <1>2, <2>1, OrderAppended
<1>3. CASE AskForSession
  <2> DEFINE r == Call("create", NoSession, nextVersion, FALSE)
  <2>1. r.epoch = reloads /\ requests' = Append(requests, r)
    BY <1>3 DEF AskForSession, Call
  <2> HIDE DEF r
  <2> QED BY <1>2, <2>1
<1>4. CASE \E s, again : GiveUp(s, again)
  <2>1. PICK s, again : GiveUp(s, again)
    BY <1>4
  <2> DEFINE r == Call("close", s, 0, again)
  <2>2. r.epoch = reloads /\ requests' = Append(requests, r)
    BY <2>1 DEF GiveUp, Call
  <2> HIDE DEF r
  <2> QED BY <1>2, <2>2
<1> QED BY <1>1, <1>3, <1>4

LEMMA NamesSurface ==
  ASSUME EndInv, NamesInv, EnsureTerminal \/ Restart \/ CloseTerminal \/ Hide \/ Show \/ Reload
  PROVE  NewAreAnnounced' /\ EpochsInOrder'
<1>0. /\ Typed /\ NewAreAnnounced /\ EpochsInOrder /\ EpochsPast
      /\ requests \in Seq(GoodRequests(created)) /\ reloads \in Nat
  BY DEF EndInv, TalkInv, NamesInv, Typed, MessagesTyped, SurfaceTyped
<1>1. Starting.busy
  BY DEF Starting
<1>2. registered' = registered
  BY DEF EnsureTerminal, Restart, CloseTerminal, Hide, Show, Reload, Act, native
<1>3. CASE EnsureTerminal \/ Restart \/ CloseTerminal
  <2>1. /\ UNCHANGED <<answers, reloads>> /\ runtime' \in {Starting, NoRuntime}
        /\ retired \subseteq retired'
        /\ \/ requests' = requests
           \/ AskForSession
           \/ \E s, again : GiveUp(s, again)
    BY <1>3 DEF EnsureTerminal, Restart, CloseTerminal, GiveUp
  <2>2. NotSettled
    BY <1>1, <2>1 DEF NotSettled
  <2>3. EpochsInOrder'
    BY <1>0, <2>1, OrderAsked
  <2> QED BY <1>0, <1>2, <2>1, <2>2, <2>3, NamesCalm
<1>4. CASE Hide
  <2>1. UNCHANGED <<requests, answers, runtime, retired, reloads>>
    BY <1>4 DEF Hide, store
  <2>2. NewAreAnnounced'
    BY <1>0, <1>2, <2>1 DEF NewAreAnnounced, Names, CreatedBefore
  <2> QED BY <1>0, <2>1, <2>2, OrderKept
<1>5. CASE Show
  <2> DEFINE r == Call("list", NoSession, 0, FALSE)
  <2>1. /\ UNCHANGED <<answers, runtime, retired, reloads>> /\ r.epoch = reloads
        /\ requests' = Append(requests, r)
    BY <1>5 DEF Show, store, Call
  <2> HIDE DEF r
  <2>2. NewAreAnnounced'
    BY <1>0, <1>2, <2>1 DEF NewAreAnnounced, Names, CreatedBefore
  <2>3. answers = << >> \/ answers # << >>
    OBVIOUS
  <2> QED BY <1>0, <2>1, <2>2, <2>3, OrderAppended
<1>6. CASE Reload
  <2>1. /\ answers' = << >> /\ runtime' = NoRuntime /\ requests' = requests
    BY <1>6 DEF Reload
  <2>2. NewAreAnnounced'
    BY <2>1 DEF NewAreAnnounced
  <2> QED BY <1>0, <2>1, <2>2 DEF EpochsInOrder
<1> QED BY <1>3, <1>4, <1>5, <1>6

LEMMA NamesThreads ==
  ASSUME NamesInv, NEW s \in Sessions, Threads(s)
  PROVE  NewAreAnnounced' /\ EpochsInOrder'
<1>1. UNCHANGED <<requests, answers, reloads, runtime, retired>> /\ registered' \subseteq registered
  <2>1. CASE ReaderReads(s)
    BY <2>1 DEF ReaderReads, store
  <2>2. CASE ReaderSends(s) \/ MonitorPolls(s) \/ MonitorReports(s) \/ Flush(s)
    BY <2>2 DEF ReaderSends, MonitorPolls, MonitorReports, Flush, elsewhere, store
  <2>3. CASE MonitorRemoves(s)
    BY <2>3 DEF MonitorRemoves, Unregister, elsewhere, store
  <2> QED BY <2>1, <2>2, <2>3 DEF Threads
<1>2. EpochsInOrder'
  BY <1>1, OrderKept DEF NamesInv
<1>3. NewAreAnnounced'
  BY <1>1 DEF NamesInv, NewAreAnnounced, Names, CreatedBefore
<1> QED BY <1>2, <1>3

LEMMA NamesReceive ==
  ASSUME EndInv, NamesInv, NEW s \in Sessions, Receive(s)
  PROVE  NewAreAnnounced' /\ EpochsInOrder'
<1>1. /\ UNCHANGED <<requests, answers, reloads, retired, registered>>
      /\ \/ runtime' = runtime
         \/ /\ runtime.session = s
            /\ runtime' = [runtime EXCEPT !.busy = FALSE, !.status = "exited"]
  BY DEF Receive, ReceiveOutput, ReceiveExit, Receives, native
<1>2. /\ NewAreAnnounced /\ EpochsInOrder /\ s # NoSession
      /\ runtime.session = s => ~runtime.busy /\ runtime \notin {NoRuntime, Starting}
      /\ runtime \in [session : 0 .. created, busy : BOOLEAN, status : Statuses \cup {"none"}]
  BY DEF NamesInv, EndInv, BusyHasNone, Starting, NoRuntime, Sessions, NoSession,
         Typed, StoreTyped
<1>3. CASE runtime' = runtime
  <2>1. NewAreAnnounced'
    BY <1>1, <1>2, <1>3 DEF NewAreAnnounced, Names, CreatedBefore
  <2> QED BY <1>1, <1>2, <1>3, <2>1, OrderKept
<1>4. CASE /\ runtime.session = s
           /\ runtime' = [runtime EXCEPT !.busy = FALSE, !.status = "exited"]
  <2>1. runtime'.session = s
    BY <1>2, <1>4
  <2>2. NotSettled
    BY <1>2, <1>4, <2>1 DEF NotSettled
  <2> QED BY <1>1, <1>2, <1>4, <2>2, NamesCalm, OrderKept
<1> QED BY <1>1, <1>3, <1>4

LEMMA NamesAnswer ==
  ASSUME EndInv, NamesInv, ReceiveAnswer
  PROVE  NewAreAnnounced' /\ EpochsInOrder'
<1> DEFINE a == Head(answers)
<1>0. /\ Typed /\ NewAreAnnounced /\ EpochsInOrder /\ EpochsPast
      /\ answers \in Seq(GoodAnswers(created)) /\ answers # << >>
      /\ answers' = Tail(answers) /\ UNCHANGED <<reloads, registered>>
      /\ ReceiveStale(a) \/ ReceiveCreated(a) \/ ReceiveFailure(a) \/ ReceiveClosed(a)
           \/ ReceiveList(a)
      /\ runtime \in [session : 0 .. created, busy : BOOLEAN, status : Statuses \cup {"none"}]
  BY DEF EndInv, TalkInv, NamesInv, Typed, MessagesTyped, StoreTyped, ReceiveAnswer, native
<1>1. /\ DOMAIN answers = 1 .. Len(answers) /\ Len(answers) \in Nat \ {0}
      /\ a \in GoodAnswers(created) /\ a = answers[1]
      /\ Len(answers') = Len(answers) - 1 /\ DOMAIN answers' = 1 .. Len(answers) - 1
      /\ \A i \in 1 .. Len(answers) - 1 : answers'[i] = answers[i + 1]
  BY <1>0, TailAt
<1> HIDE DEF a
<1>2. EpochsInOrder'
  <2>1. \/ requests' = requests
        \/ AskForSession
        \/ \E s, again : GiveUp(s, again)
    BY <1>0 DEF ReceiveStale, ReceiveCreated, ReceiveFailure, ReceiveClosed, ReceiveList
  <2> QED BY <1>0, <2>1, OrderAsked
<1>3. \A i \in DOMAIN answers' : i \in Nat /\ i + 1 \in DOMAIN answers
                                 /\ answers'[i] = answers[i + 1]
  BY <1>1
<1>4. ASSUME NEW s \in Sessions, NEW i \in Places, Names(i, s)'
      PROVE  /\ Names(i + 1, s) /\ i + 1 \in Places /\ 1 < i + 1
  <2>1. i + 1 \in Places /\ 1 < i + 1
    BY DEF Places
  <2>2. CASE i \in DOMAIN answers' /\ answers'[i].op = "listed" /\ answers'[i].session = s
    BY <1>3, <2>1, <2>2 DEF Names
  <2>3. CASE i = Len(answers') + 1 /\ s \in registered'
    <3>1. i + 1 = Len(answers) + 1
      BY <1>1, <2>3
    <3> QED BY <1>0, <2>1, <2>3, <3>1 DEF Names
  <2> QED BY <1>4, <2>2, <2>3 DEF Names
<1>5. ASSUME NEW k \in Nat, NEW i \in Places, NEW s \in Sessions, CreatedBefore(k + 1, i + 1, s)
      PROVE  CreatedBefore(k, i, s)'
  <2>1. PICK m \in DOMAIN answers :
          k + 1 < m /\ m < i + 1 /\ answers[m].op = "created" /\ answers[m].session = s
    BY <1>5 DEF CreatedBefore
  <2> DEFINE p == m - 1
  <2>2. p \in DOMAIN answers' /\ p + 1 = m /\ k < p /\ p < i
    BY <1>1, <2>1 DEF Places
  <2> HIDE DEF p
  <2>3. answers'[p] = answers[m]
    BY <1>3, <2>2
  <2> QED BY <2>1, <2>2, <2>3 DEF CreatedBefore
(* What the tab settles on by this answer is what was announced ahead.     *)
<1>6. ASSUME NEW s \in Sessions, NEW i \in Places, Names(i, s)',
             runtime' # NoRuntime, ~runtime'.busy
      PROVE  runtime'.session = s \/ s \in retired' \/ CreatedBefore(0, i, s)'
  <2>1. Names(i + 1, s) /\ i + 1 \in Places /\ 1 < i + 1 /\ 1 \in DOMAIN answers
    BY <1>1, <1>4, <1>6
  <2>2. Settles(a) => a.session = s \/ CreatedBefore(0, i, s)'
    <3>1. Settles(a) => a.session = s \/ CreatedBefore(1, i + 1, s)
      BY <1>1, <2>1 DEF NewAreAnnounced, NamesInv
    <3>2. CreatedBefore(0 + 1, i + 1, s) => CreatedBefore(0, i, s)'
      BY <1>5
    <3> QED BY <3>1, <3>2
  <2>3. runtime # NoRuntime /\ ~runtime.busy =>
          \/ runtime.session = s \/ s \in retired
          \/ a.op = "created" /\ a.session = s
          \/ CreatedBefore(0, i, s)'
    <3> SUFFICES ASSUME runtime # NoRuntime, ~runtime.busy, CreatedBefore(0, i + 1, s)
                 PROVE  (a.op = "created" /\ a.session = s) \/ CreatedBefore(0, i, s)'
      BY <2>1 DEF NewAreAnnounced, NamesInv
    <3>1. PICK m \in DOMAIN answers :
            0 < m /\ m < i + 1 /\ answers[m].op = "created" /\ answers[m].session = s
      BY DEF CreatedBefore
    <3>2. CASE m = 1
      BY <1>1, <3>1, <3>2
    <3>3. CASE m # 1
      <4>1. 0 + 1 < m
        BY <1>1, <3>1, <3>3
      <4>2. CreatedBefore(0 + 1, i + 1, s)
        BY <3>1, <4>1 DEF CreatedBefore
      <4> QED BY <1>5, <4>2
    <3> QED BY <3>2, <3>3
  <2>4. CASE ReceiveStale(a)
    <3>1. /\ runtime' = runtime /\ a.session \in retired' /\ retired \subseteq retired'
      BY <2>4 DEF ReceiveStale, GiveUp
    <3> QED BY <1>6, <2>3, <3>1
  <2>5. CASE ReceiveCreated(a)
    <3>1. runtime'.session = a.session /\ Settles(a)
      BY <2>5 DEF ReceiveCreated, Settles
    <3> QED BY <2>2, <3>1
  <2>6. CASE ReceiveFailure(a)
    <3>1. /\ a.op = "failed" /\ Settles(a) /\ retired' = retired
      BY <2>6 DEF ReceiveFailure, Settles
    <3>2. CASE runtime' = runtime
      BY <1>6, <2>3, <3>1, <3>2
    <3>3. CASE a.session # s
      BY <2>2, <3>1, <3>3
    <3>4. CASE /\ runtime' = [runtime EXCEPT !.busy = FALSE, !.status = "error"]
               /\ runtime # NoRuntime /\ a.session = s
      <4>1. a.session = NoSession
        BY <1>1, <3>1 DEF GoodAnswers
      <4> QED BY <3>4, <4>1 DEF Sessions, NoSession
    <3> QED BY <2>6, <3>2, <3>3, <3>4 DEF ReceiveFailure
  <2>7. CASE ReceiveClosed(a)
    <3>1. /\ runtime' = runtime /\ retired' = retired /\ a.op = "closed"
      BY <2>7 DEF ReceiveClosed
    <3> QED BY <1>6, <2>3, <3>1
  <2>8. CASE ReceiveList(a)
    <3>1. /\ a.op = "listed" /\ retired' = retired
          /\ \/ runtime' = runtime
             \/ /\ runtime'.session = a.session /\ a.session # NoSession
      BY <2>8 DEF ReceiveList
    <3>2. CASE runtime' = runtime
      BY <1>6, <2>3, <3>1, <3>2
    <3>3. CASE runtime'.session = a.session /\ a.session # NoSession
      BY <2>2, <3>1, <3>3 DEF Settles
    <3> QED BY <3>1, <3>2, <3>3
  <2> QED BY <1>0, <2>4, <2>5, <2>6, <2>7, <2>8
<1>7. ASSUME NEW s \in Sessions, NEW i \in Places, Names(i, s)',
             NEW k \in DOMAIN answers', k < i, Settles(answers'[k])
      PROVE  answers'[k].session = s \/ CreatedBefore(k, i, s)'
  <2>1. /\ Names(i + 1, s) /\ i + 1 \in Places
    BY <1>4, <1>7
  <2>2. k + 1 \in DOMAIN answers /\ k + 1 < i + 1 /\ answers'[k] = answers[k + 1] /\ k \in Nat
    BY <1>3, <1>7 DEF Places
  <2>3. answers[k + 1].session = s \/ CreatedBefore(k + 1, i + 1, s)
    BY <1>0, <1>7, <2>1, <2>2 DEF NewAreAnnounced
  <2> QED BY <1>5, <2>2, <2>3
<1>8. NewAreAnnounced'
  BY <1>6, <1>7 DEF NewAreAnnounced
<1> QED BY <1>2, <1>8

(* The line itself.  q is what is on its way, h the chunk in the reader's  *)
(* hand, t what was taken: everything behind the first n chunks.           *)
Way(q, h, n, t) ==
  /\ n \in 0 .. t
  /\ Rising(q)
  /\ ChunksOf(q) = (n + 1 .. t) \ h
  /\ h \subseteq n + 1 .. t

InLine(s) == events[s] \o pending[s]
Hand(s) == IF s \in holding THEN {taken[s]} ELSE {}

(* What came to the store: the first n chunks.                             *)
Came(s, n) ==
  /\ ShownOf(s) \subseteq 1 .. n
  /\ Rising(unclaimed[s])
  /\ ToSet(unclaimed[s]) \subseteq 1 .. n
  /\ s \notin retired => 1 .. n \subseteq ShownOf(s) \cup lost[s] \cup ToSet(unclaimed[s])
  /\ s \notin early => \A c \in ShownOf(s), d \in ToSet(unclaimed[s]) : c < d

Flow ==
  \A s \in Sessions : \E n \in Nat : Way(InLine(s), Hand(s), n, taken[s]) /\ Came(s, n)

GivenUpIsEmpty == \A s \in retired : unclaimed[s] = << >>

Claimed ==
  runtime.session \notin early \cup {NoSession} => unclaimed[runtime.session] = << >>

DataInv == Flow /\ GivenUpIsEmpty /\ Claimed /\ OutputInOrder

LEMMA WayTail ==
  ASSUME NEW q \in Seq(Marks), q # << >>, NEW n \in Nat, NEW t \in Nat, NEW h \in {{}, {t}},
         Way(q, h, n, t)
  PROVE  /\ Head(q) = Exit => Way(Tail(q), h, n, t)
         /\ Head(q) # Exit => Head(q) = n + 1 /\ Way(Tail(q), h, n + 1, t)
<1>1. /\ Rising(q) /\ Rising(Tail(q))
      /\ Head(q) = Exit => ChunksOf(Tail(q)) = ChunksOf(q)
      /\ Head(q) # Exit => /\ ChunksOf(Tail(q)) = ChunksOf(q) \ {Head(q)}
                           /\ Head(q) \in ChunksOf(q)
                           /\ \A c \in ChunksOf(q) : Head(q) <= c
  BY RisingTail DEF Way
<1>2. CASE Head(q) = Exit
  BY <1>1, <1>2 DEF Way
<1>3. CASE Head(q) # Exit
  <2> DEFINE c == Head(q)
  <2>1. /\ n \in 0 .. t /\ ChunksOf(q) = (n + 1 .. t) \ h /\ h \subseteq n + 1 .. t
        /\ c \in ChunksOf(q) /\ \A d \in ChunksOf(q) : c <= d
        /\ ChunksOf(Tail(q)) = ChunksOf(q) \ {c}
    BY <1>1, <1>3 DEF Way
  <2> HIDE DEF c
  <2>2. c \in n + 1 .. t /\ c \notin h /\ (h = {} \/ h = {t})
    BY <2>1
  <2>3. n + 1 \in n + 1 .. t /\ n + 1 \notin h
    BY <2>2
  <2>4. c = n + 1
    <3>1. c <= n + 1
      BY <2>1, <2>3
    <3> QED BY <2>2, <3>1
  <2>5. (n + 1 + 1 .. t) \ h = ((n + 1 .. t) \ h) \ {n + 1}
    OBVIOUS
  <2>6. n + 1 \in 0 .. t /\ h \subseteq n + 1 + 1 .. t
    BY <2>1, <2>2, <2>3
  <2> QED BY <1>1, <1>3, <2>1, <2>4, <2>5, <2>6 DEF Way, c
<1> QED BY <1>2, <1>3

LEMMA LineTyped ==
  ASSUME Typed, NEW s \in Sessions
  PROVE  /\ events[s] \in Seq(Marks) /\ pending[s] \in Seq(Marks) /\ InLine(s) \in Seq(Marks)
         /\ taken[s] \in Nat /\ Hand(s) \in {{}, {taken[s]}}
         /\ s \in holding => taken[s] \in Chunks
         /\ unclaimed[s] \in Seq(Chunks) /\ unclaimed[s] \in Seq(Marks)
         /\ lost[s] \subseteq Chunks
<1>1. /\ events[s] \in Seq(Chunks \cup {Exit}) /\ pending[s] \in Seq(Chunks)
      /\ taken[s] \in 0 .. MaxOutput
      /\ s \in holding => taken[s] \in Chunks
      /\ unclaimed[s] \in Seq(Chunks) /\ lost[s] \subseteq Chunks
  BY DEF Typed, ExitInv, OutputTyped, StoreTyped, HistoryTyped
<1>2. Chunks \subseteq Marks
  BY DEF Marks
<1>3. pending[s] \in Seq(Marks) /\ unclaimed[s] \in Seq(Marks) /\ events[s] \in Seq(Marks)
  BY <1>1, <1>2, SeqOfMore DEF Marks
<1>4. InLine(s) \in Seq(Marks)
  BY <1>3, ConcatProperties DEF InLine
<1> QED BY <1>1, <1>3, <1>4, TerminalBounds DEF Hand

LEMMA WayThreads ==
  ASSUME Typed, NEW s \in Sessions, Threads(s), NEW t \in Sessions, NEW n \in Nat,
         Way(InLine(t), Hand(t), n, taken[t])
  PROVE  Way(InLine(t)', Hand(t)', n, taken'[t])
<1>0. /\ events \in [Sessions -> Seq(Chunks \cup {Exit})] /\ pending \in [Sessions -> Seq(Chunks)]
      /\ taken \in [Sessions -> 0 .. MaxOutput]
  BY DEF Typed, ExitInv, OutputTyped
<1>1. ASSUME events'[t] = events[t], pending'[t] = pending[t], taken'[t] = taken[t],
             t \in holding' <=> t \in holding
      PROVE  Way(InLine(t)', Hand(t)', n, taken'[t])
  <2>1. InLine(t)' = InLine(t) /\ Hand(t)' = Hand(t)
    BY <1>1 DEF InLine, Hand
  <2> QED BY <1>1, <2>1
<1>2. CASE t # s
  <2>1. /\ events'[t] = events[t] /\ pending'[t] = pending[t]
        /\ taken'[t] = taken[t] /\ (t \in holding' <=> t \in holding)
    BY <1>0, <1>2 DEF Threads, ReaderReads, ReaderSends, MonitorPolls, MonitorRemoves,
                      MonitorReports, Flush
  <2> QED BY <1>1, <2>1
<1>3. CASE t = s
  <2> DEFINE q == InLine(t)
             k == taken[t]
  <2>1. /\ q \in Seq(Marks) /\ k \in Nat /\ (t \in holding => k \in Chunks)
        /\ n \in 0 .. k /\ Rising(q) /\ ChunksOf(q) = (n + 1 .. k) \ Hand(t)
        /\ Hand(t) \subseteq n + 1 .. k
        /\ events[t] \in Seq(Marks) /\ pending[t] \in Seq(Marks)
    BY LineTyped DEF Way
  <2>2. CASE MonitorPolls(s) \/ MonitorRemoves(s)
    BY <1>1, <2>2 DEF MonitorPolls, MonitorRemoves
  <2>3. CASE ReaderReads(s)
    <3>1. /\ t \notin holding /\ taken'[t] = k + 1 /\ t \in holding'
          /\ UNCHANGED <<pending, events>>
      BY <1>0, <1>3, <2>3 DEF ReaderReads
    <3>2. InLine(t)' = q /\ Hand(t) = {} /\ Hand(t)' = {k + 1}
      BY <3>1 DEF InLine, Hand
    <3> HIDE DEF q, k
    <3>3. n + 1 .. k = (n + 1 .. k + 1) \ {k + 1}
      BY <2>1
    <3>4. Way(q, {k + 1}, n, k + 1)
      BY <2>1, <3>2, <3>3 DEF Way
    <3> QED BY <3>1, <3>2, <3>4
  <2>4. CASE ReaderSends(s)
    <3>1. /\ t \in holding /\ t \notin holding' /\ UNCHANGED <<taken, events>>
          /\ pending'[t] = Append(pending[t], k)
      BY <1>0, <1>3, <2>4 DEF ReaderSends
    <3>2. k \in Marks /\ k # Exit /\ k \in Nat
      BY <2>1, <3>1, MarksAreNumbers DEF Marks
    <3>3. InLine(t)' = Append(q, k) /\ Hand(t) = {k} /\ Hand(t)' = {}
      <4>1. events[t] \o Append(pending[t], k) = Append(events[t] \o pending[t], k)
        BY <2>1, <3>2, LineAt
      <4> QED BY <3>1, <4>1 DEF InLine, Hand
    <3> HIDE DEF q, k
    <3>4. \A c \in ChunksOf(q) : c < k
      BY <2>1, <3>2, <3>3
    <3>5. Rising(Append(q, k)) /\ ChunksOf(Append(q, k)) = ChunksOf(q) \cup ({k} \ {Exit})
      BY <2>1, <3>2, <3>4, RisingAppend
    <3>6. ChunksOf(Append(q, k)) = (n + 1 .. k) \ {}
      BY <2>1, <3>2, <3>3, <3>5
    <3>7. Way(Append(q, k), {}, n, k)
      BY <2>1, <3>5, <3>6 DEF Way
    <3> QED BY <3>1, <3>3, <3>7 DEF k
  <2>5. CASE Flush(s)
    <3>1. /\ events'[t] = events[t] \o pending[t] /\ pending'[t] = << >>
          /\ UNCHANGED <<taken, holding>>
      BY <1>0, <1>3, <2>5 DEF Flush
    <3>2. (events[t] \o pending[t]) \o << >> = events[t] \o pending[t]
      BY <2>1, LineAt, MarksAreNumbers DEF Marks
    <3>3. InLine(t)' = q /\ Hand(t)' = Hand(t)
      BY <3>1, <3>2 DEF InLine, Hand
    <3> QED BY <3>1, <3>3
  <2>6. CASE MonitorReports(s)
    <3>1. /\ events'[t] = (events[t] \o pending[t]) \o <<Exit>> /\ pending'[t] = << >>
          /\ UNCHANGED <<taken, holding>>
      BY <1>0, <1>3, <2>6 DEF MonitorReports
    <3>2. Exit \in Marks
      BY DEF Marks
    <3>3. ((events[t] \o pending[t]) \o <<Exit>>) \o << >> = Append(events[t] \o pending[t], Exit)
      BY <2>1, <3>2, LineAt
    <3>4. InLine(t)' = Append(q, Exit) /\ Hand(t)' = Hand(t)
      BY <3>1, <3>3 DEF InLine, Hand
    <3> HIDE DEF q
    <3>5. Rising(Append(q, Exit)) /\ ChunksOf(Append(q, Exit)) = ChunksOf(q)
      BY <2>1, <3>2, RisingAppend
    <3>6. Way(Append(q, Exit), Hand(t), n, k)
      BY <2>1, <3>5 DEF Way
    <3> QED BY <3>1, <3>4, <3>6
  <2> QED BY <1>3, <2>2, <2>3, <2>4, <2>5, <2>6 DEF Threads
<1> QED BY <1>2, <1>3

(* An event that comes to the store is the next of its session.            *)
LEMMA WayReceive ==
  ASSUME Typed, NEW s \in Sessions, events[s] # << >>,
         events' = [events EXCEPT ![s] = Tail(@)], UNCHANGED <<pending, taken, holding>>
  PROVE  /\ \A n \in Nat : Way(InLine(s), Hand(s), n, taken[s]) =>
              /\ Head(events[s]) = Exit => Way(InLine(s)', Hand(s)', n, taken'[s])
              /\ Head(events[s]) # Exit =>
                   /\ Head(events[s]) = n + 1
                   /\ Way(InLine(s)', Hand(s)', n + 1, taken'[s])
         /\ \A t \in Sessions \ {s} : InLine(t)' = InLine(t)
         /\ \A t \in Sessions : Hand(t)' = Hand(t) /\ taken'[t] = taken[t]
<1>1. /\ events[s] \in Seq(Marks) /\ pending[s] \in Seq(Marks) /\ InLine(s) \in Seq(Marks)
      /\ taken[s] \in Nat /\ Hand(s) \in {{}, {taken[s]}}
      /\ events \in [Sessions -> Seq(Chunks \cup {Exit})]
  BY LineTyped DEF Typed, ExitInv, OutputTyped
<1>2. /\ Tail(events[s]) \o pending[s] = Tail(InLine(s))
      /\ Head(InLine(s)) = Head(events[s]) /\ InLine(s) # << >>
  BY <1>1, LineAt, MarksAreNumbers DEF InLine, Marks
<1>3. InLine(s)' = Tail(InLine(s)) /\ Hand(s)' = Hand(s) /\ taken'[s] = taken[s]
  BY <1>1, <1>2 DEF InLine, Hand
<1>4. \A t \in Sessions \ {s} : InLine(t)' = InLine(t)
  BY <1>1 DEF InLine
<1>5. \A t \in Sessions : Hand(t)' = Hand(t) /\ taken'[t] = taken[t]
  BY DEF Hand
<1>6. ASSUME NEW n \in Nat, Way(InLine(s), Hand(s), n, taken[s])
      PROVE  /\ Head(events[s]) = Exit => Way(InLine(s)', Hand(s)', n, taken'[s])
             /\ Head(events[s]) # Exit =>
                  /\ Head(events[s]) = n + 1
                  /\ Way(InLine(s)', Hand(s)', n + 1, taken'[s])
  <2> DEFINE q == InLine(s)
             h == Hand(s)
             k == taken[s]
  <2>1. /\ q \in Seq(Marks) /\ q # << >> /\ k \in Nat /\ h \in {{}, {k}}
        /\ Way(q, h, n, k)
    BY <1>1, <1>2, <1>6
  <2> HIDE DEF q, h, k
  <2>2. /\ Head(q) = Exit => Way(Tail(q), h, n, k)
        /\ Head(q) # Exit => Head(q) = n + 1 /\ Way(Tail(q), h, n + 1, k)
    BY <2>1, WayTail
  <2> QED BY <1>2, <1>3, <2>2 DEF q, h, k
<1> QED BY <1>4, <1>5, <1>6

LEMMA ShownWritten ==
  ASSUME Typed, NEW s \in Sessions, NEW chunks \in Seq(Chunks), Write(s, chunks)
  PROVE  /\ ShownOf(s)' = ShownOf(s) \cup ToSet(chunks)
         /\ \A t \in Sessions \ {s} : ShownOf(t)' = ShownOf(t)
         /\ Len(shown) \in Nat /\ DOMAIN shown = 1 .. Len(shown)
         /\ DOMAIN shown' = 1 .. Len(shown) + Len(chunks) /\ Len(chunks) \in Nat
         /\ \A i \in 1 .. Len(shown) : shown'[i] = shown[i]
         /\ \A i \in 1 .. Len(chunks) :
              /\ shown'[Len(shown) + i].session = s
              /\ shown'[Len(shown) + i].chunk = chunks[i]
<1> DEFINE w == [i \in DOMAIN chunks |-> [session |-> s, chunk |-> chunks[i]]]
           S == [session : Sessions, chunk : Chunks]
           n == Len(shown)
           m == Len(chunks)
<1>1. /\ w \in Seq(S) /\ Len(w) = m /\ DOMAIN w = 1 .. m
      /\ \A i \in 1 .. m : w[i] = [session |-> s, chunk |-> chunks[i]]
  BY WrittenAt
<1>2. shown' = shown \o w /\ shown \in Seq(S)
  BY DEF Write, Typed, StoreTyped
<1> HIDE DEF w, S
<1>3. /\ n \in Nat /\ m \in Nat /\ DOMAIN shown = 1 .. n /\ DOMAIN shown' = 1 .. n + m
      /\ \A i \in 1 .. n : shown'[i] = shown[i]
      /\ \A i \in 1 .. m : shown'[n + i] = w[i]
  <2>1. w \in Seq(S) /\ shown \in Seq(S)
    BY <1>1, <1>2
  <2>2. /\ n \in Nat /\ DOMAIN shown = 1 .. n /\ Len(w) \in Nat
        /\ DOMAIN (shown \o w) = 1 .. n + Len(w)
        /\ \A i \in 1 .. n : (shown \o w)[i] = shown[i]
        /\ \A i \in 1 .. Len(w) : (shown \o w)[n + i] = w[i]
    BY <2>1, ConcatAt
  <2> HIDE DEF n, m
  <2> QED BY <1>1, <1>2, <2>2
<1>4. \A i \in 1 .. m : /\ shown'[n + i] = [session |-> s, chunk |-> chunks[i]]
                        /\ shown'[n + i].session = s
                        /\ shown'[n + i].chunk = chunks[i]
  <2> HIDE DEF n, m
  <2> SUFFICES ASSUME NEW i \in 1 .. m
               PROVE  /\ shown'[n + i] = [session |-> s, chunk |-> chunks[i]]
                      /\ shown'[n + i].session = s
                      /\ shown'[n + i].chunk = chunks[i]
    OBVIOUS
  <2>1. shown'[n + i] = [session |-> s, chunk |-> chunks[i]]
    BY <1>1, <1>3
  <2> QED BY <2>1
<1>5. ToSet(chunks) = {chunks[i] : i \in 1 .. m}
  BY ToSetAt
<1> HIDE DEF n, m
<1>6. \A j \in DOMAIN shown' :
        \/ j \in DOMAIN shown /\ shown'[j] = shown[j]
        \/ \E i \in 1 .. m : j = n + i /\ shown'[j] = [session |-> s, chunk |-> chunks[i]]
  <2> SUFFICES ASSUME NEW j \in DOMAIN shown', j \notin DOMAIN shown
               PROVE  \E i \in 1 .. m : j = n + i
                                        /\ shown'[j] = [session |-> s, chunk |-> chunks[i]]
    BY <1>3
  <2> DEFINE i == j - n
  <2>1. i \in 1 .. m /\ j = n + i
    BY <1>3
  <2> HIDE DEF i
  <2> QED BY <1>4, <2>1
<1>7. \A j \in DOMAIN shown : j \in DOMAIN shown' /\ shown'[j] = shown[j]
  BY <1>3
<1>8. \A i \in 1 .. m : n + i \in DOMAIN shown'
  BY <1>3
<1>9. \A t, c : c \in ShownOf(t) <=>
        \E j \in DOMAIN shown : shown[j].session = t /\ c = shown[j].chunk
  BY DEF ShownOf
<1>10. \A t, c : c \in ShownOf(t)' <=>
         \E j \in DOMAIN shown' : shown'[j].session = t /\ c = shown'[j].chunk
  BY DEF ShownOf
<1>11. ASSUME NEW t, NEW c
       PROVE  c \in ShownOf(t)' <=>
                c \in ShownOf(t) \/ (t = s /\ c \in ToSet(chunks))
  <2>1. ASSUME c \in ShownOf(t)'
        PROVE  c \in ShownOf(t) \/ (t = s /\ c \in ToSet(chunks))
    <3>1. PICK j \in DOMAIN shown' : shown'[j].session = t /\ c = shown'[j].chunk
      BY <1>10, <2>1
    <3>2. CASE j \in DOMAIN shown /\ shown'[j] = shown[j]
      BY <1>9, <3>1, <3>2
    <3>3. CASE \E i \in 1 .. m : j = n + i /\ shown'[j] = [session |-> s, chunk |-> chunks[i]]
      BY <1>5, <3>1, <3>3
    <3> QED BY <1>6, <3>2, <3>3
  <2>2. ASSUME c \in ShownOf(t)
        PROVE  c \in ShownOf(t)'
    BY <1>7, <1>9, <1>10, <2>2
  <2>3. ASSUME t = s, c \in ToSet(chunks)
        PROVE  c \in ShownOf(t)'
    <3>1. PICK i \in 1 .. m : c = chunks[i]
      BY <1>5, <2>3
    <3>2. shown'[n + i].session = t /\ shown'[n + i].chunk = c
      BY <1>4, <2>3, <3>1
    <3> QED BY <1>8, <1>10, <3>2
  <2> QED BY <2>1, <2>2, <2>3
<1>12. ShownOf(s)' = ShownOf(s) \cup ToSet(chunks)
  BY <1>11
<1>13. \A t \in Sessions \ {s} : ShownOf(t)' = ShownOf(t)
  <2> SUFFICES ASSUME NEW t \in Sessions, t # s PROVE ShownOf(t)' = ShownOf(t)
    OBVIOUS
  <2> QED BY <1>11
<1> QED BY <1>3, <1>4, <1>12, <1>13 DEF n, m

(* The session of every chunk shown, and the chunks shown before it.       *)
Before(q, j) == {q[i].chunk : i \in {k \in 1 .. j - 1 : q[k].session = q[j].session}}

LEMMA ShownInOrderAt ==
  /\ \A j : ShownInOrder(j) <=>
       /\ \A c \in Before(shown, j) : c < shown[j].chunk
       /\ 1 .. shown[j].chunk - 1 \subseteq Before(shown, j) \cup lost[shown[j].session]
  /\ \A j : ShownInOrder(j)' <=>
       /\ \A c \in Before(shown', j) : c < shown'[j].chunk
       /\ 1 .. shown'[j].chunk - 1 \subseteq Before(shown', j) \cup lost'[shown'[j].session]
BY DEF ShownInOrder, Before

LEMMA OrderStays ==
  ASSUME Typed, OutputInOrder, early \subseteq early',
         \/ shown' = << >>
         \/ /\ shown' = shown
            /\ \A s \in Sessions : lost[s] \subseteq lost'[s]
  PROVE  OutputInOrder'
<1>1. CASE shown' = << >>
  BY <1>1 DEF OutputInOrder
<1>2. CASE /\ shown' = shown
           /\ \A s \in Sessions : lost[s] \subseteq lost'[s]
  <2> SUFFICES ASSUME NEW j \in DOMAIN shown, shown[j].session \notin early'
               PROVE  ShownInOrder(j)'
    BY <1>2 DEF OutputInOrder
  <2>1. ShownInOrder(j)
    BY DEF OutputInOrder
  <2>2. shown[j].session \in Sessions
    <3> DEFINE S == [session : Sessions, chunk : Chunks]
    <3>1. shown \in Seq(S)
      BY DEF Typed, StoreTyped
    <3> HIDE DEF S
    <3>2. shown[j] \in S
      BY <3>1
    <3> QED BY <3>2 DEF S
  <2> QED BY <1>2, <2>1, <2>2, ShownInOrderAt
<1> QED BY <1>1, <1>2

(* Chunks are written behind what is shown, with no gap but a lost one.    *)
LEMMA OrderWritten ==
  ASSUME Typed, OutputInOrder, NEW s \in Sessions, NEW chunks \in Seq(Chunks),
         Write(s, chunks), lost' = lost, early' = early,
         s \notin early =>
           /\ Rising(chunks)
           /\ \A d \in ToSet(chunks) :
                /\ \A c \in ShownOf(s) : c < d
                /\ 1 .. d - 1 \subseteq ShownOf(s) \cup lost[s] \cup ToSet(chunks)
  PROVE  OutputInOrder'
<1> DEFINE n == Len(shown)
           m == Len(chunks)
<1>1. /\ n \in Nat /\ m \in Nat /\ DOMAIN shown = 1 .. n /\ DOMAIN shown' = 1 .. n + m
      /\ \A i \in 1 .. n : shown'[i] = shown[i]
      /\ \A i \in 1 .. m : /\ shown'[n + i].session = s
                           /\ shown'[n + i].chunk = chunks[i]
  <2>1. /\ n \in Nat /\ m \in Nat /\ DOMAIN shown = 1 .. n /\ DOMAIN shown' = 1 .. n + m
        /\ \A i \in 1 .. n : shown'[i] = shown[i]
    BY ShownWritten
  <2>2. \A i \in 1 .. Len(chunks) : /\ shown'[Len(shown) + i].session = s
                                    /\ shown'[Len(shown) + i].chunk = chunks[i]
    BY ShownWritten
  <2> QED BY <2>1, <2>2
<1>2. /\ ToSet(chunks) = {chunks[i] : i \in 1 .. m} /\ DOMAIN chunks = 1 .. m
      /\ \A i \in 1 .. m : chunks[i] \in Chunks
  BY ToSetAt
<1> HIDE DEF n, m
<1> SUFFICES ASSUME NEW j \in DOMAIN shown', shown'[j].session \notin early
             PROVE  ShownInOrder(j)'
  BY DEF OutputInOrder
<1>3. CASE j \in 1 .. n
  <2>1. shown'[j] = shown[j] /\ j \in DOMAIN shown
    BY <1>1, <1>3
  <2>2. \A k \in 1 .. j - 1 : shown'[k] = shown[k]
    BY <1>1, <1>3
  <2>3. Before(shown', j) = Before(shown, j)
    BY <2>1, <2>2 DEF Before
  <2>4. ShownInOrder(j)
    BY <2>1 DEF OutputInOrder
  <2> QED BY <2>1, <2>3, <2>4, ShownInOrderAt
<1>4. CASE j \notin 1 .. n
  <2> DEFINE p == j - n
  <2>1. p \in 1 .. m /\ j = n + p
    BY <1>1, <1>4
  <2> HIDE DEF p
  <2>2. shown'[j].session = s /\ shown'[j].chunk = chunks[p] /\ s \notin early
    BY <1>1, <2>1
  <2>3. /\ Rising(chunks) /\ chunks[p] \in ToSet(chunks) /\ chunks[p] \in Nat
        /\ \A c \in ShownOf(s) : c < chunks[p]
        /\ 1 .. chunks[p] - 1 \subseteq ShownOf(s) \cup lost[s] \cup ToSet(chunks)
    BY <1>2, <2>1, <2>2 DEF Chunks
  <2>4. \A i, k \in 1 .. m : i < k => chunks[i] < chunks[k]
    BY <1>2, <2>3, MarksAreNumbers DEF Rising
  <2>5. \A c : c \in Before(shown', j) <=>
          \E k \in 1 .. j - 1 : shown'[k].session = s /\ c = shown'[k].chunk
    BY <2>2 DEF Before
  <2>6. ASSUME NEW c \in ShownOf(s) PROVE c \in Before(shown', j)
    <3>1. PICK k \in DOMAIN shown : shown[k].session = s /\ c = shown[k].chunk
      BY <2>6 DEF ShownOf
    <3>2. k \in 1 .. j - 1 /\ shown'[k] = shown[k]
      BY <1>1, <2>1, <3>1
    <3> QED BY <2>5, <3>1, <3>2
  <2>7. ASSUME NEW i \in 1 .. m, i < p PROVE chunks[i] \in Before(shown', j)
    <3>1. n + i \in 1 .. j - 1 /\ shown'[n + i].session = s /\ shown'[n + i].chunk = chunks[i]
      BY <1>1, <2>1, <2>7
    <3> QED BY <2>5, <3>1
  <2>8. ASSUME NEW c \in Before(shown', j)
        PROVE  c \in ShownOf(s) \/ \E i \in 1 .. m : i < p /\ c = chunks[i]
    <3>1. PICK k \in 1 .. j - 1 : shown'[k].session = s /\ c = shown'[k].chunk
      BY <2>5, <2>8
    <3>2. CASE k \in 1 .. n
      BY <1>1, <3>1, <3>2 DEF ShownOf
    <3>3. CASE k \notin 1 .. n
      <4> DEFINE i == k - n
      <4>1. i \in 1 .. m /\ k = n + i /\ i < p
        BY <1>1, <2>1, <3>1, <3>3
      <4> HIDE DEF i
      <4>2. c = chunks[i]
        BY <1>1, <3>1, <4>1
      <4> QED BY <4>1, <4>2
    <3> QED BY <3>2, <3>3
  <2>9. \A c \in Before(shown', j) : c < chunks[p]
    BY <2>1, <2>3, <2>4, <2>8
  <2>10. ASSUME NEW c \in 1 .. chunks[p] - 1
         PROVE  c \in Before(shown', j) \cup lost[s]
    <3>1. c \in ShownOf(s) \cup lost[s] \cup ToSet(chunks) /\ c < chunks[p] /\ c \in Nat
      BY <2>3
    <3>2. CASE c \in ToSet(chunks)
      <4>1. PICK i \in 1 .. m : c = chunks[i]
        BY <1>2, <3>2
      <4>2. i < p
        <5>1. ~(p < i)
          <6>1. p < i => chunks[p] < chunks[i]
            BY <2>1, <2>4
          <6> QED BY <2>3, <3>1, <4>1, <6>1
        <5>2. p # i
          BY <2>3, <3>1, <4>1
        <5> QED BY <1>1, <2>1, <5>1, <5>2
      <4> QED BY <2>7, <4>1, <4>2
    <3> QED BY <2>6, <3>1, <3>2
  <2> QED BY <2>2, <2>9, <2>10, ShownInOrderAt
<1> QED BY <1>3, <1>4

(* A step that moves no output: the viewport may be cleared and a session  *)
(* given up.                                                               *)
Untouched ==
  /\ UNCHANGED <<events, pending, taken, holding>>
  /\ early \subseteq early'
  /\ ClearViewport \/ UNCHANGED <<shown, lost>>
  /\ UNCHANGED <<retired, unclaimed>> \/ \E d \in Sessions, again \in BOOLEAN : GiveUp(d, again)

LEMMA DataTyped ==
  ASSUME Typed
  PROVE  /\ unclaimed \in [Sessions -> Seq(Chunks)] /\ lost \in [Sessions -> SUBSET Chunks]
         /\ runtime.session \in Sessions \cup {NoSession} /\ retired \subseteq Sessions
         /\ events \in [Sessions -> Seq(Chunks \cup {Exit})]
         /\ DOMAIN shown = 1 .. Len(shown)
<1>1. created \in 0 .. MaxSessions /\ runtime.session \in 0 .. created
      /\ retired \subseteq 1 .. created
  BY DEF Typed, ExitInv, FreshIsUnwatched, StoreTyped
<1> QED BY <1>1, CreatedSessions
        DEF Typed, StoreTyped, HistoryTyped, ExitInv, OutputTyped

LEMMA RisingNone == Rising(<< >>) /\ ToSet(<< >>) = {}
<1>1. DOMAIN << >> = {}
  OBVIOUS
<1>2. << >> \in Seq(Chunks)
  OBVIOUS
<1>3. ToSet(<< >>) = {}
  BY <1>2, ToSetAt
<1> QED BY <1>1, <1>3 DEF Rising

LEMMA DataKept ==
  ASSUME Typed, DataInv, Untouched
  PROVE  /\ Flow' /\ GivenUpIsEmpty' /\ OutputInOrder'
         /\ runtime'.session \in {runtime.session, NoSession} => Claimed'
<1>1. /\ Flow /\ GivenUpIsEmpty /\ Claimed /\ OutputInOrder
      /\ UNCHANGED <<events, pending, taken, holding>> /\ early \subseteq early'
  BY DEF DataInv, Untouched
<1>2. /\ unclaimed \in [Sessions -> Seq(Chunks)] /\ lost \in [Sessions -> SUBSET Chunks]
      /\ runtime.session \in Sessions \cup {NoSession} /\ retired \subseteq Sessions
  BY DataTyped
<1>3. /\ retired \subseteq retired' /\ retired' \subseteq Sessions
      /\ \A s \in Sessions :
           \/ unclaimed'[s] = unclaimed[s] /\ (s \in retired' <=> s \in retired)
           \/ unclaimed'[s] = << >> /\ s \in retired'
  <2>1. CASE UNCHANGED <<retired, unclaimed>>
    BY <1>2, <2>1
  <2>2. CASE \E d \in Sessions, again \in BOOLEAN : GiveUp(d, again)
    BY <1>2, <2>2 DEF GiveUp
  <2> QED BY <2>1, <2>2 DEF Untouched
<1>4. \A s \in Sessions :
        \/ ShownOf(s)' = ShownOf(s) /\ lost'[s] = lost[s]
        \/ ShownOf(s)' = {} /\ lost'[s] = lost[s] \cup ShownOf(s)
  <2>1. CASE ClearViewport
    BY <2>1 DEF ClearViewport, ShownOf
  <2>2. CASE UNCHANGED <<shown, lost>>
    BY <2>2 DEF ShownOf
  <2> QED BY <2>1, <2>2 DEF Untouched
<1>5. ASSUME NEW s \in Sessions, NEW n \in Nat, Came(s, n) PROVE Came(s, n)'
  <2>1. /\ ShownOf(s)' \subseteq ShownOf(s)
        /\ ShownOf(s) \cup lost[s] \subseteq ShownOf(s)' \cup lost'[s]
    BY <1>4
  <2>2. CASE unclaimed'[s] = unclaimed[s] /\ (s \in retired' <=> s \in retired)
    BY <1>1, <1>5, <2>1, <2>2 DEF Came
  <2>3. CASE unclaimed'[s] = << >> /\ s \in retired'
    BY <1>5, <2>1, <2>3, RisingNone DEF Came
  <2> QED BY <1>3, <2>2, <2>3
<1>6. \A s : InLine(s)' = InLine(s) /\ Hand(s)' = Hand(s)
  BY <1>1 DEF InLine, Hand
<1>7. Flow'
  <2> SUFFICES ASSUME NEW s \in Sessions
               PROVE  \E n \in Nat : Way(InLine(s)', Hand(s)', n, taken'[s]) /\ Came(s, n)'
    BY DEF Flow
  <2>1. PICK n \in Nat : Way(InLine(s), Hand(s), n, taken[s]) /\ Came(s, n)
    BY <1>1 DEF Flow
  <2>2. Way(InLine(s)', Hand(s)', n, taken'[s])
    BY <1>1, <1>6, <2>1
  <2> QED BY <1>5, <2>1, <2>2
<1>8. GivenUpIsEmpty'
  BY <1>1, <1>3 DEF GivenUpIsEmpty
<1>9. OutputInOrder'
  BY <1>1, OrderStays DEF Untouched, ClearViewport
<1>10. ASSUME runtime'.session \in {runtime.session, NoSession} PROVE Claimed'
  <2> SUFFICES ASSUME runtime'.session \notin early' \cup {NoSession}
               PROVE  unclaimed'[runtime'.session] = << >>
    BY DEF Claimed
  <2>1. unclaimed[runtime.session] = << >> /\ runtime'.session = runtime.session
    BY <1>1, <1>10 DEF Claimed
  <2> QED BY <1>2, <1>3, <1>10, <2>1
<1> QED BY <1>7, <1>8, <1>9, <1>10

LEMMA DataSurface ==
  ASSUME Typed, DataInv, EnsureTerminal \/ Restart \/ CloseTerminal \/ Hide \/ Show
  PROVE  DataInv'
<1>1. runtime.session \in Sessions \cup {NoSession}
  BY DataTyped
<1>2. /\ UNCHANGED <<events, pending, taken, holding, early>>
      /\ ClearViewport \/ UNCHANGED <<shown, lost>>
      /\ runtime'.session \in {runtime.session, NoSession}
  <2>1. CASE EnsureTerminal
    BY <2>1 DEF EnsureTerminal, Act, native, Starting
  <2>2. CASE Restart
    BY <2>2 DEF Restart, Act, native, Starting
  <2>3. CASE CloseTerminal
    BY <2>3 DEF CloseTerminal, Act, native, NoRuntime
  <2>4. CASE Hide \/ Show
    BY <2>4 DEF Hide, Show, Act, native, store
  <2> QED BY <2>1, <2>2, <2>3, <2>4
<1>3. UNCHANGED <<retired, unclaimed>> \/ \E d \in Sessions, again \in BOOLEAN : GiveUp(d, again)
  BY <1>1 DEF EnsureTerminal, Restart, CloseTerminal, Hide, Show, store
<1>4. Untouched
  BY <1>2, <1>3 DEF Untouched
<1> QED BY <1>2, <1>4, DataKept DEF DataInv

(* The surface is built again: what it showed, and what came while it was  *)
(* not there, is lost.                                                     *)
LEMMA DataReload ==
  ASSUME Typed, DataInv, Reload
  PROVE  DataInv'
<1>1. /\ Flow /\ UNCHANGED <<events, pending, taken, holding>>
      /\ unclaimed' = [s \in Sessions |-> << >>] /\ shown' = << >> /\ retired' = {}
      /\ runtime' = NoRuntime
      /\ lost' = [s \in Sessions |->
                    IF s \in retired THEN Chunks
                    ELSE lost[s] \cup ShownOf(s) \cup ToSet(unclaimed[s])]
  BY DEF DataInv, Reload, Act, native
<1>2. GivenUpIsEmpty' /\ OutputInOrder' /\ Claimed'
  BY <1>1 DEF GivenUpIsEmpty, OutputInOrder, Claimed, NoRuntime
<1>3. \A s : InLine(s)' = InLine(s) /\ Hand(s)' = Hand(s)
  BY <1>1 DEF InLine, Hand
<1>4. Flow'
  <2> SUFFICES ASSUME NEW s \in Sessions
               PROVE  \E n \in Nat : Way(InLine(s)', Hand(s)', n, taken'[s]) /\ Came(s, n)'
    BY DEF Flow
  <2>1. PICK n \in Nat : Way(InLine(s), Hand(s), n, taken[s]) /\ Came(s, n)
    BY <1>1 DEF Flow
  <2>2. Way(InLine(s)', Hand(s)', n, taken'[s])
    BY <1>1, <1>3, <2>1
  <2>3. ShownOf(s)' = {} /\ unclaimed'[s] = << >>
    BY <1>1 DEF ShownOf
  <2>4. 1 .. n \subseteq lost'[s]
    <3>1. CASE s \in retired
      <4>1. taken[s] \in 0 .. MaxOutput /\ n \in 0 .. taken[s]
        BY <2>1 DEF Way, Typed, ExitInv, OutputTyped
      <4> QED BY <1>1, <3>1, <4>1, TerminalBounds DEF Chunks
    <3>2. CASE s \notin retired
      BY <1>1, <2>1, <3>2 DEF Came
    <3> QED BY <3>1, <3>2
  <2>5. Came(s, n)'
    BY <2>3, <2>4, RisingNone DEF Came
  <2> QED BY <2>2, <2>5
<1> QED BY <1>2, <1>4 DEF DataInv

LEMMA DataThreads ==
  ASSUME Typed, DataInv, NEW s \in Sessions, Threads(s)
  PROVE  DataInv'
<1>1. UNCHANGED <<runtime, retired, unclaimed, shown, lost, early>>
  <2>1. CASE ReaderReads(s)
    BY <2>1 DEF ReaderReads, store
  <2>2. CASE ReaderSends(s) \/ MonitorPolls(s) \/ MonitorRemoves(s) \/ MonitorReports(s)
               \/ Flush(s)
    BY <2>2 DEF ReaderSends, MonitorPolls, MonitorRemoves, MonitorReports, Flush, elsewhere, store
  <2> QED BY <2>1, <2>2 DEF Threads
<1>2. GivenUpIsEmpty' /\ Claimed' /\ OutputInOrder'
  BY <1>1 DEF DataInv, GivenUpIsEmpty, Claimed, OutputInOrder, ShownInOrder
<1>3. \A t, n : Came(t, n)' <=> Came(t, n)
  BY <1>1 DEF Came, ShownOf
<1>4. Flow'
  <2> SUFFICES ASSUME NEW t \in Sessions
               PROVE  \E n \in Nat : Way(InLine(t)', Hand(t)', n, taken'[t]) /\ Came(t, n)'
    BY DEF Flow
  <2>1. PICK n \in Nat : Way(InLine(t), Hand(t), n, taken[t]) /\ Came(t, n)
    BY DEF DataInv, Flow
  <2>2. Way(InLine(t)', Hand(t)', n, taken'[t])
    BY <2>1, WayThreads
  <2> QED BY <1>3, <2>1, <2>2
<1> QED BY <1>2, <1>4 DEF DataInv

LEMMA DataReceiveExit ==
  ASSUME Typed, DataInv, NEW s \in Sessions, ReceiveExit(s)
  PROVE  DataInv'
<1>1. /\ UNCHANGED <<pending, taken, holding, retired, unclaimed, shown, lost, early>>
      /\ events[s] # << >> /\ Head(events[s]) = Exit
      /\ events' = [events EXCEPT ![s] = Tail(@)]
      /\ runtime' \in {runtime, [runtime EXCEPT !.busy = FALSE, !.status = "exited"]}
  BY DEF ReceiveExit, Receives, native
<1>2. runtime'.session = runtime.session
  BY <1>1 DEF Typed, StoreTyped
<1>3. GivenUpIsEmpty' /\ Claimed' /\ OutputInOrder'
  BY <1>1, <1>2 DEF DataInv, GivenUpIsEmpty, Claimed, OutputInOrder, ShownInOrder
<1>4. \A t, n : Came(t, n)' <=> Came(t, n)
  BY <1>1 DEF Came, ShownOf
<1>5. Flow'
  <2> SUFFICES ASSUME NEW t \in Sessions
               PROVE  \E n \in Nat : Way(InLine(t)', Hand(t)', n, taken'[t]) /\ Came(t, n)'
    BY DEF Flow
  <2>1. PICK n \in Nat : Way(InLine(t), Hand(t), n, taken[t]) /\ Came(t, n)
    BY DEF DataInv, Flow
  <2>2. Way(InLine(t)', Hand(t)', n, taken'[t])
    <3>1. CASE t = s
      BY <1>1, <2>1, <3>1, WayReceive
    <3>2. CASE t # s
      BY <1>1, <2>1, <3>2, WayReceive
    <3> QED BY <3>1, <3>2
  <2> QED BY <1>4, <2>1, <2>2
<1> QED BY <1>3, <1>5 DEF DataInv

LEMMA SingleRises ==
  ASSUME NEW c \in Chunks
  PROVE  <<c>> \in Seq(Chunks) /\ Rising(<<c>>) /\ ToSet(<<c>>) = {c}
<1> DEFINE q == <<c>>
<1>1. q \in Seq(Chunks) /\ DOMAIN q = 1 .. 1 /\ Len(q) = 1 /\ q[1] = c
  OBVIOUS
<1> SUFFICES q \in Seq(Chunks) /\ Rising(q) /\ ToSet(q) = {c}
  OBVIOUS
<1> HIDE DEF q
<1>2. Rising(q)
  BY <1>1 DEF Rising
<1>3. ToSet(q) = {c}
  BY <1>1 DEF ToSet
<1> QED BY <1>1, <1>2, <1>3

(* A chunk that comes is shown behind the others, kept behind the others,  *)
(* or lost.                                                                *)
LEMMA DataReceiveOutput ==
  ASSUME Typed, DataInv, NEW s \in Sessions, ReceiveOutput(s)
  PROVE  DataInv'
<1> DEFINE c == Head(events[s])
<1>1. /\ UNCHANGED <<pending, taken, holding, retired, runtime, early>>
      /\ events[s] # << >> /\ c # Exit
      /\ events' = [events EXCEPT ![s] = Tail(@)]
  BY DEF ReceiveOutput, Receives, native
<1>2. \/ /\ Unheard(s) /\ UNCHANGED <<shown, unclaimed>>
         /\ lost' = IF s \in retired THEN lost ELSE [lost EXCEPT ![s] = @ \cup {c}]
      \/ /\ s \notin retired /\ runtime.session = s
         /\ Write(s, <<c>>) /\ UNCHANGED <<lost, unclaimed>>
      \/ /\ s \notin retired /\ runtime.session # s
         /\ unclaimed' = [unclaimed EXCEPT ![s] = Append(@, c)]
         /\ UNCHANGED <<lost, shown>>
  BY DEF ReceiveOutput, Unheard
<1>3. /\ unclaimed \in [Sessions -> Seq(Chunks)] /\ lost \in [Sessions -> SUBSET Chunks]
      /\ c \in Chunks /\ s # NoSession
  <2>1. events[s] \in Seq(Chunks \cup {Exit})
    BY DataTyped
  <2>2. c \in Chunks \cup {Exit}
    BY <1>1, <2>1
  <2> QED BY <1>1, <2>2, DataTyped DEF Sessions, NoSession
<1>4. Flow /\ GivenUpIsEmpty /\ Claimed /\ OutputInOrder
  BY DEF DataInv
<1>5. PICK n \in Nat : Way(InLine(s), Hand(s), n, taken[s]) /\ Came(s, n)
  BY <1>4 DEF Flow
<1>6. /\ c = n + 1 /\ Way(InLine(s)', Hand(s)', n + 1, taken'[s])
      /\ \A t \in Sessions \ {s} : InLine(t)' = InLine(t)
      /\ \A t \in Sessions : Hand(t)' = Hand(t) /\ taken'[t] = taken[t]
  BY <1>1, <1>5, WayReceive
<1> HIDE DEF c
<1>7. /\ ShownOf(s) \subseteq 1 .. n /\ Rising(unclaimed[s]) /\ ToSet(unclaimed[s]) \subseteq 1 .. n
      /\ s \notin retired => 1 .. n \subseteq ShownOf(s) \cup lost[s] \cup ToSet(unclaimed[s])
      /\ s \notin early => \A x \in ShownOf(s), y \in ToSet(unclaimed[s]) : x < y
      /\ 1 .. n + 1 = 1 .. n \cup {c}
  BY <1>5, <1>6 DEF Came
<1>8. ASSUME Came(s, n + 1)', GivenUpIsEmpty', Claimed', OutputInOrder',
             \A t \in Sessions \ {s} :
               ShownOf(t)' = ShownOf(t) /\ unclaimed'[t] = unclaimed[t] /\ lost'[t] = lost[t]
      PROVE  DataInv'
  <2>1. ASSUME NEW t \in Sessions \ {s}
        PROVE  \E k \in Nat : Way(InLine(t)', Hand(t)', k, taken'[t]) /\ Came(t, k)'
    <3>1. PICK k \in Nat : Way(InLine(t), Hand(t), k, taken[t]) /\ Came(t, k)
      BY <1>4 DEF Flow
    <3>2. Came(t, k)'
      BY <1>1, <1>8, <3>1 DEF Came
    <3> QED BY <1>6, <3>1, <3>2
  <2>2. Flow'
    BY <1>6, <1>8, <2>1 DEF Flow
  <2> QED BY <1>8, <2>2 DEF DataInv
<1>9. CASE /\ Unheard(s) /\ UNCHANGED <<shown, unclaimed>>
           /\ lost' = IF s \in retired THEN lost ELSE [lost EXCEPT ![s] = @ \cup {c}]
  <2>1. /\ \A t \in Sessions \ {s} : lost'[t] = lost[t]
        /\ lost'[s] = IF s \in retired THEN lost[s] ELSE lost[s] \cup {c}
        /\ \A t : ShownOf(t)' = ShownOf(t)
    BY <1>3, <1>9 DEF ShownOf
  <2>2. Came(s, n + 1)'
    BY <1>1, <1>7, <1>9, <2>1 DEF Came
  <2>3. OutputInOrder'
    <3>1. \A t \in Sessions : lost[t] \subseteq lost'[t]
      BY <2>1
    <3> QED BY <1>1, <1>4, <1>9, <3>1, OrderStays
  <2>4. GivenUpIsEmpty' /\ Claimed'
    BY <1>1, <1>4, <1>9 DEF GivenUpIsEmpty, Claimed
  <2> QED BY <1>8, <1>9, <2>1, <2>2, <2>3, <2>4
<1>10. CASE /\ s \notin retired /\ runtime.session = s
            /\ Write(s, <<c>>) /\ UNCHANGED <<lost, unclaimed>>
  <2>1. <<c>> \in Seq(Chunks) /\ Rising(<<c>>) /\ ToSet(<<c>>) = {c}
    BY <1>3, SingleRises
  <2>2. /\ ShownOf(s)' = ShownOf(s) \cup {c}
        /\ \A t \in Sessions \ {s} : ShownOf(t)' = ShownOf(t)
    BY <1>10, <2>1, ShownWritten
  <2>3. s \notin early => ToSet(unclaimed[s]) = {}
    BY <1>3, <1>4, <1>10, RisingNone DEF Claimed
  <2>4. Came(s, n + 1)'
    BY <1>1, <1>7, <1>10, <2>2, <2>3 DEF Came
  <2>5. s \notin early =>
          \A d \in ToSet(<<c>>) :
            /\ \A x \in ShownOf(s) : x < d
            /\ 1 .. d - 1 \subseteq ShownOf(s) \cup lost[s] \cup ToSet(<<c>>)
    BY <1>6, <1>7, <1>10, <2>1, <2>3
  <2>6. OutputInOrder'
    BY <1>1, <1>4, <1>10, <2>1, <2>5, OrderWritten
  <2>7. GivenUpIsEmpty' /\ Claimed'
    BY <1>1, <1>4, <1>10 DEF GivenUpIsEmpty, Claimed
  <2> QED BY <1>8, <1>10, <2>2, <2>4, <2>6, <2>7
<1>11. CASE /\ s \notin retired /\ runtime.session # s
            /\ unclaimed' = [unclaimed EXCEPT ![s] = Append(@, c)]
            /\ UNCHANGED <<lost, shown>>
  <2> DEFINE q == unclaimed[s]
  <2>1. /\ unclaimed'[s] = Append(q, c) /\ \A t \in Sessions \ {s} : unclaimed'[t] = unclaimed[t]
        /\ q \in Seq(Chunks) /\ q \in Seq(Marks) /\ c \in Marks
        /\ Rising(q) /\ ToSet(q) \subseteq 1 .. n
    BY <1>3, <1>7, <1>11, LineTyped DEF Marks
  <2> HIDE DEF q
  <2>2. \A x \in ChunksOf(q) : x < c
    BY <1>6, <2>1 DEF ChunksOf
  <2>3. /\ Rising(Append(q, c)) /\ Append(q, c) \in Seq(Chunks)
        /\ ToSet(Append(q, c)) \ {Exit} = ChunksOf(q) \cup {c}
    BY <1>1, <1>3, <2>1, <2>2, RisingAppend DEF ChunksOf
  <2>4. ToSet(q) \subseteq Chunks /\ ToSet(Append(q, c)) \subseteq Chunks /\ Exit \notin Chunks
    BY <2>1, <2>3, ToSetAt, MarksAreNumbers
  <2>5. ToSet(Append(q, c)) = ToSet(q) \cup {c}
    BY <2>3, <2>4 DEF ChunksOf
  <2>6. \A t : ShownOf(t)' = ShownOf(t)
    BY <1>11 DEF ShownOf
  <2>7. Came(s, n + 1)'
    <3>1. \A x \in ShownOf(s) : x < c
      BY <1>6, <1>7
    <3> QED BY <1>1, <1>7, <1>11, <2>1, <2>3, <2>5, <2>6, <3>1 DEF Came, q
  <2>8. OutputInOrder'
    BY <1>1, <1>4, <1>11, OrderStays
  <2>9. GivenUpIsEmpty' /\ Claimed'
    <3>1. runtime.session \in Sessions \cup {NoSession} /\ retired \subseteq Sessions
      BY DataTyped
    <3> QED BY <1>1, <1>4, <1>11, <2>1, <3>1 DEF GivenUpIsEmpty, Claimed
  <2> QED BY <1>8, <1>11, <2>1, <2>6, <2>7, <2>8, <2>9
<1> QED BY <1>2, <1>9, <1>10, <1>11

(* The tab takes the session whose creation it awaits, with what came of   *)
(* it so far.                                                              *)
LEMMA DataCreated ==
  ASSUME Typed, DataInv, NEW a, a.session \in Sessions, ReceiveCreated(a),
         UNCHANGED <<events, pending, taken, holding, lost, early>>
  PROVE  DataInv'
<1> DEFINE s == a.session
           q == unclaimed[s]
<1>1. /\ Write(s, q) /\ unclaimed' = [unclaimed EXCEPT ![s] = << >>]
      /\ UNCHANGED retired /\ runtime'.session = s
  BY DEF ReceiveCreated
<1>2. /\ unclaimed \in [Sessions -> Seq(Chunks)] /\ s \in Sessions /\ q \in Seq(Chunks)
  BY DataTyped
<1>3. unclaimed'[s] = << >> /\ \A t \in Sessions \ {s} : unclaimed'[t] = unclaimed[t]
  BY <1>1, <1>2
<1>4. Flow /\ GivenUpIsEmpty /\ OutputInOrder /\ (s \in retired => ToSet(q) = {})
  BY RisingNone DEF DataInv, GivenUpIsEmpty
<1>5. PICK n \in Nat : Way(InLine(s), Hand(s), n, taken[s]) /\ Came(s, n)
  BY <1>2, <1>4 DEF Flow
<1>6. /\ ShownOf(s) \subseteq 1 .. n /\ Rising(q) /\ ToSet(q) \subseteq 1 .. n
      /\ s \notin retired => 1 .. n \subseteq ShownOf(s) \cup lost[s] \cup ToSet(q)
      /\ s \notin early => \A x \in ShownOf(s), y \in ToSet(q) : x < y
  BY <1>5 DEF Came
<1> HIDE DEF s, q
<1>7. /\ ShownOf(s)' = ShownOf(s) \cup ToSet(q)
      /\ \A t \in Sessions \ {s} : ShownOf(t)' = ShownOf(t)
  BY <1>1, <1>2, ShownWritten
<1>8. \A t : InLine(t)' = InLine(t) /\ Hand(t)' = Hand(t)
  BY DEF InLine, Hand
<1>9. Came(s, n)'
  BY <1>1, <1>3, <1>6, <1>7, RisingNone DEF Came
<1>10. Flow'
  <2> SUFFICES ASSUME NEW t \in Sessions
               PROVE  \E k \in Nat : Way(InLine(t)', Hand(t)', k, taken'[t]) /\ Came(t, k)'
    BY DEF Flow
  <2>1. CASE t = s
    <3>1. Way(InLine(t)', Hand(t)', n, taken'[t])
      BY <1>5, <1>8, <2>1 DEF s
    <3> QED BY <1>9, <2>1, <3>1
  <2>2. CASE t # s
    <3>1. PICK k \in Nat : Way(InLine(t), Hand(t), k, taken[t]) /\ Came(t, k)
      BY <1>4 DEF Flow
    <3>2. Came(t, k)'
      BY <1>1, <1>3, <1>7, <2>2, <3>1 DEF Came
    <3> QED BY <1>8, <3>1, <3>2
  <2> QED BY <2>1, <2>2
<1>11. OutputInOrder'
  <2>1. s \notin early =>
          \A d \in ToSet(q) :
            /\ \A x \in ShownOf(s) : x < d
            /\ 1 .. d - 1 \subseteq ShownOf(s) \cup lost[s] \cup ToSet(q)
    <3> SUFFICES ASSUME s \notin early, NEW d \in ToSet(q)
                 PROVE  /\ \A x \in ShownOf(s) : x < d
                        /\ 1 .. d - 1 \subseteq ShownOf(s) \cup lost[s] \cup ToSet(q)
      OBVIOUS
    <3>1. d \in 1 .. n /\ 1 .. d - 1 \subseteq 1 .. n
      BY <1>6
    <3> QED BY <1>4, <1>6, <3>1
  <2> QED BY <1>1, <1>2, <1>4, <1>6, <2>1, OrderWritten
<1>12. GivenUpIsEmpty' /\ Claimed'
  <2>1. retired \subseteq Sessions
    BY DataTyped
  <2> QED BY <1>1, <1>3, <1>4, <2>1 DEF GivenUpIsEmpty, Claimed
<1> QED BY <1>10, <1>11, <1>12 DEF DataInv

(* A list gives the tab a session it holds already, has given up, or       *)
(* awaits.                                                                 *)
LEMMA DataAnswer ==
  ASSUME Typed, NewAreAnnounced, DataInv, ReceiveAnswer
  PROVE  DataInv'
<1> DEFINE a == Head(answers)
<1>1. /\ UNCHANGED <<events, pending, taken, holding, lost>> /\ early \subseteq early'
      /\ a.op # "listed" => early' = early
      /\ a.op = "listed" /\ runtime.busy => a.session \in early'
      /\ answers # << >>
      /\ ReceiveStale(a) \/ ReceiveCreated(a) \/ ReceiveFailure(a) \/ ReceiveClosed(a)
           \/ ReceiveList(a)
  BY DEF ReceiveAnswer, native
<1>2. /\ a \in GoodAnswers(created) /\ a = answers[1] /\ 1 \in DOMAIN answers
      /\ created \in 0 .. MaxSessions
  BY <1>1 DEF Typed, MessagesTyped, ExitInv, FreshIsUnwatched
<1>3. /\ a.op = "created" => a.session \in Sessions
      /\ a.session \in Sessions \cup {NoSession} /\ a.op \in {"created", "failed", "closed", "listed"}
  BY <1>2, CreatedSessions DEF GoodAnswers, Answer
<1>4. /\ runtime \in [session : 0 .. created, busy : BOOLEAN, status : Statuses \cup {"none"}]
      /\ runtime.busy \in BOOLEAN
  BY DEF Typed, StoreTyped
<1>5. 1 \in Places
  BY DEF Places
<1> HIDE DEF a
<1>6. ASSUME ReceiveStale(a) PROVE DataInv'
  <2>1. /\ runtime' = runtime /\ shown' = shown
        /\ UNCHANGED <<retired, unclaimed>> \/ GiveUp(a.session, FALSE)
        /\ a.session \in Sessions
    BY <1>3, <1>6 DEF ReceiveStale
  <2>2. Untouched
    BY <1>1, <2>1 DEF Untouched
  <2> QED BY <2>1, <2>2, DataKept DEF DataInv
<1>7. ASSUME ReceiveCreated(a) PROVE DataInv'
  BY <1>1, <1>3, <1>7, DataCreated DEF ReceiveCreated
<1>8. ASSUME ReceiveFailure(a) \/ ReceiveClosed(a) PROVE DataInv'
  <2>1. /\ UNCHANGED <<retired, unclaimed, shown>>
        /\ runtime' \in {runtime, [runtime EXCEPT !.busy = FALSE, !.status = "error"]}
    BY <1>8 DEF ReceiveFailure, ReceiveClosed
  <2>2. Untouched
    BY <1>1, <2>1 DEF Untouched
  <2>3. runtime'.session = runtime.session
    BY <1>4, <2>1
  <2> QED BY <2>2, <2>3, DataKept DEF DataInv
<1>9. ASSUME ReceiveList(a) PROVE DataInv'
  <2>1. /\ UNCHANGED <<retired, unclaimed, shown>> /\ a.op = "listed"
        /\ \/ runtime' = runtime
           \/ /\ runtime # NoRuntime /\ a.session # NoSession
              /\ runtime'.session = a.session
    BY <1>9 DEF ReceiveList
  <2>2. Untouched
    BY <1>1, <2>1 DEF Untouched
  <2>3. /\ Flow' /\ GivenUpIsEmpty' /\ OutputInOrder'
        /\ runtime'.session \in {runtime.session, NoSession} => Claimed'
    BY <2>2, DataKept
  <2>4. CASE runtime.busy
    BY <1>1, <2>1, <2>3, <2>4 DEF Claimed, DataInv
  <2>5. CASE ~runtime.busy /\ runtime # NoRuntime /\ a.session # NoSession
             /\ runtime'.session = a.session
    <3>1. a.session \in Sessions /\ Names(1, a.session)
      BY <1>2, <1>3, <2>1, <2>5 DEF Names
    <3>2. ~CreatedBefore(0, 1, a.session)
      <4>1. DOMAIN answers \subseteq Nat
        BY DEF Typed, MessagesTyped
      <4> QED BY <4>1 DEF CreatedBefore
    <3>3. runtime.session = a.session \/ a.session \in retired
      BY <1>5, <2>5, <3>1, <3>2 DEF NewAreAnnounced
    <3>4. a.session \in retired => Claimed'
      BY <2>1, <2>5 DEF Claimed, DataInv, GivenUpIsEmpty
    <3> QED BY <2>3, <2>5, <3>3, <3>4 DEF DataInv
  <2> QED BY <1>4, <2>1, <2>3, <2>4, <2>5 DEF DataInv
<1> QED BY <1>1, <1>6, <1>7, <1>8, <1>9

LEMMA InitData == Init => DataInv
<1> SUFFICES ASSUME Init PROVE DataInv
  OBVIOUS
<1>1. /\ shown = << >> /\ retired = {} /\ holding = {} /\ runtime = NoRuntime
      /\ \A s \in Sessions : /\ taken[s] = 0 /\ unclaimed[s] = << >> /\ events[s] = << >>
                             /\ pending[s] = << >>
  BY DEF Init
<1>2. GivenUpIsEmpty /\ Claimed /\ OutputInOrder
  BY <1>1 DEF GivenUpIsEmpty, Claimed, OutputInOrder, NoRuntime
<1>3. ASSUME NEW s \in Sessions
      PROVE  Way(InLine(s), Hand(s), 0, taken[s]) /\ Came(s, 0)
  <2>1. InLine(s) = << >> /\ Hand(s) = {} /\ ShownOf(s) = {}
    BY <1>1 DEF InLine, Hand, ShownOf
  <2>2. ChunksOf(<< >>) = {} /\ Rising(<< >>)
    BY RisingNone DEF ChunksOf
  <2>3. Way(<< >>, {}, 0, 0)
    BY <2>2 DEF Way
  <2>4. Came(s, 0)
    BY <1>1, <2>1, RisingNone DEF Came
  <2> QED BY <1>1, <2>1, <2>3, <2>4
<1>4. Flow
  BY <1>3 DEF Flow
<1> QED BY <1>2, <1>4 DEF DataInv

LEMMA NextData == EndInv /\ NamesInv /\ DataInv /\ [Next]_vars => DataInv'
<1> SUFFICES ASSUME EndInv, NamesInv, DataInv, [Next]_vars PROVE DataInv'
  OBVIOUS
<1>1. Typed /\ NewAreAnnounced
  BY DEF EndInv, NamesInv
<1>2. CASE UNCHANGED vars
  <2>1. UNCHANGED <<events, pending, taken, holding, early, shown, lost, retired, unclaimed, runtime>>
    BY <1>2 DEF vars, native, store
  <2>2. Untouched
    BY <2>1 DEF Untouched
  <2> QED BY <1>1, <2>1, <2>2, DataKept DEF DataInv
<1>3. CASE \E s \in Sessions : Receive(s)
  BY <1>1, <1>3, DataReceiveOutput, DataReceiveExit DEF Receive
<1>4. CASE Serve
  <2>1. UNCHANGED <<events, pending, taken, holding, early, shown, lost, retired, unclaimed, runtime>>
    BY <1>4 DEF Serve, ServeReuse, ServeCreate, ServeFailure, ServeClose, ServeList, native, store
  <2>2. Untouched
    BY <2>1 DEF Untouched
  <2> QED BY <1>1, <2>1, <2>2, DataKept DEF DataInv
<1> QED BY <1>1, <1>2, <1>3, <1>4, DataSurface, DataReload, DataThreads, DataAnswer DEF Next

LEMMA InitNames == Init => NewAreAnnounced /\ EpochsInOrder
BY DEF Init, NewAreAnnounced, Names, EpochsInOrder

LEMMA NextNames ==
  EndInv /\ NamesInv /\ [Next]_vars => NewAreAnnounced' /\ EpochsInOrder'
<1> SUFFICES ASSUME EndInv, NamesInv, [Next]_vars PROVE NewAreAnnounced' /\ EpochsInOrder'
  OBVIOUS
<1>1. CASE UNCHANGED vars
  BY <1>1 DEF vars, native, store, NamesInv, NewAreAnnounced, Names, CreatedBefore, EpochsInOrder
<1> QED BY <1>1, NamesSurface, NamesServe, NamesAnswer, NamesThreads, NamesReceive DEF Next

(* What a viewport shows of a session is what the process printed, once,   *)
(* in order, and without a gap that a hidden surface or a torn down        *)
(* viewport does not explain: however its chunks, the answer that gives    *)
(* the tab the session, and a restart or a close of the tab overtake each  *)
(* other (handleTerminalOutput, createSessionForTerminal, the coalescer).  *)
THEOREM OutputIsInOrder == Spec => []OutputInOrder
<1>1. Init => EndInv /\ NewAreAnnounced /\ EpochsInOrder /\ DataInv
  BY InitEnd, InitNames, InitData
<1>2. /\ EndInv /\ NewAreAnnounced /\ EpochsInOrder /\ DataInv
      /\ OneSessionPerTerminal /\ [Next]_vars
      => (EndInv /\ NewAreAnnounced /\ EpochsInOrder /\ DataInv)'
  BY NextEnd, NextNames, NextData DEF NamesInv
<1>3. DataInv => OutputInOrder
  BY DEF DataInv
<1> QED BY <1>1, <1>2, <1>3, OneSession, PTL DEF Spec
=============================================================================
