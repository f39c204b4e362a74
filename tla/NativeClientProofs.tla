------------------------- MODULE NativeClientProofs -------------------------
(***************************************************************************)
(* Theorems about NativeClient: its types, that nobody waits for a process *)
(* that has ended, and that it implements RequestLedger, for every number  *)
(* of requests and whatever the sidecar does.                              *)
(***************************************************************************)
EXTENDS NativeClient, TLAPS

-----------------------------------------------------------------------------
(* The inductive invariant *)

\* The table of pending requests holds the open ones, each with its timer.
TableIsExact ==
    /\ pending = {i \in Ids : outcome[i] = "open"}
    /\ timers = pending

\* Ids are handed out in order, and one is kept for the farewell.
IdsAreFresh ==
    /\ \A i \in Ids : i >= nextRequestId => outcome[i] = "none"
    /\ disposal = "none" => nextRequestId <= MaxRequests

\* The sidecar knows only requests that were sent.
SidecarKnowsSent ==
    /\ \A i \in doing : outcome[i] # "none"
    /\ \A n \in DOMAIN stdin : outcome[stdin[n]] # "none"

\* An answer on the wire names a request, and a success one that is done.
WireIsHonest ==
    \A n \in DOMAIN wire :
        wire[n].k = "response" =>
            wire[n].id \in Ids /\ (wire[n].ok => wire[n].id \in done)

EndedIsEmpty == exited \/ disposal = "done" => pending = {}

IInv ==
    /\ TypeOK
    /\ TableIsExact
    /\ IdsAreFresh
    /\ SidecarKnowsSent
    /\ WireIsHonest
    /\ EndedIsEmpty

-----------------------------------------------------------------------------
(* The table *)

\* Settling a request keeps the table exact, and fresh ids fresh; what was
\* sent stays sent.
LEMMA SettledKeeps ==
    ASSUME TypeOK, TableIsExact, IdsAreFresh, NEW i, NEW result \in {"ok", "error", "failed"},
           Settled(i, result)
    PROVE  /\ nextRequestId' = nextRequestId
           /\ pending' \subseteq pending
           /\ timers' \subseteq Ids
           /\ outcome' \in [Ids -> {"none", "open", "ok", "error", "failed"}]
           /\ TableIsExact'
           /\ \A j \in Ids : outcome'[j] = "none" <=> outcome[j] = "none"
  <1>1. CASE i \in pending
    <2>1. /\ i \in Ids
          /\ outcome[i] = "open"
      BY <1>1 DEF TableIsExact
    <2>2. outcome' = [outcome EXCEPT ![i] = result]
      BY <1>1 DEF Settled
    <2>3. outcome' \in [Ids -> {"none", "open", "ok", "error", "failed"}]
      BY <2>1, <2>2 DEF TypeOK
    <2>4. \A j \in Ids : outcome'[j] = IF j = i THEN result ELSE outcome[j]
      BY <2>1, <2>2 DEF TypeOK
    <2>5. pending' = {j \in Ids : outcome'[j] = "open"}
      BY <1>1, <2>1, <2>4 DEF Settled, TableIsExact
    <2>6. timers' = pending'
      BY <1>1 DEF Settled, TableIsExact
    <2> QED
      BY <1>1, <2>1, <2>3, <2>4, <2>5, <2>6 DEF Settled, TableIsExact, TypeOK
  <1>2. CASE i \notin pending
    BY <1>2 DEF Settled, TableIsExact, TypeOK
  <1> QED
    BY <1>1, <1>2

\* Rejecting all of them empties the table.
LEMMA PendingRejectedKeeps ==
    ASSUME TypeOK, TableIsExact, PendingRejected
    PROVE  /\ nextRequestId' = nextRequestId
           /\ pending' = {}
           /\ timers' = {}
           /\ outcome' \in [Ids -> {"none", "open", "ok", "error", "failed"}]
           /\ TableIsExact'
           /\ \A j \in Ids : outcome'[j] = "none" <=> outcome[j] = "none"
  <1>1. /\ pending' = {}
        /\ timers' = {}
        /\ nextRequestId' = nextRequestId
    BY DEF PendingRejected, TableIsExact
  <1>2. \A j \in Ids : outcome'[j] = IF j \in pending THEN "failed" ELSE outcome[j]
    BY DEF PendingRejected
  <1>3. outcome' \in [Ids -> {"none", "open", "ok", "error", "failed"}]
    BY DEF PendingRejected, TypeOK
  <1>4. \A j \in Ids : outcome'[j] # "open"
    BY <1>2 DEF TableIsExact
  <1> QED
    BY <1>1, <1>2, <1>3, <1>4 DEF TableIsExact

\* A request that is sent takes the next id.
LEMMA SentKeeps ==
    ASSUME TypeOK, TableIsExact, IdsAreFresh, SidecarKnowsSent, NEW i \in Ids, Sent(i)
    PROVE  /\ nextRequestId' = nextRequestId + 1
           /\ nextRequestId' \in 1 .. MaxRequests + 1
           /\ outcome[i] = "none"
           /\ outcome'[i] = "open"
           /\ outcome' \in [Ids -> {"none", "open", "ok", "error", "failed"}]
           /\ pending' \subseteq Ids
           /\ timers' \subseteq Ids
           /\ stdin' \in Seq(Ids)
           /\ TableIsExact'
           /\ \A j \in Ids : j >= nextRequestId' => outcome'[j] = "none"
           /\ \A j \in Ids : outcome[j] # "none" => outcome'[j] # "none"
           /\ \A n \in DOMAIN stdin' : outcome'[stdin'[n]] # "none"
  <1> USE RequestsAssumption
  <1>1. /\ nextRequestId = i
        /\ nextRequestId' = i + 1
        /\ nextRequestId' \in 1 .. MaxRequests + 1
    BY DEF Sent, Ids
  <1>2. outcome[i] = "none"
    BY <1>1 DEF IdsAreFresh, Ids
  <1>3. \A j \in Ids : outcome'[j] = IF j = i THEN "open" ELSE outcome[j]
    BY DEF Sent, TypeOK
  <1>4. outcome' \in [Ids -> {"none", "open", "ok", "error", "failed"}]
    BY DEF Sent, TypeOK
  <1>5. /\ pending' = pending \cup {i}
        /\ timers' = pending'
        /\ pending' = {j \in Ids : outcome'[j] = "open"}
    BY <1>3 DEF Sent, TableIsExact
  <1>6. \A j \in Ids : j >= nextRequestId' => outcome'[j] = "none"
    BY <1>1, <1>3 DEF IdsAreFresh, Ids
  <1>7. stdin' = Append(stdin, i) /\ stdin \in Seq(Ids)
    BY DEF Sent, TypeOK
  <1>8. /\ stdin' \in Seq(Ids)
        /\ \A n \in DOMAIN stdin' : stdin'[n] = i \/ \E m \in DOMAIN stdin : stdin'[n] = stdin[m]
    BY <1>7
  <1>9. \A n \in DOMAIN stdin' : outcome'[stdin'[n]] # "none"
    <2> SUFFICES ASSUME NEW n \in DOMAIN stdin'
                 PROVE  outcome'[stdin'[n]] # "none"
      OBVIOUS
    <2>1. stdin'[n] \in Ids
      BY <1>8
    <2>2. CASE stdin'[n] = i
      BY <1>3, <2>2
    <2>3. CASE \E m \in DOMAIN stdin : stdin'[n] = stdin[m]
      BY <1>3, <2>1, <2>3 DEF SidecarKnowsSent
    <2> QED
      BY <1>8, <2>2, <2>3
  <1> QED
    BY <1>1, <1>2, <1>3, <1>4, <1>5, <1>6, <1>8, <1>9 DEF TableIsExact

-----------------------------------------------------------------------------
(* Every step keeps the invariant *)

LEMMA InitIInv == Init => IInv
  <1> SUFFICES ASSUME Init
               PROVE  IInv
    OBVIOUS
  <1> USE RequestsAssumption
  <1>1. nextRequestId \in 1 .. MaxRequests + 1 /\ shutdown \in 0 .. MaxRequests
    BY DEF Init
  <1>2. outcome \in [Ids -> {"none", "open", "ok", "error", "failed"}]
    BY DEF Init
  <1>3. stdin \in Seq(Ids) /\ wire \in Seq(Lines)
    BY DEF Init
  <1>4. TypeOK
    BY <1>1, <1>2, <1>3 DEF Init, TypeOK
  <1>5. TableIsExact
    BY DEF Init, TableIsExact
  <1>6. IdsAreFresh
    BY DEF Init, IdsAreFresh
  <1>7. SidecarKnowsSent /\ WireIsHonest /\ EndedIsEmpty
    BY DEF Init, SidecarKnowsSent, WireIsHonest, EndedIsEmpty
  <1> QED
    BY <1>4, <1>5, <1>6, <1>7 DEF IInv

\* A step that changes nothing but what the promises have become, as the
\* lemmas about the table describe it, and empties no table it should not.
LEMMA TableStepIInv ==
    ASSUME IInv,
           nextRequestId' = nextRequestId,
           pending' \subseteq pending,
           timers' \subseteq Ids,
           outcome' \in [Ids -> {"none", "open", "ok", "error", "failed"}],
           TableIsExact',
           \A j \in Ids : outcome'[j] = "none" <=> outcome[j] = "none",
           UNCHANGED <<child, stdin, doing, done>>,
           wire' \in Seq(Lines), WireIsHonest',
           exited' \in BOOLEAN, signalled' \in BOOLEAN, shutdown' = shutdown,
           disposal' \in {"none", "asking", "waiting", "done"},
           disposal' = "none" => disposal = "none",
           exited' \/ disposal' = "done" => pending' = {}
    PROVE  IInv'
  <1> USE DEF IInv
  <1>1. TypeOK'
    BY DEF TypeOK
  <1>2. IdsAreFresh'
    BY DEF IdsAreFresh
  <1>3. SidecarKnowsSent'
    BY DEF SidecarKnowsSent, TypeOK
  <1> QED
    BY <1>1, <1>2, <1>3 DEF EndedIsEmpty

LEMMA ClientIInv == IInv /\ Client => IInv'
  <1> SUFFICES ASSUME IInv, Client
               PROVE  IInv'
    OBVIOUS
  <1> USE RequestsAssumption
  <1>0. /\ TypeOK
        /\ TableIsExact
        /\ IdsAreFresh
        /\ SidecarKnowsSent
        /\ WireIsHonest
        /\ EndedIsEmpty
    BY DEF IInv
  <1>1. CASE Request
    <2>1. nextRequestId \in Ids /\ Sent(nextRequestId)
      BY <1>0, <1>1 DEF Request, TypeOK, Ids
    <2>2. ~exited /\ disposal = "none"
      BY <1>1 DEF Request, Accepts
    <2>3. UNCHANGED <<exited, disposal, shutdown, child, signalled, doing, done, wire>>
      BY <1>1 DEF Request, disposing
    <2>4. TypeOK'
      BY <1>0, <2>1, <2>3, SentKeeps DEF TypeOK
    <2>5. IdsAreFresh'
      BY <1>0, <1>1, <2>1, <2>3, SentKeeps DEF IdsAreFresh, Request, TypeOK
    <2>6. SidecarKnowsSent'
      BY <1>0, <2>1, <2>3, SentKeeps DEF SidecarKnowsSent, TypeOK
    <2>7. WireIsHonest' /\ EndedIsEmpty'
      BY <1>0, <2>2, <2>3 DEF WireIsHonest, EndedIsEmpty
    <2> QED
      BY <1>0, <2>1, <2>4, <2>5, <2>6, <2>7, SentKeeps DEF IInv
  <1>2. CASE ReadLine
    <2>1. /\ wire # <<>>
          /\ wire' = Tail(wire)
          /\ UNCHANGED <<exited, disposal, shutdown, child, stdin, doing, done>>
      BY <1>2 DEF ReadLine, disposing, sidecar
    <2>2. /\ wire' \in Seq(Lines)
          /\ \A n \in DOMAIN wire' : n + 1 \in DOMAIN wire /\ wire'[n] = wire[n + 1]
      BY <1>0, <2>1 DEF TypeOK
    <2>3. WireIsHonest'
      BY <1>0, <2>1, <2>2 DEF WireIsHonest
    <2>4. CASE Head(wire).k = "response"
      <3>1. /\ Settled(Head(wire).id, IF Head(wire).ok THEN "ok" ELSE "error")
            /\ signalled' = signalled
        BY <1>2, <2>4 DEF ReadLine
      <3>2. (IF Head(wire).ok THEN "ok" ELSE "error") \in {"ok", "error", "failed"}
        OBVIOUS
      <3>3. /\ nextRequestId' = nextRequestId
            /\ pending' \subseteq pending
            /\ timers' \subseteq Ids
            /\ outcome' \in [Ids -> {"none", "open", "ok", "error", "failed"}]
            /\ TableIsExact'
            /\ \A j \in Ids : outcome'[j] = "none" <=> outcome[j] = "none"
        BY <1>0, <3>1, <3>2, SettledKeeps
      <3>4. /\ exited' \in BOOLEAN
            /\ signalled' \in BOOLEAN
            /\ disposal' \in {"none", "asking", "waiting", "done"}
            /\ exited' \/ disposal' = "done" => pending' = {}
        BY <1>0, <2>1, <3>1, <3>3 DEF TypeOK, EndedIsEmpty
      <3> QED
        BY <2>1, <2>2, <2>3, <3>3, <3>4, TableStepIInv
    <2>5. CASE Head(wire).k # "response"
      <3>1. PendingRejected /\ signalled' = TRUE
        BY <1>2, <2>5 DEF ReadLine
      <3>2. /\ exited' \in BOOLEAN
            /\ disposal' \in {"none", "asking", "waiting", "done"}
        BY <1>0, <2>1 DEF TypeOK
      <3> QED
        BY <1>0, <2>1, <2>2, <2>3, <3>1, <3>2, PendingRejectedKeeps, TableStepIInv
    <2> QED
      BY <2>4, <2>5
  <1>3. CASE PendingRejected /\ UNCHANGED <<child, stdin, doing, done, wire, shutdown>>
             /\ exited' \in BOOLEAN /\ signalled' \in BOOLEAN
             /\ disposal' \in {"none", "asking", "waiting", "done"}
             /\ (disposal' = "none" => disposal = "none")
    <2>1. wire' \in Seq(Lines) /\ WireIsHonest'
      BY <1>0, <1>3 DEF TypeOK, WireIsHonest
    <2> QED
      BY <1>0, <1>3, <2>1, PendingRejectedKeeps, TableStepIInv
  <1>4. CASE ProcessEnd
    BY <1>0, <1>3, <1>4 DEF ProcessEnd, disposing, sidecar, TypeOK
  <1>5. CASE Dispose
    <2>1. CASE exited
      BY <1>0, <1>3, <1>5, <2>1 DEF Dispose, TypeOK
    <2>2. CASE ~exited
      <3>1. nextRequestId \in Ids /\ Sent(nextRequestId)
        BY <1>0, <1>5, <2>2 DEF Dispose, TypeOK, IdsAreFresh, Ids
      <3>2. /\ disposal' = "asking"
            /\ shutdown' = nextRequestId
            /\ UNCHANGED <<exited, child, signalled, doing, done, wire>>
        BY <1>5, <2>2 DEF Dispose
      <3>3. TypeOK'
        BY <1>0, <3>1, <3>2, SentKeeps DEF TypeOK, Ids
      <3>4. IdsAreFresh'
        BY <1>0, <3>1, <3>2, SentKeeps DEF IdsAreFresh
      <3>5. SidecarKnowsSent'
        BY <1>0, <3>1, <3>2, SentKeeps DEF SidecarKnowsSent, TypeOK
      <3>6. WireIsHonest' /\ EndedIsEmpty'
        BY <1>0, <2>2, <3>2 DEF WireIsHonest, EndedIsEmpty
      <3> QED
        BY <1>0, <3>1, <3>3, <3>4, <3>5, <3>6, SentKeeps DEF IInv
    <2> QED
      BY <2>1, <2>2
  <1>6. CASE DisposeAsked
    <2>1. CASE exited
      BY <1>0, <1>3, <1>6, <2>1 DEF DisposeAsked, sidecar, TypeOK
    <2>2. CASE ~exited
      <3>1. /\ disposal' = "waiting"
            /\ disposal = "asking"
            /\ UNCHANGED <<nextRequestId, pending, timers, outcome, exited, shutdown,
                           child, stdin, doing, done, signalled, wire>>
        BY <1>6, <2>2 DEF DisposeAsked, promises, sidecar
      <3> QED
        BY <1>0, <2>2, <3>1 DEF IInv, TypeOK, TableIsExact, IdsAreFresh,
           SidecarKnowsSent, WireIsHonest, EndedIsEmpty
    <2> QED
      BY <2>1, <2>2
  <1>7. CASE DisposeExited
    BY <1>0, <1>3, <1>7 DEF DisposeExited, sidecar, TypeOK
  <1>8. CASE DisposeTimeout
    BY <1>0, <1>3, <1>8 DEF DisposeTimeout, sidecar, TypeOK
  <1>9. CASE \E i \in Ids : Timeout(i)
    <2> PICK i \in Ids : Timeout(i)
      BY <1>9
    <2>1. i \in pending /\ outcome[i] = "open"
      BY <1>0 DEF Timeout, TableIsExact
    <2>2. Settled(i, "failed")
      BY <2>1 DEF Timeout, Settled
    <2>3. UNCHANGED <<exited, disposal, shutdown, child, stdin, doing, done, signalled, wire>>
      BY DEF Timeout, disposing, sidecar
    <2>4. /\ nextRequestId' = nextRequestId
          /\ pending' \subseteq pending
          /\ timers' \subseteq Ids
          /\ outcome' \in [Ids -> {"none", "open", "ok", "error", "failed"}]
          /\ TableIsExact'
          /\ \A j \in Ids : outcome'[j] = "none" <=> outcome[j] = "none"
      BY <1>0, <2>2, SettledKeeps
    <2>5. /\ wire' \in Seq(Lines) /\ WireIsHonest'
          /\ exited' \in BOOLEAN /\ signalled' \in BOOLEAN
          /\ disposal' \in {"none", "asking", "waiting", "done"}
          /\ exited' \/ disposal' = "done" => pending' = {}
      BY <1>0, <2>3, <2>4 DEF TypeOK, WireIsHonest, EndedIsEmpty
    <2> QED
      BY <2>3, <2>4, <2>5, TableStepIInv
  <1>10. CASE \E i \in Ids : WriteFails(i)
    <2> PICK i \in Ids : WriteFails(i)
      BY <1>10
    <2>2. Settled(i, "failed")
      BY DEF WriteFails
    <2>3. UNCHANGED <<exited, disposal, shutdown, child, stdin, doing, done, signalled, wire>>
      BY DEF WriteFails, disposing, sidecar
    <2>4. /\ nextRequestId' = nextRequestId
          /\ pending' \subseteq pending
          /\ timers' \subseteq Ids
          /\ outcome' \in [Ids -> {"none", "open", "ok", "error", "failed"}]
          /\ TableIsExact'
          /\ \A j \in Ids : outcome'[j] = "none" <=> outcome[j] = "none"
      BY <1>0, <2>2, SettledKeeps
    <2>5. /\ wire' \in Seq(Lines) /\ WireIsHonest'
          /\ exited' \in BOOLEAN /\ signalled' \in BOOLEAN
          /\ disposal' \in {"none", "asking", "waiting", "done"}
          /\ exited' \/ disposal' = "done" => pending' = {}
      BY <1>0, <2>3, <2>4 DEF TypeOK, WireIsHonest, EndedIsEmpty
    <2> QED
      BY <2>3, <2>4, <2>5, TableStepIInv
  <1> QED
    BY <1>1, <1>2, <1>4, <1>5, <1>6, <1>7, <1>8, <1>9, <1>10 DEF Client

LEMMA SidecarIInv == IInv /\ Sidecar => IInv'
  <1> SUFFICES ASSUME IInv, Sidecar
               PROVE  IInv'
    OBVIOUS
  <1> USE RequestsAssumption
  <1>0. /\ TypeOK
        /\ TableIsExact
        /\ IdsAreFresh
        /\ SidecarKnowsSent
        /\ WireIsHonest
        /\ EndedIsEmpty
    BY DEF IInv
  <1>1. CASE ChildReads
    <2>1. /\ stdin # <<>>
          /\ doing' = doing \cup {Head(stdin)}
          /\ stdin' = Tail(stdin)
          /\ UNCHANGED <<nextRequestId, pending, timers, outcome, exited, disposal,
                         shutdown, child, signalled, done, wire>>
      BY <1>1 DEF ChildReads, promises, disposing
    <2>2. /\ stdin' \in Seq(Ids)
          /\ Head(stdin) \in Ids
          /\ \A n \in DOMAIN stdin' : n + 1 \in DOMAIN stdin /\ stdin'[n] = stdin[n + 1]
          /\ Head(stdin) = stdin[1] /\ 1 \in DOMAIN stdin
      BY <1>0, <2>1 DEF TypeOK
    <2>3. SidecarKnowsSent'
      BY <1>0, <2>1, <2>2 DEF SidecarKnowsSent
    <2>4. TypeOK'
      BY <1>0, <2>1, <2>2 DEF TypeOK
    <2> QED
      BY <1>0, <2>1, <2>3, <2>4 DEF IInv, TableIsExact, IdsAreFresh, WireIsHonest,
         EndedIsEmpty
  <1>2. CASE \E line \in Lines : /\ wire' = Append(wire, line)
                                 /\ line.k = "response" =>
                                        line.id \in Ids /\ (line.ok => line.id \in done')
                                 /\ done' \subseteq Ids /\ done \subseteq done'
                                 /\ doing' \subseteq doing
                                 /\ child' \in {"running", "ended", "absent"}
                                 /\ UNCHANGED <<nextRequestId, pending, timers, outcome, exited,
                                                disposal, shutdown, signalled, stdin>>
    <2> PICK line \in Lines : /\ wire' = Append(wire, line)
                              /\ line.k = "response" =>
                                     line.id \in Ids /\ (line.ok => line.id \in done')
                              /\ done' \subseteq Ids /\ done \subseteq done'
                              /\ doing' \subseteq doing
                              /\ child' \in {"running", "ended", "absent"}
                              /\ UNCHANGED <<nextRequestId, pending, timers, outcome, exited,
                                             disposal, shutdown, signalled, stdin>>
      BY <1>2
    <2>0. wire \in Seq(Lines) /\ wire' = Append(wire, line)
      BY <1>0 DEF TypeOK
    <2>1. /\ wire' \in Seq(Lines)
          /\ \A n \in DOMAIN wire' :
                 wire'[n] = line \/ (n \in DOMAIN wire /\ wire'[n] = wire[n])
      BY <2>0
    <2>2. WireIsHonest'
      BY <1>0, <2>1 DEF WireIsHonest
    <2>3. TypeOK'
      BY <1>0, <2>1 DEF TypeOK
    <2>4. SidecarKnowsSent'
      BY <1>0 DEF SidecarKnowsSent
    <2> QED
      BY <1>0, <2>2, <2>3, <2>4 DEF IInv, TableIsExact, IdsAreFresh, EndedIsEmpty
  <1>3. \A i \in Ids, ok \in BOOLEAN : Response(i, ok) \in Lines
    BY DEF Response, Lines, Ids
  <1>4. Garbage \in Lines
    BY DEF Garbage, Lines
  <1>5. CASE \E i \in Ids, ok \in BOOLEAN : ChildAnswers(i, ok)
    <2> PICK i \in Ids, ok \in BOOLEAN : ChildAnswers(i, ok)
      BY <1>5
    <2>1. /\ wire' = Append(wire, Response(i, ok))
          /\ done' = IF ok THEN done \cup {i} ELSE done
          /\ doing' = doing \ {i}
          /\ child' = IF i = shutdown THEN "ended" ELSE child
          /\ UNCHANGED <<nextRequestId, pending, timers, outcome, exited, disposal,
                         shutdown, signalled, stdin>>
      BY DEF ChildAnswers, promises, disposing
    <2>2. Response(i, ok).id = i /\ Response(i, ok).ok = ok
      BY DEF Response
    <2>3. /\ done' \subseteq Ids /\ done \subseteq done' /\ (ok => i \in done')
          /\ child' \in {"running", "ended", "absent"}
      BY <1>0, <2>1 DEF TypeOK
    <2> QED
      BY <1>2, <1>3, <2>1, <2>2, <2>3
  <1>6. CASE \E i \in Ids : ChildForgets(i)
    <2> PICK i \in Ids : ChildForgets(i)
      BY <1>6
    <2>1. /\ doing' = doing \ {i}
          /\ done' = done \cup {i}
          /\ UNCHANGED <<nextRequestId, pending, timers, outcome, exited, disposal,
                         shutdown, signalled, child, stdin, wire>>
      BY DEF ChildForgets, promises, disposing
    <2> QED
      BY <1>0, <2>1 DEF IInv, TypeOK, TableIsExact, IdsAreFresh, SidecarKnowsSent,
         WireIsHonest, EndedIsEmpty
  <1>7. CASE ChildBabbles
    BY <1>0, <1>2, <1>4, <1>7 DEF ChildBabbles, promises, disposing, sidecar, Garbage, TypeOK
  <1>8. CASE \E cut \in BOOLEAN : ChildEnds(cut)
    <2> PICK cut \in BOOLEAN : ChildEnds(cut)
      BY <1>8
    <2>1. /\ child' = "ended"
          /\ wire' = IF cut THEN Append(wire, Garbage) ELSE wire
          /\ UNCHANGED <<nextRequestId, pending, timers, outcome, exited, disposal,
                         shutdown, signalled, stdin, doing, done>>
      BY DEF ChildEnds, promises, disposing
    <2>2. CASE cut
      BY <1>0, <1>2, <1>4, <2>1, <2>2 DEF Garbage, TypeOK
    <2>3. CASE ~cut
      BY <1>0, <2>1, <2>3 DEF IInv, TypeOK, TableIsExact, IdsAreFresh,
         SidecarKnowsSent, WireIsHonest, EndedIsEmpty
    <2> QED
      BY <2>2, <2>3
  <1> QED
    BY <1>1, <1>5, <1>6, <1>7, <1>8 DEF Sidecar

LEMMA StutterIInv == IInv /\ UNCHANGED vars => IInv'
  BY DEF IInv, vars, TypeOK, TableIsExact, IdsAreFresh, SidecarKnowsSent,
     WireIsHonest, EndedIsEmpty

LEMMA Invariant == Spec => []IInv
  <1>1. IInv /\ [Next]_vars => IInv'
    BY ClientIInv, SidecarIInv, StutterIInv DEF Next
  <1> QED
    BY <1>1, InitIInv, PTL DEF Spec

\* The types of the client's state, and of what is on the pipe.
THEOREM TypeCorrect == Spec => []TypeOK
  BY Invariant, PTL DEF IInv

\* Once the process has ended, or the client is disposed of, no request is
\* pending, has a timer or is open (handleProcessEnd, disposeOnce).
THEOREM NobodyIsLeftWaiting == Spec => []NobodyWaits
  <1>1. IInv => NobodyWaits
    BY DEF IInv, NobodyWaits, EndedIsEmpty, TableIsExact
  <1> QED
    BY <1>1, Invariant, PTL

-----------------------------------------------------------------------------
(* The client implements the ledger *)

LEMMA InitMaps == Init => Ledger!LedgerInit
  BY DEF Init, Accepts, Ledger!LedgerInit

\* Settling a request is an answer of the ledger, or nothing at all.
LEMMA SettledMaps ==
    ASSUME IInv, NEW i, NEW result \in {"ok", "error", "failed"},
           Settled(i, result), i \in Ids, result = "ok" => i \in done,
           UNCHANGED <<done, exited, disposal>>
    PROVE  Ledger!LedgerNext \/ UNCHANGED Ledger!ledger
  <1>1. Accepts' = Accepts
    BY DEF Accepts
  <1>2. CASE i \in pending
    <2>1. outcome[i] = "open"
      BY <1>2 DEF IInv, TableIsExact
    <2>2. outcome' = [outcome EXCEPT ![i] = result]
      BY <1>2 DEF Settled
    <2>3. Ledger!Answer(i, result)
      BY <1>1, <2>1, <2>2 DEF Ledger!Answer
    <2> QED
      BY <2>3 DEF Ledger!LedgerNext, Ledger!Results
  <1>3. CASE i \notin pending
    BY <1>1, <1>3 DEF Settled, Ledger!ledger
  <1> QED
    BY <1>2, <1>3

\* Rejecting all of them is a rejection of the open requests, and may close
\* the ledger.
LEMMA PendingRejectedMaps ==
    ASSUME IInv, PendingRejected, done' = done, Accepts' \in {Accepts, FALSE}
    PROVE  Ledger!LedgerNext
  <1>1. pending = Ledger!Open /\ pending \in SUBSET Ids
    BY DEF IInv, TableIsExact, Ledger!Open
  <1>2. Ledger!Reject(pending)
    BY <1>1 DEF PendingRejected, Ledger!Reject, Ledger!Rejected
  <1> QED
    BY <1>1, <1>2 DEF Ledger!LedgerNext

LEMMA ClientMaps == IInv /\ Client => Ledger!LedgerNext \/ UNCHANGED Ledger!ledger
  <1> SUFFICES ASSUME IInv, Client
               PROVE  Ledger!LedgerNext \/ UNCHANGED Ledger!ledger
    OBVIOUS
  <1> USE RequestsAssumption
  <1>0. /\ TypeOK
        /\ TableIsExact
        /\ IdsAreFresh
        /\ WireIsHonest
    BY DEF IInv
  <1>1. CASE Request
    <2>1. nextRequestId \in Ids /\ outcome[nextRequestId] = "none"
      BY <1>0, <1>1 DEF Request, TypeOK, Ids, IdsAreFresh
    <2>2. Accepts /\ Accepts' = Accepts
      BY <1>1 DEF Request, Accepts, disposing
    <2>3. Ledger!Ask(nextRequestId)
      BY <1>1, <2>1, <2>2 DEF Request, Sent, Ledger!Ask
    <2> QED
      BY <2>1, <2>3 DEF Ledger!LedgerNext
  <1>2. CASE ReadLine
    <2>0. UNCHANGED <<done, exited, disposal>> /\ wire # <<>>
      BY <1>2 DEF ReadLine, disposing, sidecar
    <2>1. CASE Head(wire).k = "response"
      <3>1. Settled(Head(wire).id, IF Head(wire).ok THEN "ok" ELSE "error")
        BY <1>2, <2>1 DEF ReadLine
      <3>2. 1 \in DOMAIN wire /\ Head(wire) = wire[1]
        BY <1>0, <2>0 DEF TypeOK
      <3>3. Head(wire).id \in Ids /\ (Head(wire).ok => Head(wire).id \in done)
        BY <1>0, <2>1, <3>2 DEF WireIsHonest
      <3>4. /\ (IF Head(wire).ok THEN "ok" ELSE "error") \in {"ok", "error", "failed"}
            /\ (IF Head(wire).ok THEN "ok" ELSE "error") = "ok" => Head(wire).ok
        OBVIOUS
      <3> QED
        BY <2>0, <3>1, <3>3, <3>4, SettledMaps
    <2>2. CASE Head(wire).k # "response"
      <3>1. PendingRejected
        BY <1>2, <2>2 DEF ReadLine
      <3> QED
        BY <2>0, <3>1, PendingRejectedMaps DEF Accepts
    <2> QED
      BY <2>1, <2>2
  <1>3. CASE ProcessEnd
    BY <1>3, PendingRejectedMaps DEF ProcessEnd, sidecar, Accepts
  <1>4. CASE Dispose
    <2>1. CASE exited
      BY <1>4, <2>1, PendingRejectedMaps DEF Dispose, Accepts
    <2>2. CASE ~exited
      <3>1. nextRequestId \in Ids /\ outcome[nextRequestId] = "none"
        BY <1>0, <1>4, <2>2 DEF Dispose, TypeOK, Ids, IdsAreFresh
      <3>2. Accepts /\ Accepts' = FALSE
        BY <1>4, <2>2 DEF Dispose, Accepts
      <3>3. Ledger!Farewell(nextRequestId)
        BY <1>4, <2>2, <3>1, <3>2 DEF Dispose, Sent, Ledger!Farewell
      <3> QED
        BY <3>1, <3>3 DEF Ledger!LedgerNext
    <2> QED
      BY <2>1, <2>2
  <1>5. CASE DisposeAsked
    <2>1. Accepts' = Accepts /\ done' = done
      BY <1>5 DEF DisposeAsked, Accepts, sidecar
    <2>2. CASE exited
      BY <1>5, <2>1, <2>2, PendingRejectedMaps DEF DisposeAsked
    <2>3. CASE ~exited
      BY <1>5, <2>1, <2>3 DEF DisposeAsked, promises, Ledger!ledger
    <2> QED
      BY <2>2, <2>3
  <1>6. CASE DisposeExited
    BY <1>6, PendingRejectedMaps DEF DisposeExited, sidecar, Accepts
  <1>7. CASE DisposeTimeout
    BY <1>7, PendingRejectedMaps DEF DisposeTimeout, sidecar, Accepts
  <1>8. CASE \E i \in Ids : Timeout(i)
    <2> PICK i \in Ids : Timeout(i)
      BY <1>8
    <2>1. i \in pending /\ outcome[i] = "open"
      BY <1>0 DEF Timeout, TableIsExact
    <2>2. Settled(i, "failed")
      BY <2>1 DEF Timeout, Settled
    <2> QED
      BY <2>2, SettledMaps DEF Timeout, disposing, sidecar
  <1>9. CASE \E i \in Ids : WriteFails(i)
    BY <1>9, SettledMaps DEF WriteFails, disposing, sidecar
  <1> QED
    BY <1>1, <1>2, <1>3, <1>4, <1>5, <1>6, <1>7, <1>8, <1>9 DEF Client

LEMMA SidecarMaps == IInv /\ Sidecar => Ledger!LedgerNext \/ UNCHANGED Ledger!ledger
  <1> SUFFICES ASSUME IInv, Sidecar
               PROVE  Ledger!LedgerNext \/ UNCHANGED Ledger!ledger
    OBVIOUS
  <1>1. CASE UNCHANGED <<outcome, done, exited, disposal>>
    BY <1>1 DEF Ledger!ledger, Accepts
  <1>2. ASSUME NEW i \in Ids, i \in doing, done' = done \cup {i},
               UNCHANGED <<outcome, exited, disposal>>
        PROVE  Ledger!LedgerNext
    <2>1. outcome[i] # "none"
      BY <1>2 DEF IInv, SidecarKnowsSent
    <2>2. Ledger!Perform(i)
      BY <1>2, <2>1 DEF Ledger!Perform, Accepts
    <2> QED
      BY <2>2 DEF Ledger!LedgerNext
  <1>3. CASE ChildReads \/ ChildBabbles
    BY <1>1, <1>3 DEF ChildReads, ChildBabbles, promises, disposing, sidecar
  <1>4. CASE \E i \in Ids : ChildForgets(i)
    BY <1>2, <1>4 DEF ChildForgets, promises, disposing
  <1>5. CASE \E i \in Ids, ok \in BOOLEAN : ChildAnswers(i, ok)
    <2> PICK i \in Ids, ok \in BOOLEAN : ChildAnswers(i, ok)
      BY <1>5
    <2>1. CASE ok
      BY <1>2, <2>1 DEF ChildAnswers, promises, disposing
    <2>2. CASE ~ok
      BY <1>1, <2>2 DEF ChildAnswers, promises, disposing
    <2> QED
      BY <2>1, <2>2
  <1>6. CASE \E cut \in BOOLEAN : ChildEnds(cut)
    BY <1>1, <1>6 DEF ChildEnds, promises, disposing
  <1> QED
    BY <1>3, <1>4, <1>5, <1>6 DEF Sidecar

\* However the sidecar behaves, the client's steps are steps of the ledger:
\* a promise is settled once, it reports success only for a request that was
\* carried out, and once disposal has begun only the farewell is opened.
THEOREM Implementation == Spec => ImplementsLedger
  <1>1. IInv /\ [Next]_vars => [Ledger!LedgerNext]_Ledger!ledger
    <2> SUFFICES ASSUME IInv, [Next]_vars
                 PROVE  Ledger!LedgerNext \/ UNCHANGED Ledger!ledger
      OBVIOUS
    <2>1. CASE UNCHANGED vars
      BY <2>1 DEF vars, Ledger!ledger, Accepts
    <2> QED
      BY <2>1, ClientMaps, SidecarMaps DEF Next
  <1> QED
    BY <1>1, InitMaps, Invariant, PTL DEF Spec, ImplementsLedger, Ledger!LedgerSpec
=============================================================================
