---------------------------- MODULE NativeClient ----------------------------
(***************************************************************************)
(* NativeBackendClient (main/native-backend/client.ts): the main process's *)
(* end of the pipe to the sidecar.  A request is named by the id it gets;  *)
(* one that is refused at once gets none and changes nothing.              *)
(*                                                                         *)
(* The sidecar is free here: it may carry requests out and answer them in  *)
(* any order or never, write a line that is no JSON, or end at any time;   *)
(* SidecarLoop says what it does.  Lines that carry events are left out:   *)
(* they reach the listeners and touch no request.                          *)
(***************************************************************************)
EXTENDS Naturals, Sequences, FiniteSets

CONSTANT
    MaxRequests, \* bound: ids handed out, the farewell's included
    MaxWire      \* bound: lines the sidecar writes ahead of the client

ASSUME RequestsAssumption == MaxRequests \in Nat \ {0}
ASSUME WireAssumption == MaxWire \in Nat \ {0}

VARIABLES
    nextRequestId,
    pending,   \* pendingRequests
    timers,    \* requests whose timeout is set
    outcome,   \* per request, what its promise has become
    exited,    \* has handleProcessEnd run?
    disposal,  \* how far disposeOnce has come
    shutdown,  \* the id of the request backend_shutdown, or 0
    child,     \* the sidecar's process
    signalled, \* has child.kill() been called?
    stdin,     \* requests the sidecar has not read
    doing,     \* requests the sidecar has read and not answered
    done,      \* requests it has carried out
    wire       \* lines of its stdout that are still to be read

promises == <<nextRequestId, pending, timers, outcome>>

disposing == <<disposal, shutdown>>

sidecar == <<child, stdin, doing, done>>

vars == <<nextRequestId, pending, timers, outcome, exited, disposal, shutdown,
          child, signalled, stdin, doing, done, wire>>

Ids == 1 .. MaxRequests

Response(i, ok) == [k |-> "response", id |-> i, ok |-> ok]

Garbage == [k |-> "garbage", id |-> 0, ok |-> FALSE]

Lines == [k : {"response", "garbage"}, id : 0 .. MaxRequests, ok : BOOLEAN]

-----------------------------------------------------------------------------
(* The table of pending requests.                                            *)

\* sendRequest: what it accepts, but for the request that dispose makes.
Accepts == ~exited /\ disposal = "none"

\* Mutant: no timer is set.
SentUntimed(i) ==
    /\ nextRequestId = i
    /\ nextRequestId' = i + 1
    /\ pending' = pending \cup {i}
    /\ timers' = timers
    /\ outcome' = [outcome EXCEPT ![i] = "open"]
    /\ stdin' = Append(stdin, i)

\* The request gets an id, a timer, an entry of the table and a line.
Sent(i) ==
    /\ nextRequestId = i
    /\ nextRequestId' = i + 1
    /\ pending' = pending \cup {i}
    /\ timers' = timers \cup {i}
    /\ outcome' = [outcome EXCEPT ![i] = "open"]
    /\ stdin' = Append(stdin, i)

\* Mutant: an answer that comes late settles the promise again.
SettledAgain(i, result) ==
    /\ pending' = pending \ {i}
    /\ timers' = timers \ {i}
    /\ outcome' = [outcome EXCEPT ![i] = result]
    /\ UNCHANGED nextRequestId

\* Its entry goes, its timer is cleared, its promise is settled; nothing
\* happens when it has no entry.
Settled(i, result) ==
    /\ pending' = pending \ {i}
    /\ timers' = IF i \in pending THEN timers \ {i} ELSE timers
    /\ outcome' = IF i \in pending THEN [outcome EXCEPT ![i] = result] ELSE outcome
    /\ UNCHANGED nextRequestId

\* Mutant: the requests are rejected and stay in the table.
PendingRejectedOnly ==
    /\ pending' = pending
    /\ timers' = timers \ pending
    /\ outcome' = [i \in Ids |-> IF i \in pending THEN "failed" ELSE outcome[i]]
    /\ UNCHANGED nextRequestId

\* rejectPendingRequests
PendingRejected ==
    /\ pending' = {}
    /\ timers' = timers \ pending
    /\ outcome' = [i \in Ids |-> IF i \in pending THEN "failed" ELSE outcome[i]]
    /\ UNCHANGED nextRequestId

-----------------------------------------------------------------------------
Init ==
    /\ nextRequestId = 1
    /\ pending = {}
    /\ timers = {}
    /\ outcome = [i \in Ids |-> "none"]
    /\ exited = FALSE
    /\ disposal = "none"
    /\ shutdown = 0
    /\ child \in {"running", "absent"}
    /\ signalled = FALSE
    /\ stdin = <<>>
    /\ doing = {}
    /\ done = {}
    /\ wire = <<>>

\* One id is kept for the farewell.
Request ==
    /\ Accepts
    /\ nextRequestId < MaxRequests
    /\ Sent(nextRequestId)
    /\ UNCHANGED <<exited, disposing, child, signalled, doing, done, wire>>

\* The timer of sendRequest, 120 s or, for the farewell, 1.5 s.
Timeout(i) ==
    /\ i \in timers
    /\ pending' = pending \ {i}
    /\ timers' = timers \ {i}
    /\ outcome' = IF outcome[i] = "open" THEN [outcome EXCEPT ![i] = "failed"] ELSE outcome
    /\ UNCHANGED <<nextRequestId, exited, disposing, sidecar, signalled, wire>>

\* stdin.write reports that the line could not be written.
WriteFails(i) ==
    /\ child # "running"
    /\ i \in pending
    /\ \E n \in DOMAIN stdin : stdin[n] = i
    /\ Settled(i, "failed")
    /\ UNCHANGED <<exited, disposing, sidecar, signalled, wire>>

\* handleStdoutLine
ReadLine ==
    /\ wire # <<>>
    /\ wire' = Tail(wire)
    /\ LET line == Head(wire) IN
       IF line.k = "response"
       THEN /\ Settled(line.id, IF line.ok THEN "ok" ELSE "error")
            /\ UNCHANGED signalled
       ELSE /\ PendingRejected
            /\ signalled' = TRUE
    /\ UNCHANGED <<exited, disposing, sidecar>>

\* handleProcessEnd, on "exit", and on "error" when nothing could be started.
\* Lines the sidecar wrote before may still be to come.
ProcessEnd ==
    /\ child # "running"
    /\ ~exited
    /\ exited' = TRUE
    /\ PendingRejected
    /\ UNCHANGED <<disposing, sidecar, signalled, wire>>

\* Mutant: every call of dispose starts over.
DisposeAgain ==
    /\ IF exited
       THEN /\ disposal' = "done"
            /\ PendingRejected
            /\ UNCHANGED <<shutdown, stdin>>
       ELSE /\ disposal' = "asking"
            /\ shutdown' = nextRequestId
            /\ Sent(nextRequestId)
    /\ UNCHANGED <<exited, child, signalled, doing, done, wire>>

\* dispose; later calls share its promise.
Dispose ==
    /\ disposal = "none"
    /\ IF exited
       THEN /\ disposal' = "done"
            /\ PendingRejected
            /\ UNCHANGED <<shutdown, stdin>>
       ELSE /\ disposal' = "asking"
            /\ shutdown' = nextRequestId
            /\ Sent(nextRequestId)
    /\ UNCHANGED <<exited, child, signalled, doing, done, wire>>

\* Mutant: an error of backend_shutdown is not caught.
DisposeAskedUncaught ==
    /\ disposal = "asking"
    /\ outcome[shutdown] \in {"ok", "none"}
    /\ IF exited
       THEN /\ disposal' = "done"
            /\ PendingRejected
       ELSE /\ disposal' = "waiting"
            /\ UNCHANGED promises
    /\ UNCHANGED <<exited, shutdown, sidecar, signalled, wire>>

\* disposeOnce goes on when backend_shutdown is settled, whatever it answered.
DisposeAsked ==
    /\ disposal = "asking"
    /\ outcome[shutdown] # "open"
    /\ IF exited
       THEN /\ disposal' = "done"
            /\ PendingRejected
       ELSE /\ disposal' = "waiting"
            /\ UNCHANGED promises
    /\ UNCHANGED <<exited, shutdown, sidecar, signalled, wire>>

\* waitForExit has seen the end of the process.
DisposeExited ==
    /\ disposal = "waiting"
    /\ exited
    /\ disposal' = "done"
    /\ PendingRejected
    /\ UNCHANGED <<exited, shutdown, sidecar, signalled, wire>>

\* waitForExit has waited long enough.
DisposeTimeout ==
    /\ disposal = "waiting"
    /\ ~exited
    /\ disposal' = "done"
    /\ signalled' = TRUE
    /\ PendingRejected
    /\ UNCHANGED <<exited, shutdown, sidecar, wire>>

-----------------------------------------------------------------------------
(* The sidecar.                                                              *)

ChildReads ==
    /\ child = "running"
    /\ stdin # <<>>
    /\ doing' = doing \cup {Head(stdin)}
    /\ stdin' = Tail(stdin)
    /\ UNCHANGED <<promises, exited, disposing, child, signalled, done, wire>>

\* The sidecar ends after it has answered the farewell.
ChildAnswers(i, ok) ==
    /\ child = "running"
    /\ i \in doing
    /\ Len(wire) < MaxWire
    /\ doing' = doing \ {i}
    /\ done' = IF ok THEN done \cup {i} ELSE done
    /\ wire' = Append(wire, Response(i, ok))
    /\ child' = IF i = shutdown THEN "ended" ELSE child
    /\ UNCHANGED <<promises, exited, disposing, signalled, stdin>>

\* It carries out a request whose answer is lost.
ChildForgets(i) ==
    /\ child = "running"
    /\ i \in doing
    /\ doing' = doing \ {i}
    /\ done' = done \cup {i}
    /\ UNCHANGED <<promises, exited, disposing, signalled, child, stdin, wire>>

ChildBabbles ==
    /\ child = "running"
    /\ ~signalled
    /\ Len(wire) < MaxWire
    /\ wire' = Append(wire, Garbage)
    /\ UNCHANGED <<promises, exited, disposing, sidecar, signalled>>

\* It crashes, or obeys the signal; its last line may be cut off.
ChildEnds(cut) ==
    /\ child = "running"
    /\ child' = "ended"
    /\ wire' = IF cut THEN Append(wire, Garbage) ELSE wire
    /\ UNCHANGED <<promises, exited, disposing, signalled, stdin, doing, done>>

-----------------------------------------------------------------------------
Client ==
    \/ Request
    \/ ReadLine
    \/ ProcessEnd
    \/ Dispose
    \/ DisposeAsked
    \/ DisposeExited
    \/ DisposeTimeout
    \/ \E i \in Ids : Timeout(i) \/ WriteFails(i)

Sidecar ==
    \/ ChildReads
    \/ ChildBabbles
    \/ \E i \in Ids : ChildForgets(i) \/ \E ok \in BOOLEAN : ChildAnswers(i, ok)
    \/ \E cut \in BOOLEAN : ChildEnds(cut)

Next == Client \/ Sidecar

Spec == Init /\ [][Next]_vars

\* Timers fire, the event loop reads the pipe, hears of the process's end and
\* resumes disposeOnce; a process that was signalled ends.  The sidecar owes
\* nothing else.
Fairness ==
    /\ \A i \in Ids : WF_vars(Timeout(i))
    /\ WF_vars(ReadLine)
    /\ WF_vars(ProcessEnd)
    /\ WF_vars(DisposeAsked)
    /\ WF_vars(DisposeExited)
    /\ WF_vars(DisposeTimeout)
    /\ WF_vars(signalled /\ \E cut \in BOOLEAN : ChildEnds(cut))

FairSpec == Spec /\ Fairness

-----------------------------------------------------------------------------
(* Properties *)

TypeOK ==
    /\ nextRequestId \in 1 .. MaxRequests + 1
    /\ pending \subseteq Ids
    /\ timers \subseteq Ids
    /\ outcome \in [Ids -> {"none", "open", "ok", "error", "failed"}]
    /\ exited \in BOOLEAN
    /\ disposal \in {"none", "asking", "waiting", "done"}
    /\ shutdown \in 0 .. MaxRequests
    /\ child \in {"running", "ended", "absent"}
    /\ signalled \in BOOLEAN
    /\ stdin \in Seq(Ids)
    /\ doing \subseteq Ids
    /\ done \subseteq Ids
    /\ wire \in Seq(Lines)

\* When the process has ended, or the client has been disposed of, nobody is
\* left waiting: no request is pending, and none is accepted that would be.
NobodyWaits ==
    exited \/ disposal = "done" =>
        pending = {} /\ timers = {} /\ \A i \in Ids : outcome[i] # "open"

\* The client keeps the promises of RequestLedger, the liveness included.
Ledger == INSTANCE RequestLedger WITH accepting <- Accepts

ImplementsLedger == Ledger!LedgerSpec

KeepsPromises == Ledger!AllSettle

\* However the sidecar behaves, disposing of the client comes to an end, and
\* leaves no sidecar behind.
DisposeEnds == disposal # "none" ~> disposal = "done" /\ child # "running"
=============================================================================
