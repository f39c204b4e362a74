---------------------------- MODULE RequestLedger ----------------------------
(***************************************************************************)
(* What a caller may rely on when it sends requests to the sidecar: the     *)
(* promise of a request is settled once and for good, it reports success    *)
(* only for a request the sidecar carried out, and once the ledger is       *)
(* closed nothing is opened but the farewell.  NativeClient implements it   *)
(* (main/native-backend/client.ts).                                         *)
(***************************************************************************)
EXTENDS FiniteSets

CONSTANT Ids \* requests, named by their ids

VARIABLES
    outcome,   \* per request: "none" before it is sent, "open", or its answer
    done,      \* the requests the sidecar has carried out
    accepting  \* may another request be sent?

ledger == <<outcome, done, accepting>>

Results == {"ok", "error", "failed"}

Open == {i \in Ids : outcome[i] = "open"}

LedgerTypeOK ==
    /\ outcome \in [Ids -> {"none", "open"} \cup Results]
    /\ done \subseteq Ids
    /\ accepting \in BOOLEAN

LedgerInit ==
    /\ outcome = [i \in Ids |-> "none"]
    /\ done = {}
    /\ accepting = TRUE

Ask(i) ==
    /\ accepting
    /\ outcome[i] = "none"
    /\ outcome' = [outcome EXCEPT ![i] = "open"]
    /\ UNCHANGED <<done, accepting>>

\* The sidecar may carry out a request whose caller has given up.
Perform(i) ==
    /\ outcome[i] # "none"
    /\ done' = done \cup {i}
    /\ UNCHANGED <<outcome, accepting>>

Answer(i, result) ==
    /\ outcome[i] = "open"
    /\ result = "ok" => i \in done
    /\ outcome' = [outcome EXCEPT ![i] = result]
    /\ UNCHANGED <<done, accepting>>

Rejected(S) == [i \in Ids |-> IF i \in S THEN "failed" ELSE outcome[i]]

\* Some open requests fail; the ledger may close at the same time.
Reject(S) ==
    /\ S \subseteq Open
    /\ outcome' = Rejected(S)
    /\ accepting' \in {accepting, FALSE}
    /\ UNCHANGED done

\* The ledger closes with a last request.
Farewell(i) ==
    /\ accepting
    /\ accepting' = FALSE
    /\ outcome[i] = "none"
    /\ outcome' = [outcome EXCEPT ![i] = "open"]
    /\ UNCHANGED done

LedgerNext ==
    \/ \E i \in Ids : Ask(i) \/ Perform(i) \/ Farewell(i)
    \/ \E i \in Ids, result \in Results : Answer(i, result)
    \/ \E S \in SUBSET Ids : Reject(S)

LedgerSpec == LedgerInit /\ [][LedgerNext]_ledger

\* Every request is settled.
AllSettle ==
    \A i \in Ids :
        WF_ledger(Reject({i}) \/ \E result \in Results : Answer(i, result))

FairLedgerSpec == LedgerSpec /\ AllSettle
=============================================================================
