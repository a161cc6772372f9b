------------------------- MODULE MCSyncWithBitcoin -------------------------
(***************************************************************************)
(* Small instances of SyncWithBitcoin, with at most one failure of each    *)
(* kind.                                                                   *)
(***************************************************************************)
EXTENDS SyncWithBitcoin

CONSTANTS
    Running,     \* the relays that are never stopped for good
    Failures     \* the kinds of failures, each of which happens at most once

VARIABLE failures \* the kinds of failures that have happened

mcVars == <<vars, failures>>

MCInit == Init /\ failures = {}

MCRelayStep(r) == RelayStep(r) /\ UNCHANGED failures

MCNetwork == Network /\ UNCHANGED failures

MCMine(tx) == Mine(tx) /\ UNCHANGED failures

Happens(kind) == kind \in Failures \ failures /\ failures' = failures \cup {kind}

MCFailure(r) ==
    \/ Happens("rpc_error") /\ RpcError(r)
    \/ Happens("response") /\ SendUnanswered(r)
    \/ Happens("request") /\ Fail(r)
    \/ Happens("restart") /\ Restart(r)

MCEvict(tx) == Happens("evict") /\ Evict(tx)

MCNext ==
    \/ \E r \in Relays : MCRelayStep(r) \/ MCFailure(r)
    \/ MCNetwork
    \/ \E tx \in Indices \cup {Funding} : MCEvict(tx)

MCSpec == MCInit /\ [][MCNext]_mcVars

(***************************************************************************)
(* The loop of a running utility calls process again and again, and miners *)
(* do not pass over a transaction of the memory pool for ever.             *)
(***************************************************************************)
Fairness ==
    /\ \A r \in Running : WF_mcVars(MCRelayStep(r))
    /\ \A tx \in Indices \cup {Funding} : WF_mcVars(MCMine(tx))

MCFairSpec == MCSpec /\ Fairness

\* Once the funding transaction is confirmed, every anchoring transaction gets
\* into a Bitcoin block, unless a utility has stopped: process finds the first
\* uncommitted transaction and sends it.
SyncCompletes ==
    \A tx \in Indices :
        length > tx /\ status[Funding] = "Committed" ~>
            \/ status[tx] = "Committed"
            \/ \E r \in Running : pc[r] = "stopped"

(***************************************************************************)
(* The index of a running relay is out of step with the Bitcoin network in *)
(* two cases: the transaction after it is in a block already, which        *)
(* bitcoind rejects, or the memory pool has dropped the transaction        *)
(* together with the one that it spends.  Only a restart forgets the index.*)
(***************************************************************************)
IsBehind(r) ==
    /\ latest[r] # None
    /\ latest[r] + 1 < length
    /\ status[latest[r] + 1] = "Committed"

IsDropped(r) ==
    /\ latest[r] # None
    /\ ~IsKnown(status[latest[r]])
    /\ ~IsKnown(status[latest[r] - 1])

\* Whatever fails, the relay stalls in no other way: once the funding transaction
\* is confirmed, every anchoring transaction gets into a Bitcoin block, unless a
\* utility has stopped or its index is and stays out of step.  In particular a
\* restarted relay, and one that has lost a request, gets the chain through.
SyncStallsOnlyOutOfStep ==
    \A tx \in Indices :
        length > tx /\ status[Funding] = "Committed" ~>
            \/ status[tx] = "Committed"
            \/ \E r \in Running : pc[r] = "stopped" \/ [](IsBehind(r) \/ IsDropped(r))
=============================================================================
