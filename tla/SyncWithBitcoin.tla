--------------------------- MODULE SyncWithBitcoin ---------------------------
(***************************************************************************)
(* The sync utilities of the anchoring nodes as relays that push the       *)
(* anchoring chain to the Bitcoin network: SyncWithBitcoinTask             *)
(* (src/sync/mod.rs) in the loop of the utility                            *)
(* (examples/btc_anchoring_sync.rs).  Between two steps of a relay are its *)
(* awaits: every request to the anchoring node or to bitcoind is a step.   *)
(* get_transaction is part of the step that follows it, because a          *)
(* transaction of the chain never changes.                                 *)
(*                                                                         *)
(* Transactions are their indices in the anchoring chain.  The transaction *)
(* previous to index i is i - 1, and Funding is the one previous to 0.     *)
(***************************************************************************)
EXTENDS Integers

CONSTANTS
    Relays,
    MaxTxs, \* bound on the length of the anchoring chain
    None    \* an absent index

VARIABLES
    length, \* length of the anchoring chain
    status, \* TransactionStatus of each transaction, in the Bitcoin network
    pc,     \* the request that a relay makes next
    latest, \* latest_synced_tx_index of each relay, or None
    index   \* the transaction that a relay is dealing with

vars == <<length, status, pc, latest, index>>

ASSUME SyncAssumption == MaxTxs \in Nat \ {0} /\ None \notin Int

Funding == -1

Indices == 0..(MaxTxs - 1)

Statuses == {"Unknown", "Mempool", "Committed"}

TypeOK ==
    /\ length \in 0..MaxTxs
    /\ status \in [Indices \cup {Funding} -> Statuses]
    /\ pc \in [Relays -> {"idle", "count", "tail", "scan", "funding", "send", "stopped"}]
    /\ latest \in [Relays -> Indices \cup {None}]
    /\ index \in [Relays -> Indices]

IsKnown(answer) == answer # "Unknown"

(***************************************************************************)
(* The answers of transaction_status.  The relay takes every RPC error of  *)
(* bitcoind for an unknown transaction.                                    *)
(***************************************************************************)
Answers(tx) == {status[tx], "Unknown"}

\* A relay proceeds to a request about the transaction tx.
Goto(r, request, tx) ==
    /\ pc' = [pc EXCEPT ![r] = request]
    /\ index' = [index EXCEPT ![r] = tx]

\* process returns, and the next call will be given the index.
Return(r, tx) ==
    /\ pc' = [pc EXCEPT ![r] = "idle"]
    /\ latest' = [latest EXCEPT ![r] = tx]
    /\ UNCHANGED index

-----------------------------------------------------------------------------
(***************************************************************************)
(* process with the index of a transaction that was sent before.           *)
(***************************************************************************)
CheckLatest(r, answer) ==
    /\ pc[r] = "idle"
    /\ latest[r] # None
    /\ answer \in Answers(latest[r])
    /\ Goto(r, IF IsKnown(answer) THEN "count" ELSE "send", latest[r])
    /\ UNCHANGED <<length, status, latest>>

\* Variant: the last transaction of the chain is sent next.
CountToLast(r) ==
    /\ pc[r] = "count"
    /\ IF index[r] + 1 = length
         THEN Return(r, index[r])
         ELSE Goto(r, "send", length - 1) /\ UNCHANGED latest
    /\ UNCHANGED <<length, status>>

\* Variant: the end of the chain is passed.
CountPastEnd(r) ==
    /\ pc[r] = "count"
    /\ IF index[r] + 1 = MaxTxs
         THEN Return(r, index[r])
         ELSE Goto(r, "send", index[r] + 1) /\ UNCHANGED latest
    /\ UNCHANGED <<length, status>>

CountAfterLatest(r) ==
    /\ pc[r] = "count"
    /\ IF index[r] + 1 = length
         THEN Return(r, index[r])
         ELSE Goto(r, "send", index[r] + 1) /\ UNCHANGED latest
    /\ UNCHANGED <<length, status>>

(***************************************************************************)
(* process without an index: find_first_uncommitted_transaction.           *)
(***************************************************************************)
\* Variant: an empty chain is not told apart.
CountEmpty(r) ==
    /\ pc[r] = "idle"
    /\ latest[r] = None
    /\ Goto(r, "tail", length - 1)
    /\ UNCHANGED <<length, status, latest>>

Count(r) ==
    /\ pc[r] = "idle"
    /\ latest[r] = None
    /\ length > 0
    /\ Goto(r, "tail", length - 1)
    /\ UNCHANGED <<length, status, latest>>

CheckTail(r, answer) ==
    /\ pc[r] = "tail"
    /\ answer \in Answers(index[r])
    /\ IF IsKnown(answer)
         THEN Return(r, None)
         ELSE /\ Goto(r, IF index[r] > 0 THEN "scan" ELSE "funding", index[r])
              /\ UNCHANGED latest
    /\ UNCHANGED <<length, status>>

\* Variant: the transaction that was found to be known is sent.
ScanReturnsPrevious(r, answer) ==
    /\ pc[r] = "scan"
    /\ answer \in Answers(index[r] - 1)
    /\ IF IsKnown(answer) THEN Goto(r, "send", index[r] - 1)
       ELSE IF index[r] > 1 THEN Goto(r, "scan", index[r] - 1)
       ELSE Goto(r, "funding", 0)
    /\ UNCHANGED <<length, status, latest>>

\* The status of the transaction previous to index.
Scan(r, answer) ==
    /\ pc[r] = "scan"
    /\ answer \in Answers(index[r] - 1)
    /\ IF IsKnown(answer) THEN Goto(r, "send", index[r])
       ELSE IF index[r] > 1 THEN Goto(r, "scan", index[r] - 1)
       ELSE Goto(r, "funding", 0)
    /\ UNCHANGED <<length, status, latest>>

\* Variant: the confirmations are not looked at.
CheckFundingAndSend(r, answer) ==
    /\ pc[r] = "funding"
    /\ answer \in Answers(Funding)
    /\ Goto(r, "send", 0)
    /\ UNCHANGED <<length, status, latest>>

\* The utility exits if the initial funding transaction is not confirmed.
CheckFunding(r, answer) ==
    /\ pc[r] = "funding"
    /\ answer \in Answers(Funding)
    /\ Goto(r, IF answer = "Committed" THEN "send" ELSE "stopped", 0)
    /\ UNCHANGED <<length, status, latest>>

(***************************************************************************)
(* bitcoind accepts a transaction whose input it knows, again while it is  *)
(* in the memory pool, and rejects one that is in a block already.  After  *)
(* an error of the relay the loop keeps the index.                         *)
(***************************************************************************)
IsAccepted(tx) == IsKnown(status[tx - 1]) /\ status[tx] # "Committed"

Send(r) ==
    /\ pc[r] = "send"
    /\ IF IsAccepted(index[r])
         THEN /\ status' = [status EXCEPT ![index[r]] = "Mempool"]
              /\ Return(r, index[r])
         ELSE /\ pc' = [pc EXCEPT ![r] = "idle"]
              /\ UNCHANGED <<status, latest, index>>
    /\ UNCHANGED length

-----------------------------------------------------------------------------
(***************************************************************************)
(* Failures.                                                               *)
(***************************************************************************)
\* The transaction is accepted, but the relay gets an error.
SendUnanswered(r) ==
    /\ pc[r] = "send"
    /\ IsAccepted(index[r])
    /\ status' = [status EXCEPT ![index[r]] = "Mempool"]
    /\ pc' = [pc EXCEPT ![r] = "idle"]
    /\ UNCHANGED <<length, latest, index>>

\* Variant: process returns the index although the request has failed.
FailAsSuccess(r) ==
    /\ pc[r] \notin {"idle", "stopped"}
    /\ Return(r, index[r])
    /\ UNCHANGED <<length, status>>

\* A request fails before it has an effect: the error is logged.
Fail(r) ==
    /\ pc[r] \notin {"idle", "stopped"}
    /\ pc' = [pc EXCEPT ![r] = "idle"]
    /\ UNCHANGED <<length, status, latest, index>>

\* The utility is started again: the index is only kept in memory.
Restart(r) ==
    /\ pc' = [pc EXCEPT ![r] = "idle"]
    /\ latest' = [latest EXCEPT ![r] = None]
    /\ UNCHANGED <<length, status, index>>

(***************************************************************************)
(* The anchoring chain and the Bitcoin network.                            *)
(***************************************************************************)
\* push_anchoring_transaction.
Push ==
    /\ length < MaxTxs
    /\ length' = length + 1
    /\ UNCHANGED <<status, pc, latest, index>>

\* The operator sends the funding transaction.
Fund ==
    /\ status[Funding] = "Unknown"
    /\ status' = [status EXCEPT ![Funding] = "Mempool"]
    /\ UNCHANGED <<length, pc, latest, index>>

\* A block takes a transaction from the memory pool, after its input.
Mine(tx) ==
    /\ status[tx] = "Mempool"
    /\ tx # Funding => status[tx - 1] = "Committed"
    /\ status' = [status EXCEPT ![tx] = "Committed"]
    /\ UNCHANGED <<length, pc, latest, index>>

\* The memory pool drops a transaction and with it those that depend on it.
Evict(tx) ==
    /\ status[tx] = "Mempool"
    /\ status' = [t \in DOMAIN status |-> IF t >= tx THEN "Unknown" ELSE status[t]]
    /\ UNCHANGED <<length, pc, latest, index>>

-----------------------------------------------------------------------------
\* The transaction whose status a relay asks for next.
AskedTx(r) ==
    CASE pc[r] = "idle"    -> latest[r]
      [] pc[r] = "tail"    -> index[r]
      [] pc[r] = "scan"    -> index[r] - 1
      [] pc[r] = "funding" -> Funding

IsAsking(r) == pc[r] \in {"tail", "scan", "funding"} \/ (pc[r] = "idle" /\ latest[r] # None)

Ask(r, answer) ==
    CheckLatest(r, answer) \/ CheckTail(r, answer) \/ Scan(r, answer) \/ CheckFunding(r, answer)

\* A step of a relay when every request succeeds.
RelayStep(r) ==
    \/ IsAsking(r) /\ Ask(r, status[AskedTx(r)])
    \/ CountAfterLatest(r)
    \/ Count(r)
    \/ Send(r)

Network == Push \/ Fund \/ \E tx \in Indices \cup {Funding} : Mine(tx)

\* An RPC error of bitcoind is taken for an answer.
RpcError(r) == IsAsking(r) /\ Ask(r, "Unknown")

Loss(r) == SendUnanswered(r) \/ Fail(r) \/ Restart(r)

Eviction == \E tx \in Indices \cup {Funding} : Evict(tx)

\* The funding transaction may be confirmed or not when anchoring starts.
Init ==
    /\ length = 0
    /\ status \in {[[tx \in Indices \cup {Funding} |-> "Unknown"] EXCEPT ![Funding] = answer] :
                      answer \in Statuses}
    /\ pc = [r \in Relays |-> "idle"]
    /\ latest = [r \in Relays |-> None]
    /\ index = [r \in Relays |-> 0]

\* The steps while the memory pool drops nothing.
Keeping == Network \/ \E r \in Relays : RelayStep(r) \/ RpcError(r) \/ Loss(r)

Next == Keeping \/ Eviction

Spec == Init /\ [][Next]_vars

\* The memory pool drops nothing.
KeepingSpec == Init /\ [][Keeping]_vars

-----------------------------------------------------------------------------
(***************************************************************************)
(* Properties.                                                             *)
(***************************************************************************)
\* The relay asks the node only for transactions that are in the chain, so that
\* get_transaction does not fail with the internal error that stops the utility.
RequestedTxExists ==
    \A r \in Relays :
        /\ latest[r] # None => latest[r] < length
        /\ pc[r] \in {"count", "tail", "scan", "send"} => index[r] < length

\* The index that process returns stands for a prefix of the chain: as long as
\* the memory pool drops nothing, Bitcoin knows all transactions up to it, also
\* after lost answers, restarts and with several relays at work.
LatestIsKnown ==
    \A r \in Relays : latest[r] # None =>
        \A tx \in Funding..latest[r] : IsKnown(status[tx])

\* What a relay sends spends an output that Bitcoin knows, as long as the memory
\* pool drops nothing: neither the index from an earlier round nor the search
\* backwards, RPC errors included, leads to a transaction whose predecessor is
\* missing, so that bitcoind rejects only what is in a block already.
SentTxIsSpendable ==
    \A r \in Relays : pc[r] = "send" => IsKnown(status[index[r] - 1])

\* From one call of process to the next the index stays or advances by one.
LatestAdvancesByOne ==
    [][\A r \in Relays : latest[r] # None /\ latest'[r] # None =>
         latest'[r] \in {latest[r], latest[r] + 1}]_vars

\* The utility exits with UnconfirmedFundingTransaction only while the initial
\* funding transaction has no confirmations.
StopsOnlyUnfunded ==
    [][\A r \in Relays : pc[r] # "stopped" /\ pc'[r] = "stopped" =>
         status[Funding] # "Committed"]_vars
=============================================================================
