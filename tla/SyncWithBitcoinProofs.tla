----------------------- MODULE SyncWithBitcoinProofs -----------------------
(***************************************************************************)
(* Proofs about SyncWithBitcoin, for any number of relays and any length   *)
(* of the anchoring chain, with all failures and evictions.                *)
(***************************************************************************)
EXTENDS SyncWithBitcoin, TLAPS

(***************************************************************************)
(* What a relay has in hand between two requests: which transaction it is  *)
(* dealing with, and how it relates to the index of the last call.         *)
(***************************************************************************)
InHand(r) ==
    /\ latest[r] # None => latest[r] < length
    /\ pc[r] \in {"count", "tail", "scan", "send"} => index[r] < length
    /\ pc[r] = "count" => index[r] = latest[r]
    /\ pc[r] \in {"tail", "scan", "funding"} => latest[r] = None
    /\ pc[r] = "scan" => index[r] > 0
    /\ pc[r] = "funding" => length > 0
    /\ pc[r] = "send" /\ latest[r] # None => index[r] \in {latest[r], latest[r] + 1}

SyncInv == TypeOK /\ \A r \in Relays : InHand(r)

\* A step that changes nothing but the state of one relay keeps the invariant
\* if it does so for this relay.
LEMMA OneRelay ==
  ASSUME SyncInv, NEW r \in Relays, NEW p, NEW l, NEW i,
         pc' = [pc EXCEPT ![r] = p], latest' = [latest EXCEPT ![r] = l],
         index' = [index EXCEPT ![r] = i], length' = length,
         TypeOK', InHand(r)'
  PROVE  SyncInv'
<1>. SUFFICES ASSUME NEW q \in Relays, q # r
     PROVE  InHand(q)'
  BY DEF SyncInv
<1>1. pc'[q] = pc[q] /\ latest'[q] = latest[q] /\ index'[q] = index[q]
  BY DEF SyncInv, TypeOK
<1>. QED
  BY <1>1 DEF SyncInv, InHand

\* A step that only changes the network keeps the invariant.
LEMMA NoRelay ==
  ASSUME SyncInv, TypeOK', UNCHANGED <<pc, latest, index>>, length' >= length
  PROVE  SyncInv'
<1>. SUFFICES ASSUME NEW r \in Relays
     PROVE  InHand(r)'
  BY DEF SyncInv
<1>1. /\ length \in Int /\ length' \in Int
      /\ index[r] \in Int
      /\ latest[r] # None => latest[r] \in Int
  BY SyncAssumption DEF SyncInv, TypeOK, Indices
<1>. QED
  BY <1>1 DEF SyncInv, InHand

\* The requests about the status of a transaction.
LEMMA SyncAsk ==
  ASSUME SyncInv, NEW r \in Relays, NEW answer, Ask(r, answer)
  PROVE  SyncInv'
<1>. USE SyncAssumption
<1>1. TypeOK /\ InHand(r)
  BY DEF SyncInv
<1>2. CASE CheckLatest(r, answer)
  <2>1. TypeOK' /\ InHand(r)'
    BY <1>1, <1>2 DEF CheckLatest, Goto, TypeOK, InHand, Indices
  <2>2. latest' = [latest EXCEPT ![r] = latest[r]]
    BY <1>1, <1>2 DEF CheckLatest, TypeOK
  <2>. QED
    BY <1>2, <2>1, <2>2, OneRelay DEF CheckLatest, Goto
<1>3. CASE CheckTail(r, answer)
  <2>1. CASE Return(r, None)
    <3>1. TypeOK' /\ InHand(r)'
      BY <1>1, <1>3, <2>1 DEF CheckTail, Return, TypeOK, InHand
    <3>2. index' = [index EXCEPT ![r] = index[r]]
      BY <1>1, <2>1 DEF Return, TypeOK
    <3>. QED
      BY <1>3, <2>1, <3>1, <3>2, OneRelay DEF CheckTail, Return
  <2>2. CASE /\ Goto(r, IF index[r] > 0 THEN "scan" ELSE "funding", index[r])
             /\ UNCHANGED latest
    <3>1. TypeOK' /\ InHand(r)'
      BY <1>1, <1>3, <2>2 DEF CheckTail, Goto, TypeOK, InHand, Indices
    <3>2. latest' = [latest EXCEPT ![r] = latest[r]]
      BY <1>1, <2>2 DEF TypeOK
    <3>. QED
      BY <1>3, <2>2, <3>1, <3>2, OneRelay DEF CheckTail, Goto
  <2>. QED
    BY <1>3, <2>1, <2>2 DEF CheckTail
<1>4. CASE Scan(r, answer)
  <2>1. latest' = [latest EXCEPT ![r] = latest[r]] /\ UNCHANGED <<length, status, latest>>
    BY <1>1, <1>4 DEF Scan, TypeOK
  <2>2. PICK p, i : /\ Goto(r, p, i) 
                    /\ \/ p = "send" /\ i = index[r]
                       \/ p = "scan" /\ i = index[r] - 1 /\ index[r] > 1
                       \/ p = "funding" /\ i = 0
    BY <1>4 DEF Scan
  <2>3. TypeOK' /\ InHand(r)'
    BY <1>1, <1>4, <2>1, <2>2 DEF Scan, Goto, TypeOK, InHand, Indices
  <2>. QED
    BY <2>1, <2>2, <2>3, OneRelay DEF Goto
<1>5. CASE CheckFunding(r, answer)
  <2>1. TypeOK' /\ InHand(r)'
    BY <1>1, <1>5 DEF CheckFunding, Goto, TypeOK, InHand, Indices
  <2>2. latest' = [latest EXCEPT ![r] = latest[r]]
    BY <1>1, <1>5 DEF CheckFunding, TypeOK
  <2>. QED
    BY <1>5, <2>1, <2>2, OneRelay DEF CheckFunding, Goto
<1>. QED
  BY <1>2, <1>3, <1>4, <1>5 DEF Ask

\* The requests that count and send transactions.
LEMMA SyncCountAndSend ==
  ASSUME SyncInv, NEW r \in Relays,
         CountAfterLatest(r) \/ Count(r) \/ Send(r) \/ SendUnanswered(r)
  PROVE  SyncInv'
<1>. USE SyncAssumption
<1>1. TypeOK /\ InHand(r)
  BY DEF SyncInv
<1>2. /\ index = [index EXCEPT ![r] = index[r]]
      /\ latest = [latest EXCEPT ![r] = latest[r]]
  BY <1>1 DEF TypeOK
<1>3. CASE CountAfterLatest(r)
  <2>1. CASE Return(r, index[r])
    <3>1. TypeOK' /\ InHand(r)'
      BY <1>1, <1>3, <2>1 DEF CountAfterLatest, Return, TypeOK, InHand, Indices
    <3>. QED
      BY <1>2, <1>3, <2>1, <3>1, OneRelay DEF CountAfterLatest, Return
  <2>2. CASE index[r] + 1 # length /\ Goto(r, "send", index[r] + 1) /\ UNCHANGED latest
    <3>1. index[r] + 1 \in Indices /\ index[r] + 1 < length /\ index[r] = latest[r]
      BY <1>1, <1>3, <2>2 DEF CountAfterLatest, TypeOK, InHand, Indices
    <3>2. TypeOK' /\ InHand(r)'
      BY <1>1, <1>3, <2>2, <3>1 DEF CountAfterLatest, Goto, TypeOK, InHand
    <3>. QED
      BY <1>2, <1>3, <2>2, <3>2, OneRelay DEF CountAfterLatest, Goto
  <2>. QED
    BY <1>3, <2>1, <2>2 DEF CountAfterLatest
<1>4. CASE Count(r)
  <2>1. TypeOK' /\ InHand(r)'
    BY <1>1, <1>4 DEF Count, Goto, TypeOK, InHand, Indices
  <2>. QED
    BY <1>2, <1>4, <2>1, OneRelay DEF Count, Goto
<1>5. CASE Send(r)
  <2>1. CASE Return(r, index[r])
    <3>1. TypeOK' /\ InHand(r)'
      BY <1>1, <1>5, <2>1 DEF Send, Return, TypeOK, InHand, Indices, Statuses
    <3>. QED
      BY <1>2, <1>5, <2>1, <3>1, OneRelay DEF Send, Return
  <2>2. CASE pc' = [pc EXCEPT ![r] = "idle"] /\ UNCHANGED <<status, latest, index>>
    <3>1. TypeOK' /\ InHand(r)'
      BY <1>1, <1>5, <2>2 DEF Send, TypeOK, InHand
    <3>. QED
      BY <1>2, <1>5, <2>2, <3>1, OneRelay DEF Send
  <2>. QED
    BY <1>5, <2>1, <2>2 DEF Send
<1>6. CASE SendUnanswered(r)
  <2>1. TypeOK' /\ InHand(r)'
    BY <1>1, <1>6 DEF SendUnanswered, TypeOK, InHand, Indices, Statuses
  <2>. QED
    BY <1>2, <1>6, <2>1, OneRelay DEF SendUnanswered
<1>. QED
  BY <1>3, <1>4, <1>5, <1>6

\* Every step of the relays and of the network keeps the invariant.
LEMMA SyncNext == SyncInv /\ [Next]_vars => SyncInv'
<1>. USE SyncAssumption
<1>. SUFFICES ASSUME SyncInv, [Next]_vars PROVE SyncInv'
  OBVIOUS
<1>1. TypeOK
  BY DEF SyncInv
<1>2. ASSUME NEW r \in Relays, RelayStep(r)
      PROVE  SyncInv'
  BY <1>2, SyncAsk, SyncCountAndSend DEF RelayStep
<1>3. ASSUME NEW r \in Relays, RpcError(r) \/ Loss(r)
      PROVE  SyncInv'
  <2>1. InHand(r)
    BY DEF SyncInv
  <2>2. /\ index = [index EXCEPT ![r] = index[r]]
        /\ latest = [latest EXCEPT ![r] = latest[r]]
    BY <1>1 DEF TypeOK
  <2>3. CASE Fail(r)
    <3>1. TypeOK' /\ InHand(r)'
      BY <1>1, <2>1, <2>3 DEF Fail, TypeOK, InHand
    <3>. QED
      BY <2>2, <2>3, <3>1, OneRelay DEF Fail
  <2>4. CASE Restart(r)
    <3>1. TypeOK' /\ InHand(r)'
      BY <1>1, <2>1, <2>4 DEF Restart, TypeOK, InHand
    <3>. QED
      BY <2>2, <2>4, <3>1, OneRelay DEF Restart
  <2>. QED
    BY <1>3, <2>3, <2>4, SyncAsk, SyncCountAndSend DEF RpcError, Loss
<1>4. ASSUME Network
      PROVE  SyncInv'
  <2>1. UNCHANGED <<pc, latest, index>>
    BY <1>4 DEF Network, Push, Fund, Mine
  <2>2. TypeOK' /\ length' >= length
    <3>1. CASE Push
      BY <1>1, <3>1 DEF Push, TypeOK
    <3>2. CASE Fund
      BY <1>1, <3>2 DEF Fund, TypeOK, Statuses
    <3>3. ASSUME NEW tx \in Indices \cup {Funding}, Mine(tx)
          PROVE  TypeOK' /\ length' >= length
      BY <1>1, <3>3 DEF Mine, TypeOK, Statuses
    <3>. QED
      BY <1>4, <3>1, <3>2, <3>3 DEF Network
  <2>. QED
    BY <2>1, <2>2, NoRelay
<1>5. ASSUME NEW tx \in Indices \cup {Funding}, Evict(tx)
      PROVE  SyncInv'
  <2>1. UNCHANGED <<pc, latest, index, length>> /\ length' >= length
    BY <1>1, <1>5 DEF Evict, TypeOK
  <2>2. status' \in [Indices \cup {Funding} -> Statuses]
    BY <1>1, <1>5 DEF Evict, TypeOK, Statuses
  <2>3. TypeOK'
    BY <1>1, <2>1, <2>2 DEF TypeOK
  <2>. QED
    BY <2>1, <2>3, NoRelay
<1>6. CASE UNCHANGED vars
  BY <1>6 DEF vars, SyncInv, TypeOK, InHand
<1>. QED
  BY <1>2, <1>3, <1>4, <1>5, <1>6 DEF Next, Keeping, Eviction

\* The relays start without an index and with an empty chain.
LEMMA SyncInit == Init => SyncInv
<1>. SUFFICES ASSUME Init PROVE SyncInv
  OBVIOUS
<1>1. TypeOK
  BY SyncAssumption DEF Init, TypeOK, Indices, Statuses
<1>. QED
  BY <1>1 DEF Init, SyncInv, InHand

\* The invariant of the relays.
THEOREM SyncCorrect == Spec => []SyncInv
BY SyncInit, SyncNext, PTL DEF Spec

\* The state of the relays stays well typed under all failures.
THEOREM SyncTypeCorrect == Spec => []TypeOK
<1>1. SyncInv => TypeOK
  BY DEF SyncInv
<1>. QED
  BY <1>1, SyncCorrect, PTL

\* The utility never asks for a transaction that is not in the chain.
THEOREM RequestedExists == Spec => []RequestedTxExists
<1>1. SyncInv => RequestedTxExists
  BY DEF SyncInv, InHand, RequestedTxExists
<1>. QED
  BY <1>1, SyncCorrect, PTL

\* No call of process skips a transaction or goes back.
THEOREM LatestAdvances == Spec => LatestAdvancesByOne
<1>. DEFINE A == \A r \in Relays : latest[r] # None /\ latest'[r] # None =>
                   latest'[r] \in {latest[r], latest[r] + 1}
<1>1. SyncInv /\ [Next]_vars => A
  <2>. SUFFICES ASSUME SyncInv, [Next]_vars, NEW r \in Relays,
                       latest[r] # None, latest'[r] # None
       PROVE  latest'[r] \in {latest[r], latest[r] + 1}
    OBVIOUS
  <2>1. TypeOK /\ InHand(r)
    BY DEF SyncInv
  <2>2. ASSUME NEW q \in Relays, RelayStep(q) \/ RpcError(q) \/ Loss(q)
        PROVE  \/ latest' = latest
               \/ latest' = [latest EXCEPT ![q] = None]
               \/ /\ latest' = [latest EXCEPT ![q] = index[q]]
                  /\ pc[q] \in {"count", "send"}
    BY <2>2 DEF RelayStep, RpcError, Loss, Ask, CheckLatest, CheckTail, Scan, CheckFunding,
                CountAfterLatest, Count, Send, SendUnanswered, Fail, Restart, Goto, Return
  <2>3. ASSUME NEW q \in Relays, RelayStep(q) \/ RpcError(q) \/ Loss(q)
        PROVE  latest'[r] \in {latest[r], latest[r] + 1}
    BY <2>1, <2>2, <2>3 DEF TypeOK, InHand
  <2>4. CASE latest' = latest
    BY <2>4
  <2>. QED
    BY <2>3, <2>4 DEF Next, Keeping, Eviction, Network, Push, Fund, Mine, Evict, vars
<1>. QED
  BY <1>1, SyncCorrect, PTL DEF Spec, LatestAdvancesByOne
-----------------------------------------------------------------------------
(***************************************************************************)
(* What Bitcoin knows.                                                     *)
(***************************************************************************)
\* Bitcoin knows a transaction only together with all transactions before it, and
\* it knows the one that a relay returned.
KnownInv ==
    /\ \A tx, before \in Indices \cup {Funding} :
          before <= tx /\ IsKnown(status[tx]) => IsKnown(status[before])
    /\ \A r \in Relays : latest[r] # None => IsKnown(status[latest[r]])

\* A transaction that gets into the memory pool or into a block has its input there.
LEMMA KnownGrows ==
  ASSUME TypeOK, KnownInv, NEW tx \in Indices \cup {Funding}, NEW s \in Statuses,
         IsKnown(s), tx # Funding => IsKnown(status[tx - 1]),
         status' = [status EXCEPT ![tx] = s],
         \A r \in Relays : latest'[r] \in {latest[r], None, tx}
  PROVE  KnownInv'
<1>1. \A t \in Indices \cup {Funding} :
         IsKnown(status'[t]) <=> t = tx \/ IsKnown(status[t])
  BY DEF TypeOK, IsKnown
<1>2. ASSUME NEW t \in Indices \cup {Funding}, NEW before \in Indices \cup {Funding},
             before <= t, IsKnown(status'[t])
      PROVE  IsKnown(status'[before])
  <2>1. CASE IsKnown(status[t])
    BY <1>1, <1>2, <2>1 DEF KnownInv
  <2>2. CASE t = tx /\ before # tx
    <3>1. tx # Funding /\ tx - 1 \in Indices \cup {Funding} /\ before <= tx - 1
      BY <1>2, <2>2, SyncAssumption DEF Indices, Funding
    <3>. QED
      BY <1>1, <3>1 DEF KnownInv
  <2>. QED
    BY <1>1, <1>2, <2>1, <2>2
<1>3. ASSUME NEW r \in Relays, latest'[r] # None
      PROVE  IsKnown(status'[latest'[r]])
  BY <1>1, <1>3 DEF KnownInv, TypeOK
<1>. QED
  BY <1>2, <1>3 DEF KnownInv, IsKnown

\* Every step but an eviction keeps it.
LEMMA KnownNext ==
  ASSUME SyncInv, KnownInv, [Keeping]_vars
  PROVE  KnownInv'
<1>1. TypeOK
  BY DEF SyncInv
<1>2. ASSUME status' = status, \A r \in Relays : latest'[r] \in {latest[r], None}
      PROVE  KnownInv'
  BY <1>2 DEF KnownInv, IsKnown
<1>3. ASSUME NEW q \in Relays, RelayStep(q) \/ RpcError(q) \/ Loss(q)
      PROVE  KnownInv'
  <2>1. InHand(q)
    BY DEF SyncInv
  <2>2. CASE Send(q) \/ SendUnanswered(q)
    <3>1. CASE IsAccepted(index[q])
      <4>1. /\ status' = [status EXCEPT ![index[q]] = "Mempool"]
            /\ latest' \in {latest, [latest EXCEPT ![q] = index[q]]}
        BY <2>2, <3>1 DEF Send, SendUnanswered, Return
      <4>2. index[q] \in Indices /\ IsKnown(status[index[q] - 1])
        BY <1>1, <3>1 DEF TypeOK, IsAccepted
      <4>3. \A r \in Relays : latest'[r] \in {latest[r], None, index[q]}
        BY <1>1, <4>1 DEF TypeOK
      <4>4. "Mempool" \in Statuses /\ IsKnown("Mempool")
        BY DEF Statuses, IsKnown
      <4>. QED
        BY <1>1, <4>1, <4>2, <4>3, <4>4, KnownGrows
    <3>. QED
      BY <1>2, <2>2, <3>1 DEF Send, SendUnanswered
  <2>3. CASE ~(Send(q) \/ SendUnanswered(q))
    <3>1. /\ status' = status
          /\ \/ latest' = latest
             \/ latest' = [latest EXCEPT ![q] = None]
             \/ latest' = [latest EXCEPT ![q] = index[q]] /\ pc[q] = "count"
      BY <1>3, <2>3 DEF RelayStep, RpcError, Loss, Ask, CheckLatest, CheckTail, Scan, CheckFunding,
                CountAfterLatest, Count, Fail, Restart, Goto, Return
    <3>. QED
      BY <1>1, <1>2, <2>1, <3>1 DEF InHand, TypeOK
  <2>. QED
    BY <2>2, <2>3
<1>4. CASE Push
  BY <1>2, <1>4 DEF Push
<1>5. CASE Fund
  <2>1. Funding \in Indices \cup {Funding} /\ "Mempool" \in Statuses /\ IsKnown("Mempool")
    BY DEF Statuses, IsKnown
  <2>. QED
    BY <1>1, <1>5, <2>1, KnownGrows DEF Fund
<1>6. ASSUME NEW tx \in Indices \cup {Funding}, Mine(tx)
      PROVE  KnownInv'
  <2>1. "Committed" \in Statuses /\ IsKnown("Committed")
    BY DEF Statuses, IsKnown
  <2>. QED
    BY <1>1, <1>6, <2>1, KnownGrows DEF Mine
<1>7. CASE UNCHANGED vars
  BY <1>2, <1>7 DEF vars
<1>. QED
  BY <1>3, <1>4, <1>5, <1>6, <1>7 DEF Keeping, Network

\* The index that process returns stands for a prefix of the chain that Bitcoin
\* knows, for any number of relays, under lost requests and answers, RPC errors and
\* restarts, as long as the memory pool drops nothing.
THEOREM LatestKnown == KeepingSpec => []LatestIsKnown
<1>1. Init => KnownInv
  BY SyncAssumption DEF Init, KnownInv, IsKnown, Indices, Funding
<1>2. [Keeping]_vars => [Next]_vars
  BY DEF Next
<1>3. SyncInv /\ KnownInv => LatestIsKnown
  <2>. SUFFICES ASSUME SyncInv, KnownInv, NEW r \in Relays, latest[r] # None,
                       NEW tx \in Funding..latest[r]
       PROVE  IsKnown(status[tx])
    BY DEF LatestIsKnown
  <2>1. latest[r] \in Indices /\ tx \in Indices \cup {Funding} /\ tx <= latest[r]
    BY SyncAssumption DEF SyncInv, TypeOK, Indices, Funding
  <2>. QED
    BY <2>1 DEF KnownInv
<1>. QED
  BY <1>1, <1>2, <1>3, SyncInit, SyncNext, KnownNext, PTL DEF KeepingSpec

\* What Bitcoin knows it keeps knowing.
LEMMA KnownStays ==
  ASSUME SyncInv, [Keeping]_vars, NEW tx \in Indices \cup {Funding}, IsKnown(status[tx])
  PROVE  IsKnown(status'[tx])
<1>1. TypeOK
  BY DEF SyncInv
<1>2. \/ status' = status
      \/ \E t \in Indices \cup {Funding}, s \in {"Mempool", "Committed"} :
            status' = [status EXCEPT ![t] = s]
  BY <1>1 DEF Keeping, Network, RelayStep, RpcError, Loss, Ask, CheckLatest, CheckTail, Scan,
          CheckFunding, CountAfterLatest, Count, Send, SendUnanswered, Fail, Restart,
          Push, Fund, Mine, TypeOK, vars
<1>. QED
  BY <1>1, <1>2 DEF TypeOK, IsKnown

\* A relay goes on to send a transaction only if it knows of the one before.
LEMMA SentNext ==
  ASSUME SyncInv, KnownInv, SentTxIsSpendable, [Keeping]_vars
  PROVE  SentTxIsSpendable'
<1>. USE SyncAssumption
<1>. SUFFICES ASSUME NEW r \in Relays, pc'[r] = "send"
     PROVE  IsKnown(status'[index'[r] - 1])
  BY DEF SentTxIsSpendable, IsKnown
<1>1. TypeOK /\ InHand(r)
  BY DEF SyncInv
<1>2. ASSUME NEW tx \in Indices, tx = index'[r], IsKnown(status[tx - 1])
      PROVE  IsKnown(status'[index'[r] - 1])
  <2>1. tx - 1 \in Indices \cup {Funding}
    BY DEF Indices, Funding
  <2>. QED
    BY <1>2, <2>1, KnownStays
<1>3. CASE pc'[r] = pc[r] /\ index'[r] = index[r]
  BY <1>1, <1>2, <1>3 DEF SentTxIsSpendable, TypeOK
<1>4. ASSUME NEW q \in Relays, RelayStep(q) \/ RpcError(q) \/ Loss(q)
      PROVE  IsKnown(status'[index'[r] - 1])
  <2>1. CASE q # r
    <3>1. /\ pc' = [pc EXCEPT ![q] = pc'[q]]
          /\ index' = [index EXCEPT ![q] = index'[q]]
      BY <1>1, <1>4 DEF RelayStep, RpcError, Loss, Ask, CheckLatest, CheckTail, Scan,
              CheckFunding, CountAfterLatest, Count, Send, SendUnanswered, Fail, Restart,
              Goto, Return, TypeOK
    <3>. QED
      BY <1>1, <1>3, <2>1, <3>1 DEF TypeOK
  <2>2. CASE \E answer : CheckLatest(r, answer)
    <3>1. latest[r] \in Indices /\ index'[r] = latest[r] /\ IsKnown(status[latest[r]])
      BY <1>1, <2>2 DEF CheckLatest, Goto, TypeOK, KnownInv
    <3>2. IsKnown(status[latest[r] - 1])
      <4>1. /\ latest[r] - 1 \in Indices \cup {Funding}
            /\ latest[r] - 1 <= latest[r]
        BY <3>1 DEF Indices, Funding
      <4>. QED
        BY <3>1, <4>1 DEF KnownInv
    <3>. QED
      BY <1>2, <3>1, <3>2
  <2>3. CASE CountAfterLatest(r)
    <3>1. /\ latest[r] \in Indices /\ IsKnown(status[latest[r]])
          /\ index'[r] = latest[r] + 1 /\ latest[r] + 1 \in Indices
      BY <1>1, <2>3 DEF CountAfterLatest, Goto, Return, TypeOK, InHand, KnownInv, Indices
    <3>2. (latest[r] + 1) - 1 = latest[r]
      BY <3>1 DEF Indices
    <3>. QED
      BY <1>2, <3>1, <3>2
  <2>4. CASE \E answer : Scan(r, answer)
    <3>1. index'[r] = index[r] /\ index[r] \in Indices /\ IsKnown(status[index[r] - 1])
      BY <1>1, <2>4 DEF Scan, Goto, Answers, IsKnown, TypeOK
    <3>. QED
      BY <1>2, <3>1
  <2>5. CASE \E answer : CheckFunding(r, answer)
    <3>1. index'[r] = 0 /\ IsKnown(status[Funding])
      BY <1>1, <2>5 DEF CheckFunding, Goto, Answers, IsKnown, TypeOK
    <3>2. 0 \in Indices /\ 0 - 1 = Funding
      BY DEF Indices, Funding
    <3>. QED
      BY <1>2, <3>1, <3>2
  <2>6. CASE \/ \E answer : CheckTail(r, answer)
             \/ Count(r) \/ Send(r) \/ SendUnanswered(r) \/ Fail(r) \/ Restart(r)
    BY <1>1, <2>6 DEF CheckTail, Count, Send, SendUnanswered, Fail, Restart, Goto, Return,
            TypeOK
  <2>. QED
    BY <1>4, <2>1, <2>2, <2>3, <2>4, <2>5, <2>6 DEF RelayStep, RpcError, Loss, Ask
<1>. QED
  BY <1>3, <1>4 DEF Keeping, Network, Push, Fund, Mine, vars

\* For any number of relays, under lost requests and answers, RPC errors and
\* restarts, what a relay sends spends an output that Bitcoin knows, as long as the
\* memory pool drops nothing.
THEOREM SentIsSpendable == KeepingSpec => []SentTxIsSpendable
<1>1. Init => KnownInv /\ SentTxIsSpendable
  BY SyncAssumption DEF Init, KnownInv, SentTxIsSpendable, IsKnown, Indices, Funding
<1>2. [Keeping]_vars => [Next]_vars
  BY DEF Next
<1>. QED
  BY <1>1, <1>2, SyncInit, SyncNext, KnownNext, SentNext, PTL DEF KeepingSpec
=============================================================================
