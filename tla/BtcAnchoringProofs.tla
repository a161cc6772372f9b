------------------------- MODULE BtcAnchoringProofs -------------------------
(***************************************************************************)
(* Proofs about BtcAnchoring, for any set of configurations, keys and      *)
(* funding transactions.                                                   *)
(***************************************************************************)
EXTENDS BtcAnchoring, FiniteSetTheorems, SequenceTheorems, TLAPS

-----------------------------------------------------------------------------
(***************************************************************************)
(* Configurations and scripts.                                             *)
(***************************************************************************)
\* A nonempty set of naturals has a least element: find_bitcoin_key and
\* find_out return the first match.
LEMMA LeastNatural ==
  ASSUME NEW T, T \subseteq Nat, T # {}
  PROVE  \E n \in T : \A m \in T : n <= m
<1>1. PICK n \in T : \A m \in T : <<m, n>> \notin OpToRel(<, Nat)
  BY WFMin, NatLessThanWellFounded, Zenon
<1>2. \A m \in T : ~(m < n)
  BY <1>1, Zenon DEF OpToRel
<1>. QED
  BY <1>2

\* exonum::helpers::byzantine_quorum of a positive number of nodes is positive,
\* at most that number, and two quorums share more than a third of the nodes.
LEMMA QuorumBounds ==
  ASSUME NEW n \in Nat, n > 0
  PROVE  /\ ByzantineQuorum(n) \in 1..n
         /\ 3 * (2 * ByzantineQuorum(n) - n) > n
BY DEF ByzantineQuorum

\* following_anchoring_height is a multiple of the interval above the height.
LEMMA FollowingHeight ==
  ASSUME NEW config \in Configs, NEW h \in Nat
  PROVE  /\ FollowingAnchoringHeight(config, h) \in Nat
         /\ h < FollowingAnchoringHeight(config, h)
<1>1. config.anchoring_interval \in Nat /\ config.anchoring_interval > 0
  BY ConfigsAssumption DEF Validate
<1>2. \A i \in Nat : i > 0 => h % i \in 0..(i - 1)
  OBVIOUS
<1>. QED
  BY <1>1, <1>2 DEF FollowingAnchoringHeight, PreviousAnchoringHeight

\* What is needed of a configuration: its keys, its script and its quorum.
LEMMA ConfigFacts ==
  ASSUME NEW config \in Configs
  PROVE  /\ config # None
         /\ config.anchoring_keys \in Seq(AnchoringKeys)
         /\ Len(config.anchoring_keys) \in Nat \ {0}
         /\ DOMAIN config.anchoring_keys = 1..Len(config.anchoring_keys)
         /\ AnchoringOutScript(config) \in Scripts
         /\ AnchoringOutScript(config) # None
         /\ RedeemScript(config).quorum \in Nat \ {0}
         /\ config.transaction_fee \in Nat
<1>1. config # None /\ AnchoringOutScript(config) \in Scripts /\ AnchoringOutScript(config) # None
  BY NoneAssumption DEF Scripts
<1>2. /\ config.anchoring_keys \in Seq(AnchoringKeys)
      /\ config.anchoring_keys # <<>>
      /\ config.transaction_fee \in Nat
  BY ConfigsAssumption DEF Validate
<1>3. /\ Len(config.anchoring_keys) \in Nat \ {0}
      /\ DOMAIN config.anchoring_keys = 1..Len(config.anchoring_keys)
  BY <1>2, EmptySeq, LenProperties
<1>4. RedeemScript(config).quorum \in Nat \ {0}
  BY <1>3, QuorumBounds DEF RedeemScript
<1>. QED
  BY <1>1, <1>2, <1>3, <1>4

\* find_bitcoin_key returns a node of the configuration and its key.
LEMMA NodeFacts ==
  ASSUME NEW config \in Configs, NEW author, IsAnchoringNode(config, author)
  PROVE  /\ FindNodeId(config, author) \in Nat
         /\ FindNodeId(config, author) \in DOMAIN RedeemScript(config).public_keys
         /\ FindBitcoinKey(config, author) \in BitcoinKeys
         /\ RedeemScript(config).public_keys[FindNodeId(config, author)]
              = FindBitcoinKey(config, author)
<1>. DEFINE T == NodesWithKey(config, author)
<1>1. T \subseteq DOMAIN config.anchoring_keys
  BY DEF NodesWithKey
<1>2. T \subseteq Nat /\ T # {}
  BY <1>1, ConfigFacts DEF IsAnchoringNode
<1>3. FindNodeId(config, author) \in T
  <2>1. \E n \in T : \A m \in T : n <= m
    BY <1>2, LeastNatural
  <2>. QED
    BY <2>1, Zenon DEF FindNodeId
<1>4. FindNodeId(config, author) \in 1..Len(config.anchoring_keys)
  BY <1>1, <1>3, ConfigFacts
<1>5. config.anchoring_keys[FindNodeId(config, author)] \in AnchoringKeys
  BY <1>4, ConfigFacts, ElementOfSeq
<1>. QED
  BY <1>1, <1>2, <1>3, <1>5 DEF FindBitcoinKey, RedeemScript, AnchoringKeys

\* find_out returns an output of the funding transaction.
LEMMA FundingFacts ==
  ASSUME NEW funding \in FundingTxs, NEW script, PaysTo(funding, script)
  PROVE  FundingValue(funding, script) \in Nat
<1>. DEFINE T == MatchingOuts(funding, script)
<1>0. /\ funding.output \in Seq([script_pubkey : Scripts, value : Nat])
      /\ DOMAIN funding.output = 1..Len(funding.output)
      /\ Len(funding.output) \in Nat
  BY FundingAssumption, LenProperties
<1>1. T \subseteq DOMAIN funding.output
  BY DEF MatchingOuts
<1>2. T \subseteq Nat /\ T # {}
  BY <1>0, <1>1 DEF PaysTo
<1>3. FindOut(funding, script) \in T
  <2>1. \E n \in T : \A m \in T : n <= m
    BY <1>2, LeastNatural
  <2>. QED
    BY <2>1, Zenon DEF FindOut
<1>4. FindOut(funding, script) \in 1..Len(funding.output)
  BY <1>0, <1>1, <1>3
<1>5. funding.output[FindOut(funding, script)] \in [script_pubkey : Scripts, value : Nat]
  BY <1>0, <1>4, ElementOfSeq
<1>. QED
  BY <1>5 DEF FundingValue

-----------------------------------------------------------------------------
(***************************************************************************)
(* The proposal.                                                           *)
(***************************************************************************)
\* The last transaction of an established chain is a transaction.
LEMMA LastTxType ==
  ASSUME TypeOK, chain # <<>>
  PROVE  /\ Len(chain) \in Nat \ {0}
         /\ DOMAIN chain = 1..Len(chain)
         /\ LastTx \in Txs
<1>1. /\ Len(chain) \in Nat \ {0}
      /\ DOMAIN chain = 1..Len(chain)
  BY EmptySeq, LenProperties DEF TypeOK
<1>2. LastTx \in Txs
  BY <1>1, ElementOfSeq DEF TypeOK, LastTx
<1>. QED
  BY <1>1, <1>2

\* The height that is anchored next is above the last one, or repeats it in a
\* transition.
LEMMA AnchoringHeightFacts ==
  ASSUME TypeOK
  PROVE  /\ AnchoringHeight \in Nat
         /\ chain # <<>> => IF IsTransition THEN AnchoringHeight = LastTx.height
                                            ELSE AnchoringHeight > LastTx.height
<1>1. CASE chain = <<>>
  BY <1>1 DEF AnchoringHeight
<1>2. CASE chain # <<>>
  <2>1. LastTx.height \in Nat
    BY <1>2, LastTxType DEF Txs
  <2>2. actual \in Configs
    BY DEF TypeOK
  <2>. QED
    BY <1>2, <2>1, <2>2, FollowingHeight DEF AnchoringHeight
<1>. QED
  BY <1>1, <1>2

\* A proposal that the builder has created.
LEMMA ProposalFacts ==
  ASSUME TypeOK, ProposalState = "Ok"
  PROVE  /\ Proposal \in Txs
         /\ Inputs(Proposal) # {}
         /\ Proposal.spends = AnchoringOutScript(actual)
         /\ Proposal.funds = unspent
         /\ Proposal.height = AnchoringHeight
         /\ AnchoringHeight <= core_height
         /\ Proposal.prev = IF chain # <<>> /\ ~IsBroken THEN Len(chain) ELSE 0
         /\ Proposal.out = IF chain # <<>> /\ IsTransition
                             THEN AnchoringOutScript(following)
                             ELSE AnchoringOutScript(actual)
<1>1. /\ CreateOutcome(Builder) = "Ok"
      /\ ~(AnchoringHeight > core_height)
      /\ unspent # None => PaysTo(unspent, AnchoringOutScript(actual))
  BY DEF ProposalState
<1>2. actual \in Configs /\ core_height \in Nat /\ unspent \in FundingTxs \cup {None}
  BY DEF TypeOK
<1>3. /\ AnchoringOutScript(actual) \in Scripts
      /\ AnchoringOutScript(actual) # None
      /\ actual.transaction_fee \in Nat
  BY <1>2, ConfigFacts
<1>4. IsTransition => /\ AnchoringOutScript(following) \in Scripts
                      /\ AnchoringOutScript(following) # None
                      /\ ScriptPubkey = AnchoringOutScript(following)
  BY ConfigFacts DEF TypeOK, IsTransition, ScriptPubkey
<1>5. Len(chain) \in Nat /\ (chain # <<>> => Len(chain) # 0 /\ LastTx.value \in Nat)
  BY LastTxType, LenProperties DEF TypeOK, Txs
<1>6. /\ Builder.prev_tx.index = IF chain # <<>> /\ ~IsBroken THEN Len(chain) ELSE 0
      /\ Builder.prev_tx.value \in Nat
      /\ Builder.recovery_tx \in Nat
      /\ Builder.additional_funds = unspent
      /\ Builder.script_pubkey = AnchoringOutScript(actual)
      /\ Builder.payload = AnchoringHeight
      /\ Builder.fee = actual.transaction_fee
      /\ Builder.transit_to = IF chain # <<>> /\ IsTransition
                                THEN AnchoringOutScript(following) ELSE None
  BY <1>4, <1>5 DEF Builder, NoPrevTx
<1>7. Balance(Builder) \in Nat
  BY <1>1, <1>2, <1>6, FundingFacts DEF Balance
<1>8. TotalFee(Builder) \in Nat
  <2>1. SizeInBytes(Builder) \in Nat
    BY DEF SizeInBytes, InputCount
  <2>2. Builder.fee * SizeInBytes(Builder) \in Nat
    BY <2>1, <1>3, <1>6
  <2>3. \A n \in Nat : (n % U64) \in Nat
    BY U64Assumption
  <2>. QED
    BY <2>2, <2>3 DEF TotalFee
<1>9. InputCount(Builder) # 0 /\ TotalFee(Builder) <= Balance(Builder)
  BY <1>1, <1>7, <1>8 DEF CreateOutcome
<1>10. Balance(Builder) - TotalFee(Builder) \in Nat
  BY <1>7, <1>8, <1>9
<1>11. AnchoringHeight \in Nat
  BY AnchoringHeightFacts
<1>12. /\ Proposal.spends = AnchoringOutScript(actual)
       /\ Proposal.funds = unspent
       /\ Proposal.height = AnchoringHeight
       /\ Proposal.prev = Builder.prev_tx.index
       /\ Proposal.out = IF chain # <<>> /\ IsTransition
                           THEN AnchoringOutScript(following)
                           ELSE AnchoringOutScript(actual)
  BY <1>3, <1>4, <1>6 DEF Proposal, Create
<1>13. Proposal \in Txs
  BY <1>2, <1>3, <1>4, <1>5, <1>6, <1>10, <1>11 DEF Proposal, Create, Txs
<1>14. 0 \in Inputs(Proposal)
  BY <1>6, <1>9, <1>12 DEF Inputs, InputCount
<1>. QED
  BY <1>1, <1>2, <1>6, <1>11, <1>12, <1>13, <1>14

-----------------------------------------------------------------------------
(***************************************************************************)
(* Steps.                                                                  *)
(***************************************************************************)
\* What a signature that sign_input stores is: a signature of the current
\* proposal by the key at the position of the author in the actual script.
Stored(s) ==
    /\ ProposalState = "Ok"
    /\ s \in InputSignatures
    /\ s.txid = Proposal
    /\ s.input \in Inputs(Proposal)
    /\ s.node \in DOMAIN RedeemScript(actual).public_keys
    /\ s.signer = RedeemScript(actual).public_keys[s.node]

\* An accepted SignInput stores one signature and finalizes the proposal if it
\* has become complete.
LEMMA SignInputStep ==
  ASSUME TypeOK, NEW author, NEW arg \in SignInputs, SignInput(author, arg)
  PROVE  \E s : 
           LET before == Cardinality(SignaturesOf(signatures, Proposal, s.input)) IN
           /\ Stored(s)
           /\ before < RedeemScript(actual).quorum
           /\ signatures' = InsertSignature(signatures, s)
           /\ IF IsComplete(Proposal, before, signatures')
                THEN PushAnchoringTransaction(Proposal)
                ELSE UNCHANGED <<chain, spent, actual, following, unspent>>
           /\ UNCHANGED <<confirmations, core_height>>
<1>. DEFINE s == [txid |-> arg.txid, input |-> arg.input,
                  node |-> FindNodeId(actual, author), signer |-> arg.signer]
<1>1. actual \in Configs /\ IsAnchoringNode(actual, author)
  BY DEF TypeOK, SignInput
<1>2. /\ ProposalState = "Ok" /\ arg.txid = Proposal
      /\ arg.input \in Inputs(Proposal)
      /\ arg.signer = FindBitcoinKey(actual, author)
  BY DEF SignInput, VerifySignature
<1>3. /\ Proposal \in Txs
      /\ arg.input \in {0, 1}
  BY <1>2, ProposalFacts DEF Inputs
<1>4. Stored(s)
  BY <1>1, <1>2, <1>3, NodeFacts DEF Stored, InputSignatures
<1>. QED
  BY <1>2, <1>4, Zenon DEF SignInput

\* A vote changes only the votes and the unspent funding transaction, which
\* then pays to the actual configuration and is not spent.
LEMMA AddFundsStep ==
  ASSUME TypeOK, NEW author, NEW funding \in FundingTxs, AddFunds(author, funding)
  PROVE  /\ confirmations' \in [FundingTxs -> SUBSET BitcoinKeys]
         /\ \/ unspent' = unspent
            \/ /\ unspent' = funding
               /\ funding \notin spent
               /\ PaysTo(funding, AnchoringOutScript(actual))
         /\ UNCHANGED <<chain, spent, signatures, actual, following, core_height>>
<1>. DEFINE key == FindBitcoinKey(actual, author)
<1>1. key \in BitcoinKeys
  BY NodeFacts DEF TypeOK, AddFunds
<1>2. confirmations[funding] \cup {key} \in SUBSET BitcoinKeys
  BY <1>1 DEF TypeOK
<1>. HIDE DEF key
<1>. DEFINE confirmed == confirmations[funding] \cup {key}
<1>3. /\ UNCHANGED <<chain, spent, signatures, actual, following, core_height>>
      /\ funding \notin spent /\ PaysTo(funding, AnchoringOutScript(actual))
      /\ \/ /\ confirmations' = [confirmations EXCEPT ![funding] = {}]
            /\ unspent' = funding
         \/ /\ confirmations' = [confirmations EXCEPT ![funding] = confirmed]
            /\ UNCHANGED unspent
  BY DEF AddFunds, key
<1>. QED
  BY <1>2, <1>3 DEF TypeOK

-----------------------------------------------------------------------------
(***************************************************************************)
(* Type correctness.                                                       *)
(***************************************************************************)
\* The service starts with well typed state.
LEMMA TypeInit == Init => TypeOK
BY EmptySeq DEF Init, TypeOK

\* Every call leaves the state well typed: in particular the builder is only
\* asked for values that it can compute, and a finalized transaction has a
\* natural amount in its output.
LEMMA TypeNext == TypeOK /\ [Next]_vars => TypeOK'
<1>. SUFFICES ASSUME TypeOK, [Next]_vars
     PROVE  TypeOK'
  OBVIOUS
<1>1. ASSUME NEW author \in ServiceKeys, NEW arg \in SignInputs, SignInput(author, arg)
      PROVE  TypeOK'
  <2>1. PICK s : /\ Stored(s)
                 /\ signatures' = InsertSignature(signatures, s)
                 /\ \/ PushAnchoringTransaction(Proposal)
                    \/ UNCHANGED <<chain, spent, actual, following, unspent>>
                 /\ UNCHANGED <<confirmations, core_height>>
    BY <1>1, SignInputStep
  <2>2. signatures' \in SUBSET InputSignatures
    BY <2>1 DEF TypeOK, InsertSignature, Stored
  <2>3. CASE PushAnchoringTransaction(Proposal)
    <3>1. Proposal \in Txs
      BY <2>1, ProposalFacts DEF Stored
    <3>2. chain' \in Seq(Txs)
      BY <2>3, <3>1, AppendProperties DEF TypeOK, PushAnchoringTransaction
    <3>. QED
      BY <2>1, <2>2, <2>3, <3>2 DEF TypeOK, PushAnchoringTransaction
  <2>. QED
    BY <2>1, <2>2, <2>3 DEF TypeOK
<1>2. ASSUME NEW author \in ServiceKeys, NEW funding \in FundingTxs, AddFunds(author, funding)
      PROVE  TypeOK'
  BY <1>2, AddFundsStep DEF TypeOK
<1>3. ASSUME NEW config \in Configs, ApplyConfig(config)
      PROVE  TypeOK'
  BY <1>3 DEF TypeOK, ApplyConfig
<1>4. ASSUME CommitBlock
      PROVE  TypeOK'
  BY <1>4 DEF TypeOK, CommitBlock
<1>5. CASE UNCHANGED vars
  BY <1>5 DEF TypeOK, vars
<1>. QED
  BY <1>1, <1>2, <1>3, <1>4, <1>5 DEF Next

\* The state of the service is always well typed.
THEOREM TypeCorrect == Spec => []TypeOK
BY TypeInit, TypeNext, PTL DEF Spec

-----------------------------------------------------------------------------
(***************************************************************************)
(* The anchoring chain and the funds.  The four invariants are inductive   *)
(* only together: a transaction spends its predecessor because the chain   *)
(* is spendable, and the chain stays spendable because the address changes *)
(* in the call that appends the transaction which pays to the new one.     *)
(***************************************************************************)
FundsInv ==
    /\ TypeOK
    /\ ChainIsSpendable
    /\ FundingIsSpendable
    /\ OutputsAreSpentOnce
    /\ HeightsAdvance

\* push_anchoring_transaction appends the proposal to the chain.
LEMMA PushStep ==
  ASSUME TypeOK, ProposalState = "Ok", PushAnchoringTransaction(Proposal)
  PROVE  /\ Len(chain) \in Nat
         /\ DOMAIN chain = 1..Len(chain)
         /\ Len(chain') = Len(chain) + 1
         /\ DOMAIN chain' = 1..(Len(chain) + 1)
         /\ \A i \in 1..Len(chain) : chain'[i] = chain[i]
         /\ chain'[Len(chain) + 1] = Proposal
         /\ LastTx' = Proposal
         /\ chain' # <<>>
<1>1. Proposal \in Txs
  BY ProposalFacts
<1>2. chain' = Append(chain, Proposal)
  BY DEF PushAnchoringTransaction
<1>3. /\ Len(chain') = Len(chain) + 1
      /\ \A i \in 1..Len(chain) : chain'[i] = chain[i]
      /\ chain'[Len(chain) + 1] = Proposal
      /\ chain' \in Seq(Txs)
      /\ chain' # <<>>
  BY <1>1, <1>2, AppendProperties DEF TypeOK
<1>4. Len(chain) \in Nat /\ DOMAIN chain = 1..Len(chain) /\ DOMAIN chain' = 1..Len(chain')
  BY <1>3, LenProperties DEF TypeOK
<1>. QED
  BY <1>3, <1>4 DEF LastTx

\* The predecessor of a proposal is the last transaction of a spendable chain.
LEMMA ProposalExtendsChain ==
  ASSUME TypeOK, ChainIsSpendable, ProposalState = "Ok"
  PROVE  Proposal.prev = Len(chain)
<1>1. ~IsBroken
  BY DEF IsBroken, ChainIsSpendable
<1>2. chain = <<>> => Len(chain) = 0
  BY EmptySeq DEF TypeOK
<1>. QED
  BY <1>1, <1>2, ProposalFacts

\* Finalizing a proposal keeps the invariants of the chain and of the funds.
LEMMA FundsPush ==
  ASSUME FundsInv, TypeOK', ProposalState = "Ok", PushAnchoringTransaction(Proposal),
         core_height' = core_height
  PROVE  FundsInv'
<1>1. TypeOK
  BY DEF FundsInv
<1>2. ChainIsSpendable'
  <2>1. Proposal.out = AnchoringOutScript(actual')
    BY <1>1, ProposalFacts DEF PushAnchoringTransaction, IsTransition
  <2>. QED
    BY <1>1, <2>1, PushStep DEF ChainIsSpendable
<1>3. FundingIsSpendable'
  BY DEF FundingIsSpendable, PushAnchoringTransaction
<1>4. OutputsAreSpentOnce'
  <2>1. Proposal.prev = Len(chain)
    BY <1>1, ProposalExtendsChain DEF FundsInv
  <2>2. Proposal.funds = unspent /\ Proposal.spends = AnchoringOutScript(actual)
    BY <1>1, ProposalFacts
  <2>3. Proposal.funds # None => \A i \in DOMAIN chain : chain[i].funds # Proposal.funds
    BY <2>2 DEF FundsInv, FundingIsSpendable, OutputsAreSpentOnce
  <2>4. Len(chain) > 0 => chain[Len(chain)].out = Proposal.spends
    BY <1>1, <2>2, EmptySeq DEF FundsInv, ChainIsSpendable, LastTx, TypeOK
  <2>5. \A i \in DOMAIN chain' :
          /\ chain'[i].prev = i - 1
          /\ i > 1 => chain'[i].spends = chain'[i - 1].out
    <3>. SUFFICES ASSUME NEW i \in 1..(Len(chain) + 1)
         PROVE  /\ chain'[i].prev = i - 1
                /\ i > 1 => chain'[i].spends = chain'[i - 1].out
      BY <1>1, PushStep
    <3>1. CASE i = Len(chain) + 1
      BY <1>1, <2>1, <2>4, <3>1, PushStep
    <3>2. CASE i \in 1..Len(chain)
      <4>1. i > 1 => i - 1 \in 1..Len(chain)
        BY <1>1, <3>2, PushStep
      <4>. QED
        BY <1>1, <3>2, <4>1, PushStep DEF FundsInv, OutputsAreSpentOnce
    <3>. QED
      BY <1>1, <3>1, <3>2, PushStep
  <2>6. \A i, j \in DOMAIN chain' :
          chain'[i].funds = chain'[j].funds /\ chain'[i].funds # None => i = j
    <3>1. \A i, j \in 1..Len(chain) :
            chain[i].funds = chain[j].funds /\ chain[i].funds # None => i = j
      BY <1>1, PushStep DEF FundsInv, OutputsAreSpentOnce
    <3>2. \A i \in 1..Len(chain) : Proposal.funds # None => chain[i].funds # Proposal.funds
      BY <1>1, <2>3, PushStep
    <3>. QED
      BY <1>1, <3>1, <3>2, PushStep
  <2>7. spent' = {chain'[i].funds : i \in DOMAIN chain'} \ {None}
    <3>1. spent' = spent \cup ({unspent} \ {None})
      BY DEF PushAnchoringTransaction
    <3>2. spent = {chain[i].funds : i \in 1..Len(chain)} \ {None}
      BY <1>1, PushStep DEF FundsInv, OutputsAreSpentOnce
    <3>3. {chain'[i].funds : i \in 1..(Len(chain) + 1)}
            = {chain[i].funds : i \in 1..Len(chain)} \cup {unspent}
      BY <1>1, <2>2, PushStep
    <3>. QED
      BY <1>1, <3>1, <3>2, <3>3, PushStep
  <2>. QED
    BY <2>5, <2>6, <2>7 DEF OutputsAreSpentOnce
<1>5. HeightsAdvance'
  <2>. SUFFICES ASSUME NEW i \in 1..(Len(chain) + 1)
       PROVE  /\ chain'[i].height <= core_height
              /\ i > 1 => IF chain'[i].out = chain'[i].spends
                            THEN chain'[i - 1].height < chain'[i].height
                            ELSE chain'[i - 1].height = chain'[i].height
    BY <1>1, PushStep DEF HeightsAdvance
  <2>1. CASE i = Len(chain) + 1
    <3>1. Proposal.height <= core_height
      BY <1>1, ProposalFacts
    <3>2. CASE chain # <<>>
      <4>1. chain'[i - 1] = LastTx
        BY <1>1, <2>1, <3>2, LastTxType, PushStep DEF LastTx
      <4>2. Proposal.out = Proposal.spends <=> ~IsTransition
        BY <1>1, <3>2, ProposalFacts DEF IsTransition, AnchoringOutScript
      <4>3. IF IsTransition THEN Proposal.height = LastTx.height
                            ELSE Proposal.height > LastTx.height
        BY <1>1, <3>2, ProposalFacts, AnchoringHeightFacts
      <4>4. Proposal.height \in Nat /\ LastTx.height \in Nat
        BY <1>1, <3>2, ProposalFacts, LastTxType DEF Txs
      <4>. QED
        BY <1>1, <2>1, <3>1, <4>1, <4>2, <4>3, <4>4, PushStep
    <3>3. CASE chain = <<>>
      BY <1>1, <2>1, <3>1, <3>3, PushStep, EmptySeq
    <3>. QED
      BY <3>2, <3>3
  <2>2. CASE i \in 1..Len(chain)
    <3>1. i > 1 => i - 1 \in 1..Len(chain)
      BY <1>1, <2>2, PushStep
    <3>. QED
      BY <1>1, <2>2, <3>1, PushStep DEF FundsInv, HeightsAdvance
  <2>. QED
    BY <1>1, <2>1, <2>2, PushStep
<1>. QED
  BY <1>2, <1>3, <1>4, <1>5 DEF FundsInv

\* Every call keeps the invariants of the chain and of the funds.
LEMMA FundsNext == FundsInv /\ [Next]_vars => FundsInv'
<1>. SUFFICES ASSUME FundsInv, [Next]_vars
     PROVE  FundsInv'
  OBVIOUS
<1>1. TypeOK /\ TypeOK'
  BY TypeNext DEF FundsInv
<1>2. ASSUME NEW author \in ServiceKeys, NEW arg \in SignInputs, SignInput(author, arg)
      PROVE  FundsInv'
  <2>1. /\ ProposalState = "Ok"
        /\ \/ PushAnchoringTransaction(Proposal)
           \/ UNCHANGED <<chain, spent, actual, following, unspent>>
        /\ UNCHANGED <<confirmations, core_height>>
    BY <1>1, <1>2, SignInputStep DEF Stored
  <2>2. CASE UNCHANGED <<chain, spent, actual, following, unspent>>
    BY <1>1, <2>1, <2>2
       DEF FundsInv, ChainIsSpendable, FundingIsSpendable, OutputsAreSpentOnce,
           HeightsAdvance, LastTx
  <2>. QED
    BY <1>1, <2>1, <2>2, FundsPush
<1>3. ASSUME NEW author \in ServiceKeys, NEW funding \in FundingTxs, AddFunds(author, funding)
      PROVE  FundsInv'
  BY <1>1, <1>3, AddFundsStep
     DEF FundsInv, ChainIsSpendable, FundingIsSpendable, OutputsAreSpentOnce,
         HeightsAdvance, LastTx
<1>4. ASSUME NEW config \in Configs, ApplyConfig(config)
      PROVE  FundsInv'
  <2>1. AnchoringOutScript(actual') = AnchoringOutScript(actual)
    BY <1>4 DEF ApplyConfig, AnchoringAddress, AnchoringOutScript
  <2>2. UNCHANGED <<chain, spent, unspent, core_height>>
    BY <1>4 DEF ApplyConfig
  <2>. QED
    BY <1>1, <2>1, <2>2
       DEF FundsInv, ChainIsSpendable, FundingIsSpendable, OutputsAreSpentOnce,
           HeightsAdvance, LastTx
<1>5. ASSUME CommitBlock
      PROVE  FundsInv'
  <2>1. HeightsAdvance'
    <3>1. \A i \in DOMAIN chain : chain[i].height \in Nat
      <4>1. \A i \in DOMAIN chain : chain[i] \in Txs
        BY <1>1, ElementOfSeq, LenProperties DEF TypeOK
      <4>. QED
        BY <4>1 DEF Txs
    <3>. QED
      BY <1>1, <1>5, <3>1 DEF FundsInv, HeightsAdvance, CommitBlock, TypeOK
  <2>. QED
    BY <1>1, <1>5, <2>1
       DEF CommitBlock, FundsInv, ChainIsSpendable, FundingIsSpendable,
           OutputsAreSpentOnce, LastTx
<1>6. CASE UNCHANGED vars
  BY <1>1, <1>6
     DEF vars, FundsInv, ChainIsSpendable, FundingIsSpendable, OutputsAreSpentOnce,
         HeightsAdvance, LastTx
<1>. QED
  BY <1>2, <1>3, <1>4, <1>5, <1>6 DEF Next

\* The empty chain and the absent funding transaction of initialize.
LEMMA FundsInit == Init => FundsInv
<1>. SUFFICES ASSUME Init PROVE FundsInv
  OBVIOUS
<1>1. DOMAIN chain = {}
  BY EmptySeq DEF Init
<1>. QED
  BY <1>1, TypeInit
     DEF Init, FundsInv, ChainIsSpendable, FundingIsSpendable, OutputsAreSpentOnce,
         HeightsAdvance

\* The invariant of the chain and of the funds.
THEOREM FundsCorrect == Spec => []FundsInv
BY FundsInit, FundsNext, PTL DEF Spec

\* The last transaction of the chain always pays to the actual configuration.
THEOREM ChainSpendable == Spec => []ChainIsSpendable
BY FundsCorrect, PTL DEF FundsInv

\* The unspent funding transaction is always usable for the next proposal.
THEOREM FundingSpendable == Spec => []FundingIsSpendable
BY FundsCorrect, PTL DEF FundsInv

\* No output is ever spent by two anchoring transactions.
THEOREM SpentOnce == Spec => []OutputsAreSpentOnce
BY FundsCorrect, PTL DEF FundsInv

\* Anchored heights are committed, and only a transition repeats one.
THEOREM HeightsGrow == Spec => []HeightsAdvance
BY FundsCorrect, PTL DEF FundsInv

-----------------------------------------------------------------------------
(***************************************************************************)
(* The signatures.  Signatures of abandoned proposals stay in the schema,  *)
(* and a node may sign an input twice, so that the count that sign_input   *)
(* compares with the quorum is argued about for every transaction.         *)
(***************************************************************************)
\* Signatures are made with the key at the position of the signing node.
SignaturesAreValid ==
    \A s \in signatures : /\ s.node \in DOMAIN s.txid.spends.public_keys
                          /\ s.signer = s.txid.spends.public_keys[s.node]

\* The schema holds one signature of a node for an input.
SignaturesAreDistinct ==
    \A r, s \in signatures :
        r.txid = s.txid /\ r.input = s.input /\ r.node = s.node => r = s

\* The inputs of the transactions of the chain are signed by a quorum.
ChainIsSigned ==
    \A i \in DOMAIN chain : \A input \in Inputs(chain[i]) :
        Cardinality(SignaturesOf(signatures, chain[i], input)) = chain[i].spends.quorum

\* No other transaction has a quorum on all of its inputs.
OthersAreNotSigned ==
    \A tx \in Txs : Inputs(tx) # {} /\ (\A i \in DOMAIN chain : chain[i] # tx) =>
        \E input \in Inputs(tx) :
            Cardinality(SignaturesOf(signatures, tx, input)) # tx.spends.quorum

SignaturesInv ==
    /\ FundsInv
    /\ IsFiniteSet(signatures)
    /\ SignaturesAreValid
    /\ SignaturesAreDistinct
    /\ ChainIsSigned
    /\ OthersAreNotSigned

\* InputSignatures::insert changes the signatures of one input and adds at most
\* one to their number.
LEMMA InsertFacts ==
  ASSUME IsFiniteSet(signatures), NEW s
  PROVE  LET sigs == InsertSignature(signatures, s) IN
         /\ IsFiniteSet(sigs)
         /\ \A tx, input : ~(tx = s.txid /\ input = s.input) =>
              SignaturesOf(sigs, tx, input) = SignaturesOf(signatures, tx, input)
         /\ Cardinality(SignaturesOf(sigs, s.txid, s.input))
              <= Cardinality(SignaturesOf(signatures, s.txid, s.input)) + 1
         /\ Cardinality(SignaturesOf(sigs, s.txid, s.input)) \in Nat
         /\ Cardinality(SignaturesOf(signatures, s.txid, s.input)) \in Nat
<1>. DEFINE sigs == InsertSignature(signatures, s)
            old  == SignaturesOf(signatures, s.txid, s.input)
            kept == {r \in old : r.node # s.node}
<1>1. IsFiniteSet(sigs)
  <2>. DEFINE rest == {r \in signatures :
                         ~(r.txid = s.txid /\ r.input = s.input /\ r.node = s.node)}
  <2>1. rest \subseteq signatures /\ sigs = rest \cup {s}
    BY DEF InsertSignature
  <2>2. IsFiniteSet(rest)
    BY <2>1, FS_Subset
  <2>. QED
    BY <2>1, <2>2, FS_AddElement
<1>2. \A tx, input : ~(tx = s.txid /\ input = s.input) =>
        SignaturesOf(sigs, tx, input) = SignaturesOf(signatures, tx, input)
  BY DEF SignaturesOf, InsertSignature
<1>3. SignaturesOf(sigs, s.txid, s.input) = kept \cup {s}
  BY DEF SignaturesOf, InsertSignature
<1>4. /\ IsFiniteSet(old) /\ Cardinality(old) \in Nat
      /\ IsFiniteSet(kept) /\ Cardinality(kept) \in Nat
      /\ Cardinality(kept) <= Cardinality(old)
  <2>1. old \subseteq signatures /\ kept \subseteq old
    BY DEF SignaturesOf
  <2>2. IsFiniteSet(old)
    BY <2>1, FS_Subset
  <2>. QED
    BY <2>1, <2>2, FS_Subset, FS_CardinalityType
<1>5. Cardinality(kept \cup {s}) = Cardinality(kept) + 1
  <2>1. s \notin kept
    OBVIOUS
  <2>. QED
    BY <1>4, <2>1, FS_AddElement
<1>. QED
  BY <1>1, <1>2, <1>3, <1>4, <1>5

\* A proposal is not in the chain yet.
LEMMA ProposalIsNew ==
  ASSUME FundsInv, ProposalState = "Ok"
  PROVE  \A i \in DOMAIN chain : chain[i] # Proposal
<1>1. Proposal.prev = Len(chain)
  BY ProposalExtendsChain DEF FundsInv
<1>2. DOMAIN chain = 1..Len(chain) /\ Len(chain) \in Nat
  BY LenProperties DEF FundsInv, TypeOK
<1>3. \A i \in DOMAIN chain : chain[i].prev = i - 1
  BY DEF FundsInv, OutputsAreSpentOnce
<1>. QED
  BY <1>1, <1>2, <1>3

\* sign_input keeps the invariants of the signatures, finalizing or not.
LEMMA SignaturesSign ==
  ASSUME SignaturesInv, FundsInv',
         NEW author, NEW arg \in SignInputs, SignInput(author, arg)
  PROVE  SignaturesInv'
<1>. DEFINE before(s) == Cardinality(SignaturesOf(signatures, Proposal, s.input))
<1>1. FundsInv /\ TypeOK /\ IsFiniteSet(signatures)
  BY DEF SignaturesInv, FundsInv
<1>2. PICK s : /\ Stored(s)
               /\ before(s) < RedeemScript(actual).quorum
               /\ signatures' = InsertSignature(signatures, s)
               /\ IF IsComplete(Proposal, before(s), signatures')
                    THEN PushAnchoringTransaction(Proposal)
                    ELSE UNCHANGED <<chain, spent, actual, following, unspent>>
  BY <1>1, SignInputStep, Zenon
<1>3. /\ ProposalState = "Ok" /\ s.txid = Proposal /\ s.input \in Inputs(Proposal)
      /\ Proposal \in Txs
      /\ Proposal.spends = RedeemScript(actual)
      /\ Inputs(Proposal) # {}
  BY <1>1, <1>2, ProposalFacts DEF Stored, AnchoringOutScript
<1>4. IsFiniteSet(signatures')
  BY <1>1, <1>2, InsertFacts
<1>5. SignaturesAreValid'
  BY <1>2, <1>3 DEF SignaturesInv, SignaturesAreValid, InsertSignature, Stored
<1>6. SignaturesAreDistinct'
  BY <1>2 DEF SignaturesInv, SignaturesAreDistinct, InsertSignature
<1>7. \A tx, input : tx # Proposal =>
        SignaturesOf(signatures', tx, input) = SignaturesOf(signatures, tx, input)
  BY <1>1, <1>2, <1>3, InsertFacts
<1>8. \A i \in DOMAIN chain : chain[i] # Proposal
  BY <1>1, <1>3, ProposalIsNew
<1>9. CASE IsComplete(Proposal, before(s), signatures')
  <2>1. PushAnchoringTransaction(Proposal)
    BY <1>2, <1>9
  <2>2. \A input \in Inputs(Proposal) :
          Cardinality(SignaturesOf(signatures', Proposal, input)) = Proposal.spends.quorum
    BY <1>3, <1>9 DEF IsComplete, HasQuorum
  <2>3. ChainIsSigned'
    <3>. SUFFICES ASSUME NEW i \in 1..(Len(chain) + 1), NEW input \in Inputs(chain'[i])
         PROVE  Cardinality(SignaturesOf(signatures', chain'[i], input))
                  = chain'[i].spends.quorum
      BY <1>1, <1>3, <2>1, PushStep DEF ChainIsSigned
    <3>1. CASE i = Len(chain) + 1
      BY <1>1, <1>3, <2>1, <2>2, <3>1, PushStep
    <3>2. CASE i \in DOMAIN chain
      <4>1. chain'[i] = chain[i] /\ chain[i] # Proposal
        BY <1>1, <1>3, <1>8, <2>1, <3>2, PushStep
      <4>. QED
        BY <1>7, <3>2, <4>1 DEF SignaturesInv, ChainIsSigned
    <3>. QED
      BY <1>1, <1>3, <2>1, <3>1, <3>2, PushStep
  <2>4. OthersAreNotSigned'
    <3>. SUFFICES ASSUME NEW tx \in Txs, Inputs(tx) # {},
                         \A i \in DOMAIN chain' : chain'[i] # tx
         PROVE  \E input \in Inputs(tx) :
                  Cardinality(SignaturesOf(signatures', tx, input)) # tx.spends.quorum
      BY Zenon DEF OthersAreNotSigned
    <3>1. tx # Proposal /\ \A i \in DOMAIN chain : chain[i] # tx
      BY <1>1, <1>3, <2>1, PushStep
    <3>. QED
      BY <1>7, <3>1 DEF SignaturesInv, OthersAreNotSigned
  <2>. QED
    BY <1>4, <1>5, <1>6, <2>3, <2>4 DEF SignaturesInv
<1>10. CASE ~IsComplete(Proposal, before(s), signatures')
  <2>1. chain' = chain
    BY <1>2, <1>10
  <2>2. ChainIsSigned'
    BY <1>7, <1>8, <2>1 DEF SignaturesInv, ChainIsSigned
  <2>3. OthersAreNotSigned'
    <3>. SUFFICES ASSUME NEW tx \in Txs, Inputs(tx) # {},
                         \A i \in DOMAIN chain : chain[i] # tx
         PROVE  \E input \in Inputs(tx) :
                  Cardinality(SignaturesOf(signatures', tx, input)) # tx.spends.quorum
      BY <2>1, Zenon DEF OthersAreNotSigned
    <3>1. CASE tx # Proposal
      BY <1>7, <3>1 DEF SignaturesInv, OthersAreNotSigned
    <3>2. CASE tx = Proposal
      <4>. DEFINE after == Cardinality(SignaturesOf(signatures', Proposal, s.input))
                  quorum == RedeemScript(actual).quorum
      <4>1. /\ after \in Nat /\ before(s) \in Nat
            /\ after <= before(s) + 1
        BY <1>1, <1>2, <1>3, InsertFacts
      <4>2. quorum \in Nat /\ before(s) < quorum
        BY <1>1, <1>2, ConfigFacts DEF TypeOK
      <4>3. after = quorum => before(s) + 1 = quorum
        BY <4>1, <4>2
      <4>4. CASE after # quorum
        BY <1>3, <3>2, <4>4
      <4>5. CASE after = quorum
        BY <1>3, <1>10, <3>2, <4>3, <4>5 DEF IsComplete, HasQuorum
      <4>. QED
        BY <4>4, <4>5
    <3>. QED
      BY <3>1, <3>2
  <2>. QED
    BY <1>4, <1>5, <1>6, <2>2, <2>3 DEF SignaturesInv
<1>. QED
  BY <1>9, <1>10

\* Every call keeps the invariants of the signatures.
LEMMA SignaturesNext == SignaturesInv /\ [Next]_vars => SignaturesInv'
<1>. SUFFICES ASSUME SignaturesInv, [Next]_vars
     PROVE  SignaturesInv'
  OBVIOUS
<1>1. FundsInv'
  BY FundsNext DEF SignaturesInv
<1>2. ASSUME NEW author \in ServiceKeys, NEW arg \in SignInputs, SignInput(author, arg)
      PROVE  SignaturesInv'
  BY <1>1, <1>2, SignaturesSign
<1>3. ASSUME UNCHANGED <<chain, signatures>>
      PROVE  SignaturesInv'
  BY <1>1, <1>3 DEF SignaturesInv, SignaturesAreValid, SignaturesAreDistinct,
                    ChainIsSigned, OthersAreNotSigned
<1>. QED
  BY <1>2, <1>3 DEF Next, AddFunds, ApplyConfig, CommitBlock, vars

\* There are neither transactions nor signatures initially.
LEMMA SignaturesInit == Init => SignaturesInv
<1>. SUFFICES ASSUME Init PROVE SignaturesInv
  OBVIOUS
<1>1. DOMAIN chain = {} /\ signatures = {}
  BY EmptySeq DEF Init
<1>2. IsFiniteSet(signatures) /\ \A tx, input : Cardinality(SignaturesOf(signatures, tx, input)) = 0
  <2>1. \A tx, input : SignaturesOf(signatures, tx, input) = {}
    BY <1>1 DEF SignaturesOf
  <2>. QED
    BY <1>1, <2>1, FS_EmptySet
<1>3. OthersAreNotSigned
  <2>1. \A tx \in Txs : tx.spends.quorum # 0
    BY ConfigFacts DEF Txs, Scripts, AnchoringOutScript
  <2>. QED
    BY <1>2, <2>1 DEF OthersAreNotSigned
<1>. QED
  BY <1>1, <1>2, <1>3, FundsInit
     DEF SignaturesInv, SignaturesAreValid, SignaturesAreDistinct, ChainIsSigned

\* The invariant of the signatures.
THEOREM SignaturesCorrect == Spec => []SignaturesInv
BY SignaturesInit, SignaturesNext, PTL DEF Spec

\* The witness of every finalized transaction is valid for the script it spends.
LEMMA WitnessFacts == SignaturesInv => WitnessesAreComplete
<1>. SUFFICES ASSUME SignaturesInv, NEW i \in DOMAIN chain, NEW input \in Inputs(chain[i])
     PROVE  LET sigs == SignaturesOf(signatures, chain[i], input)
                script == chain[i].spends
            IN /\ Cardinality({s.node : s \in sigs}) = script.quorum
               /\ Cardinality(sigs) = script.quorum
               /\ \A s \in sigs : /\ s.node \in DOMAIN script.public_keys
                                  /\ s.signer = script.public_keys[s.node]
  BY Zenon DEF WitnessesAreComplete
<1>. DEFINE sigs == SignaturesOf(signatures, chain[i], input)
            nodes == {s.node : s \in sigs}
            f == [s \in sigs |-> s.node]
<1>1. sigs \subseteq signatures
  BY DEF SignaturesOf
<1>2. IsFiniteSet(sigs)
  BY <1>1, FS_Subset DEF SignaturesInv
<1>3. f \in Bijection(sigs, nodes)
  <2>1. \A r, s \in sigs : r.node = s.node => r = s
    BY <1>1 DEF SignaturesOf, SignaturesInv, SignaturesAreDistinct
  <2>2. f \in Injection(sigs, nodes)
    BY <2>1 DEF Injection, IsInjective
  <2>3. f \in Surjection(sigs, nodes)
    BY DEF Surjection
  <2>. QED
    BY <2>2, <2>3 DEF Bijection
<1>4. Cardinality(sigs) = Cardinality(nodes)
  BY <1>2, <1>3, FS_Bijection DEF ExistsBijection
<1>5. Cardinality(sigs) = chain[i].spends.quorum
  BY DEF SignaturesInv, ChainIsSigned
<1>6. \A s \in sigs : /\ s.node \in DOMAIN chain[i].spends.public_keys
                      /\ s.signer = chain[i].spends.public_keys[s.node]
  BY DEF SignaturesOf, SignaturesInv, SignaturesAreValid
<1>. QED
  BY <1>4, <1>5, <1>6

\* sign_input finalizes a transaction only with a valid witness.
THEOREM WitnessesComplete == Spec => []WitnessesAreComplete
BY SignaturesCorrect, WitnessFacts, PTL

\* A proposal never has all the signatures it needs without being finalized.
THEOREM ProposalNotStalled == Spec => []ProposalIsNotStalled
<1>1. SignaturesInv => ProposalIsNotStalled
  <2>. SUFFICES ASSUME SignaturesInv, ProposalState = "Ok"
       PROVE  \E input \in Inputs(Proposal) : ~HasQuorum(signatures, Proposal, input)
    BY DEF ProposalIsNotStalled
  <2>1. FundsInv /\ TypeOK
    BY DEF SignaturesInv, FundsInv
  <2>2. /\ Proposal \in Txs /\ Inputs(Proposal) # {}
        /\ Proposal.spends = RedeemScript(actual)
    BY <2>1, ProposalFacts DEF AnchoringOutScript
  <2>3. \A i \in DOMAIN chain : chain[i] # Proposal
    BY <2>1, ProposalIsNew
  <2>. QED
    BY <2>2, <2>3 DEF SignaturesInv, OthersAreNotSigned, HasQuorum
<1>. QED
  BY <1>1, SignaturesCorrect, PTL

\* With an established chain push_anchoring_transaction never panics.
THEOREM EstablishedOutputWellFormed == Spec => []EstablishedOutputIsWellFormed
<1>1. TypeOK => EstablishedOutputIsWellFormed
  BY ProposalFacts
     DEF EstablishedOutputIsWellFormed, OutputIsWellFormed, IsTransition, AnchoringOutScript
<1>. QED
  BY <1>1, TypeCorrect, PTL

-----------------------------------------------------------------------------
(***************************************************************************)
(* Steps of the service.                                                   *)
(***************************************************************************)
\* A call that extends the chain is a sign_input that finalizes the proposal;
\* the others change neither the chain nor the script of the actual
\* configuration.
LEMMA ChainStep ==
  ASSUME TypeOK, [Next]_vars
  PROVE  \/ /\ chain' = chain
            /\ RedeemScript(actual') = RedeemScript(actual)
         \/ /\ ProposalState = "Ok"
            /\ PushAnchoringTransaction(Proposal)
<1>1. ASSUME NEW author \in ServiceKeys, NEW arg \in SignInputs, SignInput(author, arg)
      PROVE  /\ ProposalState = "Ok"
             /\ PushAnchoringTransaction(Proposal) \/ UNCHANGED <<chain, actual>>
  BY <1>1, SignInputStep DEF Stored
<1>2. ASSUME NEW config \in Configs, ApplyConfig(config)
      PROVE  chain' = chain /\ RedeemScript(actual') = RedeemScript(actual)
  BY <1>2 DEF ApplyConfig, AnchoringAddress
<1>. QED
  BY <1>1, <1>2 DEF Next, AddFunds, CommitBlock, vars

\* The actual address changes only with the transaction that moves the funds.
THEOREM AddressChanges == Spec => AddressChangesWithFunds
<1>. DEFINE A == RedeemScript(actual') # RedeemScript(actual) =>
                   /\ Len(chain') = Len(chain) + 1
                   /\ chain'[Len(chain')].spends = AnchoringOutScript(actual)
                   /\ chain'[Len(chain')].out = AnchoringOutScript(actual')
<1>1. TypeOK /\ [Next]_vars => A
  <2>. SUFFICES ASSUME TypeOK, [Next]_vars, RedeemScript(actual') # RedeemScript(actual)
       PROVE  /\ Len(chain') = Len(chain) + 1
              /\ chain'[Len(chain')].spends = AnchoringOutScript(actual)
              /\ chain'[Len(chain')].out = AnchoringOutScript(actual')
    OBVIOUS
  <2>1. ProposalState = "Ok" /\ PushAnchoringTransaction(Proposal)
    BY ChainStep
  <2>2. Len(chain') = Len(chain) + 1 /\ chain'[Len(chain')] = Proposal
    BY <2>1, PushStep
  <2>3. Proposal.spends = AnchoringOutScript(actual)
    BY <2>1, ProposalFacts
  <2>4. Proposal.out = AnchoringOutScript(actual')
    BY <2>1 DEF PushAnchoringTransaction
  <2>. QED
    BY <2>2, <2>3, <2>4
<1>. QED
  BY <1>1, TypeCorrect, PTL DEF Spec, AddressChangesWithFunds

\* Late and repeated signatures never change what is finalized.
THEOREM ChainFinal == Spec => ChainIsFinal
<1>. DEFINE A == \A i \in DOMAIN chain :
                   /\ i \in DOMAIN chain' /\ chain'[i] = chain[i]
                   /\ \A input \in {0, 1} : SignaturesOf(signatures', chain[i], input)
                                              = SignaturesOf(signatures, chain[i], input)
<1>1. SignaturesInv /\ [Next]_vars => A
  <2>. SUFFICES ASSUME SignaturesInv, [Next]_vars, NEW i \in DOMAIN chain
       PROVE  /\ i \in DOMAIN chain' /\ chain'[i] = chain[i]
              /\ \A input \in {0, 1} : SignaturesOf(signatures', chain[i], input)
                                         = SignaturesOf(signatures, chain[i], input)
    OBVIOUS
  <2>1. FundsInv /\ TypeOK /\ IsFiniteSet(signatures)
    BY DEF SignaturesInv, FundsInv
  <2>2. i \in DOMAIN chain' /\ chain'[i] = chain[i]
    BY <2>1, ChainStep, PushStep
  <2>3. ASSUME NEW author \in ServiceKeys, NEW arg \in SignInputs, SignInput(author, arg)
        PROVE  \A input : SignaturesOf(signatures', chain[i], input)
                            = SignaturesOf(signatures, chain[i], input)
    <3>1. PICK s : Stored(s) /\ signatures' = InsertSignature(signatures, s)
      BY <2>1, <2>3, SignInputStep
    <3>2. chain[i] # s.txid
      BY <2>1, <3>1, ProposalIsNew DEF Stored
    <3>. QED
      BY <2>1, <3>1, <3>2, InsertFacts
  <2>. QED
    BY <2>2, <2>3 DEF Next, AddFunds, ApplyConfig, CommitBlock, vars
<1>. QED
  BY <1>1, SignaturesCorrect, PTL DEF Spec, ChainIsFinal

\* There is no multiple of the interval between a height and the following
\* anchoring height, which is one.
LEMMA FollowingIsNextMultiple ==
  ASSUME NEW config \in Configs, NEW h \in Nat
  PROVE  /\ FollowingAnchoringHeight(config, h) % config.anchoring_interval = 0
         /\ \A m \in (h + 1)..(FollowingAnchoringHeight(config, h) - 1) :
              m % config.anchoring_interval # 0
<1>1. config.anchoring_interval \in Nat \ {0}
  BY ConfigsAssumption DEF Validate
<1>2. ASSUME NEW k \in Nat \ {0}, NEW next, next = h - (h % k) + k
      PROVE  next % k = 0 /\ \A m \in (h + 1)..(next - 1) : m % k # 0
  <2>. DEFINE q == h \div k
  <2>1. \A a \in Nat : /\ a = k * (a \div k) + (a % k)
                       /\ a % k \in 0..(k - 1)
                       /\ a \div k \in Nat
    OBVIOUS
  <2>2. /\ q \in Nat
        /\ h - (h % k) + k = k * (q + 1)
        /\ k * q <= h
    <3>1. h = k * q + (h % k) /\ h % k \in Nat /\ q \in Nat
      BY <2>1
    <3>. HIDE DEF q
    <3>. QED
      BY <3>1
  <2>. HIDE DEF q
  <2>3. \A p \in Nat : (k * p) % k = 0
    OBVIOUS
  <2>4. \A p \in Nat : ~(k * q < k * p /\ k * p < k * (q + 1))
    <3>. SUFFICES ASSUME NEW p \in Nat, k * q < k * p, k * p < k * (q + 1)
         PROVE  FALSE
      OBVIOUS
    <3>1. q < p
      BY <2>2
    <3>2. p < q + 1
      BY <2>2
    <3>. QED
      BY <2>2, <3>1, <3>2
  <2>5. ASSUME NEW m \in (h + 1)..(k * (q + 1) - 1), m % k = 0
        PROVE  FALSE
    <3>1. m \in Nat /\ k * q < m /\ m < k * (q + 1)
      BY <2>2
    <3>. DEFINE p == m \div k
    <3>2. m = k * p + (m % k) /\ p \in Nat
      BY <2>1, <3>1
    <3>. HIDE DEF p
    <3>3. m = k * p
      BY <2>5, <3>2
    <3>. QED
      BY <2>4, <3>1, <3>2, <3>3
  <2>6. next = k * (q + 1) /\ q + 1 \in Nat
    BY <1>2, <2>2
  <2>7. next % k = 0
    BY <2>3, <2>6
  <2>8. \A m \in (h + 1)..(next - 1) : m % k # 0
    BY <2>5, <2>6
  <2>. QED
    BY <2>7, <2>8
<1>. DEFINE k == config.anchoring_interval
            next == FollowingAnchoringHeight(config, h)
<1>3. next = h - (h % k) + k
  BY DEF FollowingAnchoringHeight, PreviousAnchoringHeight
<1>4. k \in Nat \ {0}
  BY <1>1
<1>. HIDE DEF k, next
<1>5. next % k = 0 /\ \A m \in (h + 1)..(next - 1) : m % k # 0
  BY <1>2, <1>3, <1>4
<1>. QED
  BY <1>5 DEF k, next

\* Under one address no multiple of the interval in force is left out.
THEOREM NoHeightSkipped == Spec => NoHeightIsSkipped
<1>. DEFINE A == Len(chain') > Len(chain) /\ chain # <<>> =>
                   LET tx == chain'[Len(chain')] IN
                   tx.out = tx.spends =>
                     /\ tx.height % actual.anchoring_interval = 0
                     /\ \A h \in (LastTx.height + 1)..(tx.height - 1) :
                          h % actual.anchoring_interval # 0
<1>1. TypeOK /\ [Next]_vars => A
  <2>. SUFFICES ASSUME TypeOK, [Next]_vars, Len(chain') > Len(chain), chain # <<>>,
                       chain'[Len(chain')].out = chain'[Len(chain')].spends
       PROVE  LET tx == chain'[Len(chain')] IN
              /\ tx.height % actual.anchoring_interval = 0
              /\ \A h \in (LastTx.height + 1)..(tx.height - 1) :
                   h % actual.anchoring_interval # 0
    OBVIOUS
  <2>1. Len(chain) \in Nat
    BY LastTxType
  <2>2. ProposalState = "Ok" /\ PushAnchoringTransaction(Proposal)
    BY <2>1, ChainStep
  <2>3. chain'[Len(chain')] = Proposal
    BY <2>2, PushStep
  <2>4. ~IsTransition
    BY <2>2, <2>3, ProposalFacts DEF IsTransition, AnchoringOutScript
  <2>5. Proposal.height = FollowingAnchoringHeight(actual, LastTx.height)
    BY <2>2, <2>4, ProposalFacts DEF AnchoringHeight
  <2>6. LastTx.height \in Nat /\ actual \in Configs
    BY LastTxType DEF Txs, TypeOK
  <2>. QED
    BY <2>3, <2>5, <2>6, FollowingIsNextMultiple
<1>. QED
  BY <1>1, TypeCorrect, PTL DEF Spec, NoHeightIsSkipped

-----------------------------------------------------------------------------
(***************************************************************************)
(* The votes for funding transactions.                                     *)
(***************************************************************************)
\* A key of one of the addresses that a funding transaction pays to.
IsPayeeKey(funding, key) ==
    \E script \in Scripts :
        /\ PaysTo(funding, script)
        /\ \E n \in DOMAIN script.public_keys : script.public_keys[n] = key

\* The votes for a funding transaction, from whatever configuration, are keys of
\* addresses that it pays to.
VotesInv ==
    \A funding \in FundingTxs : \A key \in confirmations[funding] : IsPayeeKey(funding, key)

\* add_funds adds the key of a node at the address of the actual configuration, and
\* the votes that complete the quorum are as many as it takes.
LEMMA VoteStep ==
  ASSUME TypeOK, VotesInv,
         NEW author, NEW funding \in FundingTxs, AddFunds(author, funding)
  PROVE  /\ VotesInv'
         /\ LET votes == confirmations[funding] \cup {FindBitcoinKey(actual, author)} IN
            /\ unspent' # unspent => unspent' = funding /\ HasEnoughConfirmations(votes)
            /\ \A key \in votes : IsPayeeKey(funding, key)
<1>. DEFINE key == FindBitcoinKey(actual, author)
            votes == confirmations[funding] \cup {key}
            script == RedeemScript(actual)
<1>1. /\ PaysTo(funding, script)
      /\ \/ /\ confirmations' = [confirmations EXCEPT ![funding] = {}]
            /\ unspent' = funding
            /\ HasEnoughConfirmations(votes)
         \/ /\ confirmations' = [confirmations EXCEPT ![funding] = votes]
            /\ UNCHANGED unspent
  BY DEF AddFunds, AnchoringOutScript
<1>2. script \in Scripts
  BY DEF TypeOK, Scripts, AnchoringOutScript
<1>3. \E n \in DOMAIN script.public_keys : script.public_keys[n] = key
  BY NodeFacts DEF TypeOK, AddFunds
<1>. HIDE DEF key, script
<1>4. \A k \in votes : IsPayeeKey(funding, k)
  BY <1>1, <1>2, <1>3 DEF VotesInv, IsPayeeKey
<1>. HIDE DEF votes
<1>5. ASSUME NEW f \in FundingTxs, NEW k \in confirmations'[f]
      PROVE  IsPayeeKey(f, k)
  <2>1. CASE f = funding
    <3>1. confirmations'[f] \in {{}, votes}
      BY <1>1, <2>1 DEF TypeOK
    <3>. QED
      BY <1>4, <1>5, <2>1, <3>1
  <2>2. CASE f # funding
    <3>1. confirmations'[f] = confirmations[f]
      BY <1>1, <2>2 DEF TypeOK
    <3>. QED
      BY <1>5, <3>1 DEF VotesInv
  <2>. QED
    BY <2>1, <2>2
<1>6. VotesInv'
  BY <1>5, Zenon DEF VotesInv
<1>. QED
  BY <1>1, <1>4, <1>6 DEF key, votes

\* However the configurations change between the votes, the funds that add_funds
\* applies have the votes of as many keys as 2/3+1 of the actual nodes, each a key of
\* an address that the funds are paid to.
THEOREM FundsApproved == Spec => FundsAreApproved
<1>. DEFINE A == unspent' # unspent /\ unspent' # None =>
                   \E author \in ServiceKeys :
                      /\ IsAnchoringNode(actual, author)
                      /\ LET votes == confirmations[unspent']
                                        \cup {FindBitcoinKey(actual, author)} IN
                         /\ Cardinality(votes) >= ByzantineQuorum(Len(actual.anchoring_keys))
                         /\ \A key \in votes : IsPayeeKey(unspent', key)
<1>1. Init => VotesInv
  BY DEF Init, VotesInv
<1>2. TypeOK /\ VotesInv /\ [Next]_vars => VotesInv'
  <2>. SUFFICES ASSUME TypeOK, VotesInv, [Next]_vars PROVE VotesInv'
    OBVIOUS
  <2>1. CASE confirmations' = confirmations
    BY <2>1, Zenon DEF VotesInv
  <2>. QED
    BY <2>1, VoteStep DEF Next, SignInput, ApplyConfig, CommitBlock, vars
<1>3. TypeOK /\ VotesInv /\ [Next]_vars => A
  <2>. SUFFICES ASSUME TypeOK, VotesInv, [Next]_vars, unspent' # unspent, unspent' # None
       PROVE  A
    OBVIOUS
  <2>1. PICK author \in ServiceKeys, funding \in FundingTxs : AddFunds(author, funding)
    BY SignInputStep DEF Next, PushAnchoringTransaction, ApplyConfig, CommitBlock, vars
  <2>. DEFINE votes == confirmations[funding] \cup {FindBitcoinKey(actual, author)}
  <2>2. /\ unspent' = funding
        /\ HasEnoughConfirmations(votes)
        /\ \A key \in votes : IsPayeeKey(funding, key)
    BY <2>1, VoteStep
  <2>. HIDE DEF votes
  <2>3. Cardinality(votes) >= ByzantineQuorum(Len(actual.anchoring_keys))
    <3>1. Len(actual.anchoring_keys) \in Nat
      BY ConfigFacts DEF TypeOK
    <3>2. ByzantineQuorum(Len(actual.anchoring_keys)) \in Int
      BY <3>1 DEF ByzantineQuorum
    <3>3. Cardinality(votes) = ByzantineQuorum(Len(actual.anchoring_keys))
      BY <2>2, Zenon DEF HasEnoughConfirmations
    <3>. QED
      BY <3>2, <3>3
  <2>. QED
    BY <2>1, <2>2, <2>3 DEF AddFunds, votes
<1>. QED
  BY <1>1, <1>2, <1>3, TypeCorrect, PTL DEF Spec, FundsAreApproved, IsPayeeKey

-----------------------------------------------------------------------------
(***************************************************************************)
(* What find_transaction relies on: its binary search is right for chains  *)
(* whose heights never decrease (ChainsAssumption of FindTransaction).     *)
(***************************************************************************)
HeightsAreSorted ==
    \A i, j \in DOMAIN chain : i <= j => chain[i].height <= chain[j].height

\* The heights along the anchoring chain never decrease.
THEOREM HeightsSorted == Spec => []HeightsAreSorted
<1>1. Init => HeightsAreSorted
  BY EmptySeq DEF Init, HeightsAreSorted
<1>2. HeightsAreSorted /\ TypeOK /\ [Next]_vars => HeightsAreSorted'
  <2>. SUFFICES ASSUME HeightsAreSorted, TypeOK, [Next]_vars,
                       ProposalState = "Ok", PushAnchoringTransaction(Proposal),
                       NEW i \in 1..(Len(chain) + 1), NEW j \in 1..(Len(chain) + 1), i <= j
       PROVE  chain'[i].height <= chain'[j].height
    <3>1. CASE chain' = chain
      BY <3>1 DEF HeightsAreSorted
    <3>. QED
      BY <3>1, ChainStep, PushStep DEF HeightsAreSorted
  <2>1. /\ Len(chain) \in Nat
        /\ \A k \in 1..Len(chain) : chain[k].height \in Nat
        /\ Proposal.height \in Nat
    <3>1. \A k \in 1..Len(chain) : chain[k] \in Txs
      BY ElementOfSeq DEF TypeOK
    <3>. QED
      BY <3>1, PushStep, ProposalFacts DEF Txs
  <2>2. CASE j \in 1..Len(chain)
    <3>1. i \in 1..Len(chain)
      BY <2>1, <2>2
    <3>. QED
      BY <2>2, <3>1, PushStep DEF HeightsAreSorted
  <2>3. CASE j = Len(chain) + 1 /\ i = j
    BY <2>1, <2>3, PushStep
  <2>4. CASE j = Len(chain) + 1 /\ i \in 1..Len(chain)
    <3>1. chain # <<>>
      BY <2>1, <2>4, EmptySeq
    <3>2. chain[i].height <= LastTx.height
      <4>1. Len(chain) \in DOMAIN chain /\ i \in DOMAIN chain /\ i <= Len(chain)
        BY <2>1, <2>4, PushStep
      <4>. QED
        BY <4>1 DEF HeightsAreSorted, LastTx
    <3>3. LastTx.height <= Proposal.height
      <4>1. LastTx.height \in Nat
        BY <3>1, LastTxType DEF Txs
      <4>. QED
        BY <2>1, <3>1, <4>1, ProposalFacts, AnchoringHeightFacts
    <3>4. LastTx.height \in Nat
      BY <3>1, LastTxType DEF Txs
    <3>. QED
      BY <2>1, <2>4, <3>2, <3>3, <3>4, PushStep
  <2>. QED
    BY <2>1, <2>2, <2>3, <2>4
<1>. QED
  BY <1>1, <1>2, TypeCorrect, PTL DEF Spec
=============================================================================
