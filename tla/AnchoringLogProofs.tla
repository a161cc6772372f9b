------------------------- MODULE AnchoringLogProofs -------------------------
(***************************************************************************)
(* The proof that the anchoring service implements the abstract log.       *)
(***************************************************************************)
EXTENDS BtcAnchoringProofs

\* The funds of the next transaction: the last output and the unspent funding.
Available ==
    (IF chain # <<>> THEN LastTx.value ELSE 0)
        + (IF unspent # None THEN FundingValue(unspent, AnchoringOutScript(actual)) ELSE 0)

\* The builder never puts more into the output than it has taken from the inputs,
\* also when the fee wraps around.
LEMMA ProposalValue ==
  ASSUME TypeOK, ChainIsSpendable, ProposalState = "Ok"
  PROVE  /\ Available \in Nat
         /\ Proposal.value \in 0..Available
<1>1. /\ CreateOutcome(Builder) = "Ok"
      /\ unspent # None => PaysTo(unspent, AnchoringOutScript(actual))
  BY DEF ProposalState
<1>2. ~IsBroken
  BY DEF IsBroken, ChainIsSpendable
<1>3. unspent \in FundingTxs \cup {None} /\ (chain # <<>> => LastTx.value \in Nat)
  BY LastTxType DEF TypeOK, Txs
<1>4. /\ Builder.prev_tx.value = IF chain # <<>> THEN LastTx.value ELSE 0
      /\ Builder.additional_funds = unspent
      /\ Builder.script_pubkey = AnchoringOutScript(actual)
  BY <1>2 DEF Builder, NoPrevTx
<1>5. Balance(Builder) = Available
  BY <1>4 DEF Balance, Available
<1>6. Available \in Nat
  BY <1>1, <1>3, FundingFacts DEF Available
<1>7. /\ Proposal.value = Balance(Builder) - TotalFee(Builder)
      /\ Proposal.value \in Nat
  BY ProposalFacts DEF Proposal, Create, Txs
<1>8. TotalFee(Builder) \in Nat
  <2>1. actual.transaction_fee \in Nat /\ Builder.fee = actual.transaction_fee
    BY ConfigFacts DEF TypeOK, Builder
  <2>2. SizeInBytes(Builder) \in Nat
    BY DEF SizeInBytes, InputCount
  <2>3. Builder.fee * SizeInBytes(Builder) \in Nat
    BY <2>1, <2>2
  <2>4. \A n \in Nat : (n % U64) \in Nat
    BY U64Assumption
  <2>. QED
    BY <2>3, <2>4 DEF TotalFee
<1>. QED
  BY <1>5, <1>6, <1>7, <1>8

\* The call that finalizes the proposal extends the log.
LEMMA PushExtends ==
  ASSUME FundsInv, ProposalState = "Ok", PushAnchoringTransaction(Proposal),
         UNCHANGED core_height
  PROVE  Log!Anchor \/ Log!Move
<1>0. TypeOK /\ ChainIsSpendable /\ FundingIsSpendable
  BY DEF FundsInv
<1>1. /\ Len(chain') = Len(chain) + 1
      /\ chain'[Len(chain')] = Proposal
      /\ chain' = Append(chain, Proposal)
  BY <1>0, PushStep DEF PushAnchoringTransaction
<1>2. Log!NewEntry = Proposal
  BY <1>1 DEF Log!NewEntry
<1>3. chain # <<>> => Log!LastEntry = LastTx
  BY DEF Log!LastEntry, LastTx
<1>4. /\ Proposal.spends = AnchoringOutScript(actual)
      /\ Proposal.funds = unspent
      /\ Proposal.height = AnchoringHeight
      /\ AnchoringHeight <= core_height
      /\ Proposal.out = IF chain # <<>> /\ IsTransition
                          THEN AnchoringOutScript(following)
                          ELSE AnchoringOutScript(actual)
  BY <1>0, ProposalFacts
<1>5. Proposal.out = AnchoringOutScript(actual')
  BY <1>4 DEF PushAnchoringTransaction, IsTransition, AnchoringOutScript
<1>6. Proposal.funds \notin spent
  <2>1. spent \in SUBSET FundingTxs /\ None \notin FundingTxs
    BY <1>0, NoneAssumption DEF TypeOK
  <2>. QED
    BY <1>0, <1>4, <2>1 DEF FundingIsSpendable
<1>7. Log!Funds = Available
  BY <1>2, <1>3, <1>4 DEF Log!Funds, Available
<1>8. Log!Extend
  BY <1>0, <1>1, <1>2, <1>3, <1>4, <1>5, <1>6, <1>7, ProposalValue
     DEF Log!Extend, ChainIsSpendable, PushAnchoringTransaction
<1>9. AnchoringHeight \in Nat /\ core_height \in Nat
  BY <1>0, AnchoringHeightFacts DEF TypeOK
<1>10. CASE chain # <<>> /\ IsTransition
  <2>1. Proposal.height = LastTx.height
    BY <1>0, <1>4, <1>10, AnchoringHeightFacts
  <2>2. following \in Configs /\ actual' = following
    BY <1>0, <1>10 DEF TypeOK, IsTransition, PushAnchoringTransaction
  <2>3. AnchoringOutScript(actual') \in Scripts \ {AnchoringOutScript(actual)}
    BY <1>10, <2>2, ConfigFacts DEF IsTransition, AnchoringOutScript
  <2>. QED
    BY <1>2, <1>3, <1>8, <1>10, <2>1, <2>3 DEF Log!Move
<1>11. CASE ~(chain # <<>> /\ IsTransition)
  <2>1. AnchoringOutScript(actual') = AnchoringOutScript(actual)
    BY <1>4, <1>5, <1>11
  <2>2. chain # <<>> => Proposal.height > LastTx.height
    BY <1>0, <1>4, <1>11, AnchoringHeightFacts
  <2>3. Proposal.height \in 0..core_height
    BY <1>4, <1>9
  <2>. QED
    BY <1>2, <1>3, <1>8, <2>1, <2>2, <2>3 DEF Log!Anchor
<1>. QED
  BY <1>10, <1>11

\* Every call is a step of the log or leaves the log unchanged.
LEMMA StepExtends ==
  ASSUME FundsInv, [Next]_vars
  PROVE  [Log!LogNext]_Log!logVars
<1>0. TypeOK
  BY DEF FundsInv
<1>1. ASSUME NEW author \in ServiceKeys, NEW arg \in SignInputs, SignInput(author, arg)
      PROVE  [Log!LogNext]_Log!logVars
  <2>1. /\ ProposalState = "Ok"
        /\ PushAnchoringTransaction(Proposal) \/ UNCHANGED <<chain, spent, actual>>
        /\ UNCHANGED core_height
    BY <1>0, <1>1, SignInputStep DEF Stored
  <2>. QED
    BY <2>1, PushExtends DEF Log!LogNext, Log!logVars
<1>2. ASSUME NEW author \in ServiceKeys, NEW funding \in FundingTxs, AddFunds(author, funding)
      PROVE  [Log!LogNext]_Log!logVars
  BY <1>2 DEF AddFunds, Log!logVars
<1>3. ASSUME NEW config \in Configs, ApplyConfig(config)
      PROVE  [Log!LogNext]_Log!logVars
  <2>1. AnchoringOutScript(actual') = AnchoringOutScript(actual)
    BY <1>3 DEF ApplyConfig, AnchoringAddress, AnchoringOutScript
  <2>. QED
    BY <1>3, <2>1 DEF ApplyConfig, Log!logVars
<1>4. CASE CommitBlock
  BY <1>4 DEF CommitBlock, Log!LogNext, Log!Commit
<1>5. CASE UNCHANGED vars
  BY <1>5 DEF vars, Log!logVars
<1>. QED
  BY <1>1, <1>2, <1>3, <1>4, <1>5 DEF Next

\* The anchoring service implements the append-only log of AnchoringLog, for all
\* configurations, keys and funding transactions.
THEOREM ServiceImplementsLog == Spec => ImplementsLog
<1>1. Init => Log!LogInit
  BY ConfigFacts DEF Init, Log!LogInit
<1>2. FundsInv /\ [Next]_vars => [Log!LogNext]_Log!logVars
  BY StepExtends
<1>. QED
  BY <1>1, <1>2, FundsCorrect, PTL DEF Spec, ImplementsLog, Log!LogSpec
=============================================================================
