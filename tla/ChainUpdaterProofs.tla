------------------------- MODULE ChainUpdaterProofs -------------------------
(***************************************************************************)
(* Proofs about the utilities composed with the service: the composition   *)
(* implements the service, so that everything proved of the service holds  *)
(* of it, and what the nodes broadcast is valid.                           *)
(***************************************************************************)
EXTENDS ChainUpdater, AnchoringLogProofs

\* What a utility has in hand suits the request it makes next.
RequestInv ==
    \A u \in ServiceKeys :
        /\ pc[u] = "config" => held[u] \in Txs /\ Inputs(held[u]) # {}
        /\ pc[u] = "send" => outbox[u] # <<>>

UpdaterInv == TypeOK /\ UpdaterTypeOK /\ RequestInv

-----------------------------------------------------------------------------
\* A call that Exonum executes with success is a step of the service.
LEMMA CallIsStep ==
  ASSUME TypeOK, NEW call \in Calls, Call(call)
  PROVE  Next
<1>1. CASE call.method = "sign_input"
  <2>1. call.author \in ServiceKeys /\ call.arg \in SignInputMessages
    BY <1>1 DEF Calls
  <2>2. SignInput(call.author, call.arg)
    BY <1>1 DEF Call
  <2>3. /\ ProposalState = "Ok" /\ call.arg.txid = Proposal
        /\ call.arg.script = RedeemScript(actual)
        /\ call.arg.input \in {0, 1} /\ call.arg.signer \in BitcoinKeys
    BY <2>1, <2>2 DEF SignInput, VerifySignature, SignInputMessages
  <2>4. call.arg = [txid |-> Proposal, input |-> call.arg.input, signer |-> call.arg.signer,
                    script |-> RedeemScript(actual)]
    BY <2>1, <2>3 DEF SignInputMessages
  <2>5. call.arg \in SignInputs
    <3>1. Proposal \in IF ProposalState = "Ok" THEN {Proposal} ELSE {}
      BY <2>3
    <3>. QED
      BY <2>3, <2>4, <3>1 DEF SignInputs
  <2>. QED
    BY <2>1, <2>2, <2>5 DEF Next
<1>2. CASE call.method # "sign_input"
  <2>1. call.author \in ServiceKeys /\ call.arg \in FundingTxs
    BY <1>2 DEF Calls
  <2>2. AddFunds(call.author, call.arg)
    BY <1>2 DEF Call
  <2>. QED
    BY <2>1, <2>2 DEF Next
<1>. QED
  BY <1>1, <1>2

\* Every step of the composition is a step of the service or leaves it unchanged.
LEMMA StepIsStep ==
  ASSUME TypeOK, UpdaterTypeOK, [UpdaterNext]_updaterVars
  PROVE  [Next]_vars
<1>1. ASSUME NEW u \in ServiceKeys,
             \/ RoundStep(u) \/ ClientError(u) \/ AnswerLost(u)
             \/ GenerateKeypair(u) \/ Run(u)
             \/ \E funding \in FundingTxs : ApiAddFunds(u, funding)
      PROVE  UNCHANGED vars
  BY <1>1 DEF RoundStep, AskProposal, AskConfig, SendSignInput, AskAddress, EndRound,
              ClientError, AnswerLost, GenerateKeypair, Run, ApiAddFunds
<1>2. ASSUME NEW call \in pool, Execute(call)
      PROVE  [Next]_vars
  <2>1. Call(call) \/ UNCHANGED vars
    BY <1>2 DEF Execute
  <2>2. call \in Calls
    BY DEF UpdaterTypeOK
  <2>. QED
    BY <2>1, <2>2, CallIsStep
<1>3. ASSUME NEW config \in Configs, Supervise(config)
      PROVE  Next
  BY <1>3 DEF Supervise, Next
<1>4. CASE Block
  BY <1>4 DEF Block, Next
<1>5. CASE UNCHANGED updaterVars
  BY <1>5 DEF updaterVars
<1>. QED
  BY <1>1, <1>2, <1>3, <1>4, <1>5 DEF UpdaterNext

-----------------------------------------------------------------------------
\* A proposal has one or two inputs.
LEMMA InputCountFacts ==
  ASSUME NEW tx, Inputs(tx) # {}
  PROVE  /\ Inputs(tx) \subseteq {0, 1}
         /\ Cardinality(Inputs(tx)) \in {1, 2}
<1>1. Inputs(tx) \in {{0}, {0, 1}}
  BY DEF Inputs
<1>2. Cardinality({0}) = 1 /\ IsFiniteSet({0})
  BY FS_Singleton
<1>3. {0} \cup {1} = {0, 1} /\ 1 \notin {0}
  OBVIOUS
<1>4. Cardinality({0, 1}) = 2
  BY <1>2, <1>3, FS_AddElement
<1>. QED
  BY <1>1, <1>2, <1>4

\* find_private_key returns a key of the pool, if it finds one.
LEMMA PrivateKeyIsKnown ==
  ASSUME TypeOK, UpdaterTypeOK, NEW u \in ServiceKeys, KnownKeys(u) # {}
  PROVE  FindPrivateKey(u) \in BitcoinKeys
<1>1. KnownKeys(u) \subseteq Nat
  BY ConfigFacts DEF KnownKeys, TypeOK
<1>2. PICK n \in KnownKeys(u) : \A m \in KnownKeys(u) : n <= m
  BY <1>1, LeastNatural
<1>. DEFINE k == CHOOSE k \in KnownKeys(u) : \A m \in KnownKeys(u) : k <= m
<1>3. k \in KnownKeys(u)
  BY <1>2
<1>4. actual.anchoring_keys[k].bitcoin_key \in keys[u]
  BY <1>3 DEF KnownKeys
<1>. QED
  BY <1>4 DEF FindPrivateKey, UpdaterTypeOK

\* The messages for a proposal are well formed, and there is at least one.
LEMMA MessagesType ==
  ASSUME TypeOK, UpdaterTypeOK, NEW u \in ServiceKeys, KnownKeys(u) # {},
         NEW tx \in Txs, Inputs(tx) # {}
  PROVE  /\ SignAllInputs(u, tx) \in Seq(SignInputMessages)
         /\ SignAllInputs(u, tx) # <<>>
<1>1. Cardinality(Inputs(tx)) \in {1, 2}
  BY InputCountFacts
<1>2. FindPrivateKey(u) \in BitcoinKeys
  BY PrivateKeyIsKnown
<1>3. RedeemScript(actual) \in {RedeemScript(config) : config \in Configs}
  BY DEF TypeOK
<1>. DEFINE message(n) == [txid |-> tx, input |-> n - 1, signer |-> FindPrivateKey(u),
                           script |-> RedeemScript(actual)]
<1>4. \A n \in 1..Cardinality(Inputs(tx)) : n - 1 \in {0, 1}
  BY <1>1
<1>5. \A n \in 1..Cardinality(Inputs(tx)) : message(n) \in SignInputMessages
  BY <1>2, <1>3, <1>4 DEF SignInputMessages
<1>6. SignAllInputs(u, tx) = [n \in 1..Cardinality(Inputs(tx)) |-> message(n)]
  BY DEF SignAllInputs
<1>. HIDE DEF message
<1>7. SignAllInputs(u, tx) \in Seq(SignInputMessages)
  BY <1>1, <1>5, <1>6
<1>8. 1 \in DOMAIN SignAllInputs(u, tx)
  BY <1>1, <1>6
<1>. QED
  BY <1>7, <1>8

\* A node broadcasts well formed calls only.
LEMMA SendType ==
  ASSUME UpdaterTypeOK, RequestInv, NEW u \in ServiceKeys, pc[u] = "send"
  PROVE  /\ Head(outbox[u]) \in SignInputMessages
         /\ Tail(outbox[u]) \in Seq(SignInputMessages)
         /\ Len(outbox[u]) > 1 => Tail(outbox[u]) # <<>>
         /\ [method |-> "sign_input", author |-> u, arg |-> Head(outbox[u])] \in Calls
<1>1. outbox[u] \in Seq(SignInputMessages) /\ outbox[u] # <<>>
  BY DEF UpdaterTypeOK, RequestInv
<1>2. Head(outbox[u]) \in SignInputMessages
  BY <1>1, HeadTailProperties
<1>3. Tail(outbox[u]) \in Seq(SignInputMessages) /\ Len(Tail(outbox[u])) = Len(outbox[u]) - 1
  BY <1>1, HeadTailProperties
<1>4. Len(outbox[u]) > 1 => Tail(outbox[u]) # <<>>
  <2>1. Len(<<>>) = 0
    OBVIOUS
  <2>2. Len(outbox[u]) \in Nat
    BY <1>1, LenProperties
  <2>3. \A a, b : a \in Nat /\ b = a - 1 /\ a > 1 => b # 0
    OBVIOUS
  <2>4. Len(outbox[u]) > 1 => Len(Tail(outbox[u])) # 0
    BY <1>3, <2>2, <2>3, Zenon
  <2>. QED
    BY <2>1, <2>4, Zenon
<1>. QED
  BY <1>2, <1>3, <1>4 DEF Calls

\* The utilities start well typed.
LEMMA UpdaterStarts == UpdaterInit => UpdaterInv
<1>. SUFFICES ASSUME UpdaterInit PROVE UpdaterInv
  OBVIOUS
<1>1. TypeOK
  BY TypeInit DEF UpdaterInit
<1>2. \A n \in DOMAIN actual.anchoring_keys : actual.anchoring_keys[n].bitcoin_key \in BitcoinKeys
  <2>1. actual.anchoring_keys \in Seq(AnchoringKeys)
    BY <1>1, ConfigFacts DEF TypeOK
  <2>2. \A n \in DOMAIN actual.anchoring_keys : actual.anchoring_keys[n] \in AnchoringKeys
    BY <1>1, <2>1, ConfigFacts, ElementOfSeq DEF TypeOK
  <2>. QED
    BY <2>2 DEF AnchoringKeys
<1>3. file \in [ServiceKeys -> SUBSET BitcoinKeys]
  BY <1>2 DEF UpdaterInit, NodesWithKey
<1>4. UpdaterTypeOK
  <2>1. <<>> \in Seq(SignInputMessages)
    BY EmptySeq
  <2>. QED
    BY <1>3, <2>1 DEF UpdaterInit, UpdaterTypeOK, Requests
<1>5. RequestInv
  BY DEF UpdaterInit, RequestInv
<1>. QED
  BY <1>1, <1>4, <1>5 DEF UpdaterInv

\* Every step of a utility keeps it well typed.
LEMMA RoundType ==
  ASSUME UpdaterInv, NEW u \in ServiceKeys,
         RoundStep(u) \/ ClientError(u) \/ AnswerLost(u)
  PROVE  UpdaterTypeOK' /\ RequestInv'
<1>0. TypeOK /\ UpdaterTypeOK /\ RequestInv /\ <<>> \in Seq(SignInputMessages)
  BY EmptySeq DEF UpdaterInv
<1>1. CASE AskProposal(u)
  <2>1. CASE AnchoringProposal = "Available"
    <3>1. ProposalState = "Ok"
      BY <2>1 DEF AnchoringProposal
    <3>2. Proposal \in Txs /\ Inputs(Proposal) # {}
      BY <1>0, <3>1, ProposalFacts
    <3>3. /\ pc' = [pc EXCEPT ![u] = "config"]
          /\ held' = [held EXCEPT ![u] = Proposal]
      BY <1>1, <2>1 DEF AskProposal, Goto
    <3>. QED
      BY <1>0, <1>1, <3>2, <3>3 DEF AskProposal, UpdaterTypeOK, RequestInv, Requests
  <2>2. CASE AnchoringProposal # "Available"
    <3>1. /\ pc' = [pc EXCEPT ![u] = "address"] \/ pc' = [pc EXCEPT ![u] = "relay"]
          /\ held' = [held EXCEPT ![u] = None]
      BY <1>1, <2>2 DEF AskProposal, Goto
    <3>. QED
      BY <1>0, <1>1, <3>1 DEF AskProposal, UpdaterTypeOK, RequestInv, Requests
  <2>. QED
    BY <2>1, <2>2
<1>2. CASE AskConfig(u)
  <2>1. CASE KnownKeys(u) = {}
    BY <1>0, <1>2, <2>1 DEF AskConfig, Goto, Forget, UpdaterTypeOK, RequestInv, Requests
  <2>2. CASE KnownKeys(u) # {}
    <3>1. /\ SignAllInputs(u, held[u]) \in Seq(SignInputMessages)
          /\ SignAllInputs(u, held[u]) # <<>>
      BY <1>0, <1>2, <2>2, MessagesType DEF AskConfig, RequestInv
    <3>. QED
      BY <1>0, <1>2, <2>2, <3>1 DEF AskConfig, Goto, UpdaterTypeOK, RequestInv, Requests
  <2>. QED
    BY <2>1, <2>2
<1>3. CASE SendSignInput(u)
  <2>1. pc[u] = "send"
    BY <1>3 DEF SendSignInput
  <2>2. pool' \in SUBSET Calls
    BY <1>0, <1>3, <2>1, SendType
       DEF SendSignInput, ApiSignInput, Broadcast, UpdaterTypeOK
  <2>3. \/ /\ Len(outbox[u]) > 1
           /\ outbox' = [outbox EXCEPT ![u] = Tail(@)]
           /\ UNCHANGED <<pc, held>>
        \/ /\ pc' = [pc EXCEPT ![u] = "relay"]
           /\ held' = [held EXCEPT ![u] = None]
           /\ outbox' = [outbox EXCEPT ![u] = <<>>]
    BY <1>3 DEF SendSignInput, Goto, Forget
  <2>. QED
    BY <1>0, <1>3, <2>1, <2>2, <2>3, SendType
       DEF SendSignInput, UpdaterTypeOK, RequestInv, Requests
<1>4. CASE AskAddress(u)
  BY <1>0, <1>4 DEF AskAddress, Goto, UpdaterTypeOK, RequestInv, Requests
<1>5. CASE EndRound(u)
  BY <1>0, <1>5 DEF EndRound, Goto, UpdaterTypeOK, RequestInv, Requests
<1>6. CASE ClientError(u)
  BY <1>0, <1>6 DEF ClientError, Goto, Forget, UpdaterTypeOK, RequestInv, Requests
<1>7. CASE AnswerLost(u)
  <2>1. pool' \in SUBSET Calls
    BY <1>0, <1>7, SendType DEF AnswerLost, ApiSignInput, Broadcast, UpdaterTypeOK
  <2>. QED
    BY <1>0, <1>7, <2>1 DEF AnswerLost, Goto, Forget, UpdaterTypeOK, RequestInv, Requests
<1>. QED
  BY <1>1, <1>2, <1>3, <1>4, <1>5, <1>6, <1>7 DEF RoundStep

\* Every step of the composition keeps it well typed.
LEMMA UpdaterStep == UpdaterInv /\ [UpdaterNext]_updaterVars => UpdaterInv'
<1>. SUFFICES ASSUME UpdaterInv, [UpdaterNext]_updaterVars
     PROVE  UpdaterInv'
  OBVIOUS
<1>0. TypeOK /\ UpdaterTypeOK /\ RequestInv
  BY DEF UpdaterInv
<1>1. TypeOK'
  BY <1>0, StepIsStep, TypeNext
<1>2. ASSUME NEW u \in ServiceKeys, RoundStep(u) \/ ClientError(u) \/ AnswerLost(u)
      PROVE  UpdaterTypeOK' /\ RequestInv'
  BY <1>2, RoundType
<1>3. ASSUME NEW u \in ServiceKeys, GenerateKeypair(u)
      PROVE  UpdaterTypeOK' /\ RequestInv'
  <2>1. PICK key \in Generated[u] : file' = [file EXCEPT ![u] = @ \cup {key}]
    BY <1>3 DEF GenerateKeypair
  <2>2. key \in BitcoinKeys
    BY <2>1, GeneratedAssumption
  <2>. QED
    BY <1>0, <1>3, <2>1, <2>2 DEF GenerateKeypair, UpdaterTypeOK, RequestInv
<1>4. ASSUME NEW u \in ServiceKeys, Run(u)
      PROVE  UpdaterTypeOK' /\ RequestInv'
  <2>1. <<>> \in Seq(SignInputMessages)
    BY EmptySeq
  <2>. QED
    BY <1>0, <1>4, <2>1 DEF Run, Goto, Forget, UpdaterTypeOK, RequestInv, Requests
<1>5. ASSUME NEW u \in ServiceKeys, NEW funding \in FundingTxs, ApiAddFunds(u, funding)
      PROVE  UpdaterTypeOK' /\ RequestInv'
  <2>1. [method |-> "add_funds", author |-> u, arg |-> funding] \in Calls
    BY DEF Calls
  <2>2. pool' \in SUBSET Calls
    BY <1>0, <1>5, <2>1 DEF ApiAddFunds, Broadcast, UpdaterTypeOK
  <2>. QED
    BY <1>0, <1>5, <2>2 DEF ApiAddFunds, utility, UpdaterTypeOK, RequestInv
<1>6. ASSUME NEW call \in pool, Execute(call)
      PROVE  UpdaterTypeOK' /\ RequestInv'
  BY <1>0, <1>6 DEF Execute, utility, UpdaterTypeOK, RequestInv
<1>7. ASSUME NEW config \in Configs, Supervise(config)
      PROVE  UpdaterTypeOK' /\ RequestInv'
  BY <1>0, <1>7 DEF Supervise, utility, UpdaterTypeOK, RequestInv
<1>8. ASSUME Block
      PROVE  UpdaterTypeOK' /\ RequestInv'
  BY <1>0, <1>8 DEF Block, utility, UpdaterTypeOK, RequestInv
<1>9. ASSUME UNCHANGED updaterVars
      PROVE  UpdaterTypeOK' /\ RequestInv'
  BY <1>0, <1>9 DEF updaterVars, UpdaterTypeOK, RequestInv
<1>10. UpdaterTypeOK' /\ RequestInv'
  BY <1>2, <1>3, <1>4, <1>5, <1>6, <1>7, <1>8, <1>9 DEF UpdaterNext
<1>. QED
  BY <1>1, <1>10 DEF UpdaterInv

\* Utilities, private API and service stay well typed: in particular a utility
\* never handles a proposal it has not read or sends a message it has not made.
THEOREM UpdaterTypeCorrect == UpdaterSpec => []UpdaterTypeOK
<1>1. UpdaterInv => UpdaterTypeOK
  BY DEF UpdaterInv
<1>. QED
  BY <1>1, UpdaterStarts, UpdaterStep, PTL DEF UpdaterSpec

\* The nodes with their utilities implement the anchoring service: whatever is
\* proved of the service holds when its callers are the utilities.
THEOREM UpdaterImplementsService == UpdaterSpec => Spec
<1>1. UpdaterInit => Init
  BY DEF UpdaterInit
<1>2. UpdaterInv /\ [UpdaterNext]_updaterVars => [Next]_vars
  BY StepIsStep DEF UpdaterInv
<1>. QED
  BY <1>1, <1>2, UpdaterStarts, UpdaterStep, PTL DEF UpdaterSpec, Spec

-----------------------------------------------------------------------------
\* A signature that a node accepts is valid for the proposal of that moment.
LEMMA AcceptedIsValid ==
  ASSUME TypeOK, NEW u \in ServiceKeys, NEW arg, ApiAccepts(u, arg)
  PROVE  /\ arg.script = arg.txid.spends
         /\ arg.input \in Inputs(arg.txid)
         /\ \E config \in Configs : /\ RedeemScript(config) = arg.script
                                    /\ IsAnchoringNode(config, u)
                                    /\ arg.signer = FindBitcoinKey(config, u)
<1>1. VerifySignInput(u, arg)
  BY DEF ApiAccepts
<1>2. Proposal.spends = AnchoringOutScript(actual)
  BY <1>1, ProposalFacts DEF VerifySignInput
<1>3. actual \in Configs
  BY DEF TypeOK
<1>. QED
  BY <1>1, <1>2, <1>3 DEF VerifySignInput, AnchoringOutScript

\* One step keeps the calls that were broadcast valid.
LEMMA BroadcastStep ==
  UpdaterInv /\ BroadcastIsValid /\ [UpdaterNext]_updaterVars => BroadcastIsValid'
<1>. SUFFICES ASSUME UpdaterInv, BroadcastIsValid, [UpdaterNext]_updaterVars
     PROVE  BroadcastIsValid'
  OBVIOUS
<1>. DEFINE Valid(call) ==
       /\ call.arg.script = call.arg.txid.spends
       /\ call.arg.input \in Inputs(call.arg.txid)
       /\ \E config \in Configs :
             /\ RedeemScript(config) = call.arg.script
             /\ IsAnchoringNode(config, call.author)
             /\ call.arg.signer = FindBitcoinKey(config, call.author)
<1>0. \A call \in pool \cup done : call.method = "sign_input" => Valid(call)
  BY DEF BroadcastIsValid
<1>1. SUFFICES \A call \in pool' \cup done' : call.method = "sign_input" => Valid(call)
  BY DEF BroadcastIsValid
<1>2. ASSUME NEW u \in ServiceKeys, NEW arg, ApiAccepts(u, arg), ApiSignInput(u, arg), done' = done
      PROVE  \A call \in pool' \cup done' : call.method = "sign_input" => Valid(call)
  <2>. DEFINE new == [method |-> "sign_input", author |-> u, arg |-> arg]
  <2>1. Valid(new)
    BY <1>2, AcceptedIsValid DEF UpdaterInv
  <2>2. pool' \cup done' \subseteq (pool \cup done) \cup {new}
    BY <1>2 DEF ApiSignInput, Broadcast
  <2>. HIDE DEF Valid, new
  <2>. QED
    BY <1>0, <2>1, <2>2
<1>3. ASSUME NEW u \in ServiceKeys, NEW funding \in FundingTxs, ApiAddFunds(u, funding)
      PROVE  \A call \in pool' \cup done' : call.method = "sign_input" => Valid(call)
  <2>. DEFINE new == [method |-> "add_funds", author |-> u, arg |-> funding]
  <2>1. new.method # "sign_input"
    OBVIOUS
  <2>2. pool' \cup done' \subseteq (pool \cup done) \cup {new}
    BY <1>3 DEF ApiAddFunds, Broadcast
  <2>. HIDE DEF Valid, new
  <2>. QED
    BY <1>0, <2>1, <2>2
<1>. HIDE DEF Valid
<1>4. ASSUME NEW u \in ServiceKeys, SendSignInput(u)
      PROVE  \A call \in pool' \cup done' : call.method = "sign_input" => Valid(call)
  <2>1. CASE ApiAccepts(u, Head(outbox[u]))
    BY <1>2, <1>4, <2>1 DEF SendSignInput
  <2>2. CASE ~ApiAccepts(u, Head(outbox[u]))
    BY <1>0, <1>4, <2>2 DEF SendSignInput
  <2>. QED
    BY <2>1, <2>2
<1>5. ASSUME NEW u \in ServiceKeys, AnswerLost(u)
      PROVE  \A call \in pool' \cup done' : call.method = "sign_input" => Valid(call)
  BY <1>2, <1>5 DEF AnswerLost
<1>6. ASSUME pool' \cup done' \subseteq pool \cup done
      PROVE  \A call \in pool' \cup done' : call.method = "sign_input" => Valid(call)
  BY <1>0, <1>6
<1>7. \/ \E u \in ServiceKeys : SendSignInput(u) \/ AnswerLost(u)
      \/ \E u \in ServiceKeys, funding \in FundingTxs : ApiAddFunds(u, funding)
      \/ pool' \cup done' \subseteq pool \cup done
  BY DEF UpdaterNext, updaterVars, RoundStep, AskProposal, AskConfig, AskAddress, EndRound,
         ClientError, GenerateKeypair, Run, Execute, Supervise, Block
<1>. QED
  BY <1>3, <1>4, <1>5, <1>6, <1>7

\* Whatever a utility has read before, a signature that its node broadcasts is
\* valid for the script that the signed transaction spends.
THEOREM BroadcastValid == UpdaterSpec => []BroadcastIsValid
<1>1. UpdaterInit => BroadcastIsValid
  BY DEF UpdaterInit, BroadcastIsValid
<1>. QED
  BY <1>1, UpdaterStarts, UpdaterStep, BroadcastStep, PTL DEF UpdaterSpec

\* With the utilities as the callers, a transaction is finalized only with a
\* complete witness on every input.
THEOREM UpdaterWitnesses == UpdaterSpec => []WitnessesAreComplete
BY UpdaterImplementsService, WitnessesComplete, PTL

\* A node signs an input of a transaction with one message only, whatever is lost
\* or repeated, unless the supervisor exchanges the keys of nodes within a script.
THEOREM SignedOnce ==
  ASSUME KeysAreNotExchanged
  PROVE  UpdaterSpec => []InputsAreSignedOnce
<1>1. UpdaterTypeOK /\ BroadcastIsValid => InputsAreSignedOnce
  <2>. SUFFICES ASSUME UpdaterTypeOK, BroadcastIsValid,
                       NEW c1 \in pool \cup done, NEW c2 \in pool \cup done,
                       c1.method = "sign_input", c2.method = "sign_input",
                       c1.author = c2.author,
                       c1.arg.txid = c2.arg.txid, c1.arg.input = c2.arg.input
       PROVE  c1 = c2
    BY DEF InputsAreSignedOnce
  <2>1. /\ c1 \in [method : {"sign_input"}, author : ServiceKeys, arg : SignInputMessages]
        /\ c2 \in [method : {"sign_input"}, author : ServiceKeys, arg : SignInputMessages]
    BY DEF UpdaterTypeOK, Calls
  <2>2. c1.arg.script = c2.arg.script
    BY DEF BroadcastIsValid
  <2>3. PICK config1 \in Configs : /\ RedeemScript(config1) = c1.arg.script
                                   /\ IsAnchoringNode(config1, c1.author)
                                   /\ c1.arg.signer = FindBitcoinKey(config1, c1.author)
    BY DEF BroadcastIsValid
  <2>4. PICK config2 \in Configs : /\ RedeemScript(config2) = c2.arg.script
                                   /\ IsAnchoringNode(config2, c2.author)
                                   /\ c2.arg.signer = FindBitcoinKey(config2, c2.author)
    BY DEF BroadcastIsValid
  <2>5. c1.arg.signer = c2.arg.signer
    BY <2>1, <2>2, <2>3, <2>4 DEF KeysAreNotExchanged
  <2>6. c1.arg = c2.arg
    BY <2>1, <2>2, <2>5 DEF SignInputMessages
  <2>. QED
    BY <2>1, <2>6
<1>. QED
  BY <1>1, UpdaterTypeCorrect, BroadcastValid, PTL

\* The composition of the utilities with the service implements the append-only log.
THEOREM UpdaterImplementsLog == UpdaterSpec => ImplementsLog
BY UpdaterImplementsService, ServiceImplementsLog, PTL
=============================================================================
