---------------------------- MODULE ChainUpdater ----------------------------
(***************************************************************************)
(* The signing half of the sync utility, composed with the service.        *)
(*                                                                         *)
(* Next to every node runs a utility (examples/btc_anchoring_sync.rs).     *)
(* Round after round its chain updater (AnchoringChainUpdateTask of        *)
(* src/sync/mod.rs) asks the private API of the node (src/api.rs) for the  *)
(* proposal, then for the configuration, signs every input with a key of   *)
(* its pool and sends the signatures one by one.  The node verifies a      *)
(* signature against its state and broadcasts it as a call of the service, *)
(* which Exonum executes later and in any order.  Each request is a step   *)
(* of its own, so that the state moves on between any two of them.         *)
(*                                                                         *)
(* A node and its utility are named by the service key of the node.        *)
(***************************************************************************)
EXTENDS BtcAnchoring

CONSTANTS
    Validators, \* the nodes that are validators and may broadcast calls
    Generated   \* Generated[u]: the keys that the operator of u generates

VARIABLES
    file,   \* bitcoin_key_pool in the configuration file of each utility
    keys,   \* the key pool that each running utility has loaded
    pc,     \* the request that each utility makes next
    held,   \* the proposal that each utility has read, or None
    outbox, \* the SignInput messages that each utility has still to send
    pool,   \* the calls that were broadcast and not executed yet
    done    \* the calls that were executed, with or without success

utility == <<file, keys, pc, held, outbox>>
updaterVars == <<vars, file, keys, pc, held, outbox, pool, done>>

ASSUME GeneratedAssumption == Generated \in [ServiceKeys -> SUBSET BitcoinKeys]

Requests == {"proposal", "config", "send", "address", "relay"}

SignInputMessages ==
    [txid : Txs, input : {0, 1}, signer : BitcoinKeys,
     script : {RedeemScript(config) : config \in Configs}]

Calls == [method : {"sign_input"}, author : ServiceKeys, arg : SignInputMessages]
            \cup [method : {"add_funds"}, author : ServiceKeys, arg : FundingTxs]

UpdaterTypeOK ==
    /\ file \in [ServiceKeys -> SUBSET BitcoinKeys]
    /\ keys \in [ServiceKeys -> SUBSET BitcoinKeys]
    /\ pc \in [ServiceKeys -> Requests]
    /\ held \in [ServiceKeys -> Txs \cup {None}]
    /\ outbox \in [ServiceKeys -> Seq(SignInputMessages)]
    /\ pool \in SUBSET Calls
    /\ done \in SUBSET Calls

-----------------------------------------------------------------------------
(***************************************************************************)
(* The private API of a node.                                              *)
(***************************************************************************)
\* AnchoringProposalState::try_from_proposal.
AnchoringProposal ==
    LET proposal == ProposalState
    IN CASE proposal = "Ok" -> "Available"
         [] proposal = "NoInputs" -> "NoInitialFunds"
         [] proposal \in {"None", "InsufficientFunds"} -> proposal
         [] OTHER -> "Error"

\* Variant: the signature itself is not verified.
VerifySignInputUnsigned(node, arg) ==
    /\ ProposalState = "Ok"
    /\ arg.input \in Inputs(Proposal)
    /\ IsAnchoringNode(actual, node)

(***************************************************************************)
(* verify_sign_input.  The signature is verified, which is valid for one   *)
(* input of one transaction, one key and one redeem script.  The txid of   *)
(* the message is not looked at; a utility sets it to the transaction that *)
(* it has signed, so that it stands here for what the signature commits to.*)
(***************************************************************************)
VerifySignInput(node, arg) ==
    /\ ProposalState = "Ok"
    /\ arg.input \in Inputs(Proposal)
    /\ IsAnchoringNode(actual, node)
    /\ arg.txid = Proposal
    /\ arg.signer = FindBitcoinKey(actual, node)
    /\ arg.script = RedeemScript(actual)

VerifyFundingTx(funding) ==
    /\ funding \notin spent
    /\ PaysTo(funding, AnchoringOutScript(actual))

\* Broadcaster: equal calls have the same hash, and a hash is executed once.
Broadcast(call) == pool' = IF call \in done THEN pool ELSE pool \cup {call}

\* ApiImpl::sign_input answers with the hash of the call.
ApiAccepts(node, arg) == VerifySignInput(node, arg) /\ node \in Validators

ApiSignInput(node, arg) ==
    Broadcast([method |-> "sign_input", author |-> node, arg |-> arg])

\* ApiImpl::add_funds, called by the operator of the node.
ApiAddFunds(node, funding) ==
    /\ VerifyFundingTx(funding)
    /\ node \in Validators
    /\ Broadcast([method |-> "add_funds", author |-> node, arg |-> funding])
    /\ UNCHANGED <<vars, utility, done>>

-----------------------------------------------------------------------------
(***************************************************************************)
(* The requests of a round.                                                *)
(***************************************************************************)
Goto(u, request) == pc' = [pc EXCEPT ![u] = request]

Forget(u) == held' = [held EXCEPT ![u] = None] /\ outbox' = [outbox EXCEPT ![u] = <<>>]

\* find_private_key: the first key of the configuration that is in the pool.
KnownKeys(u) ==
    {n \in DOMAIN actual.anchoring_keys : actual.anchoring_keys[n].bitcoin_key \in keys[u]}

FindPrivateKey(u) ==
    actual.anchoring_keys[CHOOSE n \in KnownKeys(u) : \A m \in KnownKeys(u) : n <= m].bitcoin_key

\* process: the request for the proposal and what follows from its answer.
AskProposal(u) ==
    /\ pc[u] = "proposal"
    /\ UNCHANGED <<vars, file, keys, outbox, pool, done>>
    /\ LET answer == AnchoringProposal
       IN /\ Goto(u, CASE answer = "Available" -> "config"
                       [] answer = "NoInitialFunds" -> "address"
                       [] OTHER -> "relay")
          /\ held' = [held EXCEPT ![u] = IF answer = "Available" THEN Proposal ELSE None]

\* Variant: only the first input of the proposal is signed.
SignFirstInput(u, proposal) ==
    <<[txid |-> proposal, input |-> 0, signer |-> FindPrivateKey(u),
       script |-> RedeemScript(actual)]>>

\* Variant: one input more than the proposal has is signed.
SignOneInputMore(u, proposal) ==
    [n \in 1..(Cardinality(Inputs(proposal)) + 1) |->
        [txid |-> proposal, input |-> n - 1, signer |-> FindPrivateKey(u),
         script |-> RedeemScript(actual)]]

\* handle_proposal: the messages for all inputs of the proposal that was read.  The
\* proposal comes with the transactions of its inputs, so that signing succeeds.
SignAllInputs(u, proposal) ==
    [n \in 1..Cardinality(Inputs(proposal)) |->
        [txid |-> proposal, input |-> n - 1, signer |-> FindPrivateKey(u),
         script |-> RedeemScript(actual)]]

\* process: the request for the configuration; handle_proposal up to the sending.
AskConfig(u) ==
    /\ pc[u] = "config"
    /\ UNCHANGED <<vars, file, keys, pool, done>>
    /\ IF KnownKeys(u) = {}
         THEN Goto(u, "relay") /\ Forget(u)
         ELSE /\ Goto(u, "send")
              /\ outbox' = [outbox EXCEPT ![u] = SignAllInputs(u, held[u])]
              /\ UNCHANGED held

\* handle_proposal: one request of the loop that sends the messages.
SendSignInput(u) ==
    /\ pc[u] = "send"
    /\ UNCHANGED <<vars, file, keys, done>>
    /\ LET arg == Head(outbox[u])
       IN IF ApiAccepts(u, arg)
            THEN /\ ApiSignInput(u, arg)
                 /\ IF Len(outbox[u]) > 1
                      THEN outbox' = [outbox EXCEPT ![u] = Tail(@)] /\ UNCHANGED <<pc, held>>
                      ELSE Goto(u, "relay") /\ Forget(u)
            ELSE Goto(u, "relay") /\ Forget(u) /\ UNCHANGED pool

\* run: the address to be funded is read for a warning.
AskAddress(u) ==
    /\ pc[u] = "address"
    /\ Goto(u, "relay")
    /\ UNCHANGED <<vars, file, keys, held, outbox, pool, done>>

\* run: the relay (module SyncWithBitcoin) and the delay end the round.
EndRound(u) ==
    /\ pc[u] = "relay"
    /\ Goto(u, "proposal")
    /\ UNCHANGED <<vars, file, keys, held, outbox, pool, done>>

\* Variant: the loop continues with the next round after every failed request.
ClientErrorAndContinue(u) ==
    /\ pc[u] # "relay"
    /\ Goto(u, "proposal")
    /\ Forget(u)
    /\ UNCHANGED <<vars, file, keys, pool, done>>

\* A request fails.  Without the address the loop continues with the next round.
ClientError(u) ==
    /\ pc[u] # "relay"
    /\ Goto(u, IF pc[u] = "address" THEN "proposal" ELSE "relay")
    /\ Forget(u)
    /\ UNCHANGED <<vars, file, keys, pool, done>>

\* The node broadcasts a signature, and its answer is lost.
AnswerLost(u) ==
    /\ pc[u] = "send"
    /\ ApiAccepts(u, Head(outbox[u]))
    /\ ApiSignInput(u, Head(outbox[u]))
    /\ Goto(u, "relay")
    /\ Forget(u)
    /\ UNCHANGED <<vars, file, keys, done>>

\* GenerateKeypairCommand adds a key to the file; GenerateConfigCommand makes the
\* file with the first one.
GenerateKeypair(u) ==
    /\ \E key \in Generated[u] \ file[u] : file' = [file EXCEPT ![u] = @ \cup {key}]
    /\ UNCHANGED <<vars, keys, pc, held, outbox, pool, done>>

\* RunCommand: a utility is started again and loads its file.
Run(u) ==
    /\ keys' = [keys EXCEPT ![u] = file[u]]
    /\ Goto(u, "proposal")
    /\ Forget(u)
    /\ UNCHANGED <<vars, file, pool, done>>

RoundStep(u) ==
    AskProposal(u) \/ AskConfig(u) \/ SendSignInput(u) \/ AskAddress(u) \/ EndRound(u)

-----------------------------------------------------------------------------
(***************************************************************************)
(* The service.  A call that fails is executed as well, without effect.    *)
(***************************************************************************)
\* Variant: the service stores a signature that a node has verified as it is.
CallVerified(call) ==
    IF call.method = "sign_input"
      THEN /\ IsAnchoringNode(actual, call.author)
           /\ signatures' = InsertSignature(signatures,
                               [txid |-> call.arg.txid, input |-> call.arg.input,
                                node |-> FindNodeId(actual, call.author),
                                signer |-> call.arg.signer])
           /\ UNCHANGED <<chain, spent, actual, following, confirmations, unspent,
                          core_height>>
      ELSE AddFunds(call.author, call.arg)

Call(call) ==
    IF call.method = "sign_input" THEN SignInput(call.author, call.arg)
                                  ELSE AddFunds(call.author, call.arg)

Fails(call) == ~ENABLED Call(call)

Execute(call) ==
    /\ call \in pool
    /\ pool' = pool \ {call}
    /\ done' = done \cup {call}
    /\ UNCHANGED utility
    /\ Call(call) \/ (Fails(call) /\ UNCHANGED vars)

\* The supervisor applies a configuration with keys that were generated.
Supervise(config) ==
    /\ \A n \in DOMAIN config.anchoring_keys :
          \E u \in ServiceKeys : config.anchoring_keys[n].bitcoin_key \in file[u]
    /\ ApplyConfig(config)
    /\ UNCHANGED <<utility, pool, done>>

Block == CommitBlock /\ UNCHANGED <<utility, pool, done>>

UpdaterInit ==
    /\ Init
    /\ file = [u \in ServiceKeys |->
                {actual.anchoring_keys[n].bitcoin_key : n \in NodesWithKey(actual, u)}]
    /\ keys = file
    /\ pc = [u \in ServiceKeys |-> "proposal"]
    /\ held = [u \in ServiceKeys |-> None]
    /\ outbox = [u \in ServiceKeys |-> <<>>]
    /\ pool = {}
    /\ done = {}

UpdaterNext ==
    \/ \E u \in ServiceKeys :
          \/ RoundStep(u) \/ ClientError(u) \/ AnswerLost(u)
          \/ GenerateKeypair(u) \/ Run(u)
          \/ \E funding \in FundingTxs : ApiAddFunds(u, funding)
    \/ \E call \in pool : Execute(call)
    \/ \E config \in Configs : Supervise(config)
    \/ Block

UpdaterSpec == UpdaterInit /\ [][UpdaterNext]_updaterVars

-----------------------------------------------------------------------------
\* Whatever the utilities have read before, and however old it is, a signature
\* that a node broadcasts commits to the redeem script that its transaction
\* spends, and it is the signature of the node's own key in that script.
BroadcastIsValid ==
    \A call \in pool \cup done : call.method = "sign_input" =>
        /\ call.arg.script = call.arg.txid.spends
        /\ call.arg.input \in Inputs(call.arg.txid)
        /\ \E config \in Configs :
              /\ RedeemScript(config) = call.arg.script
              /\ IsAnchoringNode(config, call.author)
              /\ call.arg.signer = FindBitcoinKey(config, call.author)

\* The Bitcoin keys of a redeem script stay with their nodes: two configurations
\* with one script give a node the same key.
KeysAreNotExchanged ==
    \A c1, c2 \in Configs, u \in ServiceKeys :
        /\ RedeemScript(c1) = RedeemScript(c2)
        /\ IsAnchoringNode(c1, u) /\ IsAnchoringNode(c2, u)
        => FindBitcoinKey(c1, u) = FindBitcoinKey(c2, u)

\* Round after round a node signs an input of a transaction with one message
\* only, so that retries after lost answers, failed requests and restarts do not
\* fill the blockchain with calls.
InputsAreSignedOnce ==
    \A c1, c2 \in pool \cup done :
        /\ c1.method = "sign_input" /\ c2.method = "sign_input"
        /\ c1.author = c2.author
        /\ c1.arg.txid = c2.arg.txid /\ c1.arg.input = c2.arg.input
        => c1 = c2
=============================================================================
