---------------------------- MODULE BtcAnchoring ----------------------------
(***************************************************************************)
(* The anchoring service as a replicated state machine: the schema         *)
(* (src/blockchain/schema.rs), the transactions sign_input and add_funds   *)
(* (src/blockchain/transactions.rs), and the configuration hooks           *)
(* (src/service.rs).  Exonum executes calls one after another and rolls    *)
(* back a call that returns an error or panics, so each call is one        *)
(* action, and a call that fails or changes nothing is a stuttering step.  *)
(***************************************************************************)
EXTENDS AnchoringConfig, BtcTransaction, FiniteSets

CONSTANTS
    Configs,     \* the configurations that the supervisor may apply
    ServiceKeys, \* service keys of the callers
    BitcoinKeys  \* Bitcoin public keys of the anchoring nodes

VARIABLES
    chain,         \* transactions_chain
    spent,         \* spent_funding_transactions
    signatures,    \* transaction_signatures: a set of [txid, input, node, signer]
    actual,        \* actual_config
    following,     \* following_config, or None
    confirmations, \* unconfirmed_funding_transactions: the keys that voted
    unspent,       \* unspent_funding_transaction, or None
    core_height    \* height of the last committed block of the Exonum blockchain

vars == <<chain, spent, signatures, actual, following, confirmations, unspent,
          core_height>>

AnchoringKeys == [service_key : ServiceKeys, bitcoin_key : BitcoinKeys]

Scripts == {AnchoringOutScript(config) : config \in Configs}

\* Every configuration is validated before it is applied.
ASSUME ConfigsAssumption ==
    /\ Configs \subseteq [network            : STRING,
                          anchoring_keys     : Seq(AnchoringKeys),
                          anchoring_interval : Nat,
                          transaction_fee    : Nat]
    /\ \A config \in Configs : Validate(config)

ASSUME FundingAssumption ==
    \A funding \in FundingTxs :
        funding.output \in Seq([script_pubkey : Scripts, value : Nat])

ASSUME NoneAssumption == None \notin Configs \cup FundingTxs \cup Scripts

Txs == [prev : Nat, funds : FundingTxs \cup {None}, spends : Scripts, out : Scripts,
        value : Nat, height : Nat, recovery : Nat]

InputSignatures == [txid : Txs, input : {0, 1}, node : Nat, signer : BitcoinKeys]

TypeOK ==
    /\ chain \in Seq(Txs)
    /\ spent \in SUBSET FundingTxs
    /\ signatures \in SUBSET InputSignatures
    /\ actual \in Configs
    /\ following \in Configs \cup {None}
    /\ confirmations \in [FundingTxs -> SUBSET BitcoinKeys]
    /\ unspent \in FundingTxs \cup {None}
    /\ core_height \in Nat

-----------------------------------------------------------------------------
(***************************************************************************)
(* The state of anchoring and the proposal of the next transaction.        *)
(***************************************************************************)
LastTx == chain[Len(chain)]

\* BtcAnchoringState::Transition rather than Regular.
IsTransition ==
    /\ following # None
    /\ RedeemScript(actual) # RedeemScript(following)

ScriptPubkey ==
    IF IsTransition THEN AnchoringOutScript(following) ELSE AnchoringOutScript(actual)

\* Variant: a transition takes the next height like a regular transaction.
AnchoringHeightInTransition ==
    IF chain = <<>> THEN 0 ELSE FollowingAnchoringHeight(actual, LastTx.height)

\* following_anchoring_height of the latest anchored height.
AnchoringHeight ==
    IF chain = <<>> THEN 0
    ELSE IF IsTransition THEN LastTx.height
    ELSE FollowingAnchoringHeight(actual, LastTx.height)

\* builder.prev_tx refuses the last transaction of the chain.
IsBroken == chain # <<>> /\ LastTx.out # AnchoringOutScript(actual)

\* The chain has left the address of the actual configuration already.
IsWaiting == chain # <<>> /\ IsTransition /\ LastTx.out = ScriptPubkey

\* Variant: the builder is never told about the transition.
BuilderWithoutTransit ==
    [script_pubkey    |-> AnchoringOutScript(actual),
     transit_to       |-> None,
     prev_tx          |-> IF chain # <<>> /\ ~IsBroken
                            THEN [index |-> Len(chain), value |-> LastTx.value]
                            ELSE NoPrevTx,
     recovery_tx      |-> IF IsBroken THEN Len(chain) ELSE 0,
     additional_funds |-> unspent,
     payload          |-> AnchoringHeight,
     fee              |-> actual.transaction_fee]

Builder ==
    [script_pubkey    |-> AnchoringOutScript(actual),
     transit_to       |-> IF chain # <<>> /\ IsTransition THEN ScriptPubkey ELSE None,
     prev_tx          |-> IF chain # <<>> /\ ~IsBroken
                            THEN [index |-> Len(chain), value |-> LastTx.value]
                            ELSE NoPrevTx,
     recovery_tx      |-> IF IsBroken THEN Len(chain) ELSE 0,
     additional_funds |-> unspent,
     payload          |-> AnchoringHeight,
     fee              |-> actual.transaction_fee]

(***************************************************************************)
(* proposed_anchoring_transaction: "None", an error of the builder, or     *)
(* "Ok", tested in the order of the early returns.                         *)
(***************************************************************************)
ProposalState ==
    IF IsWaiting THEN "None"
    ELSE IF IsBroken /\ unspent = None THEN "UnsuitableOutput"
    ELSE IF unspent # None /\ ~PaysTo(unspent, AnchoringOutScript(actual))
      THEN "UnsuitableFundingTx"
    ELSE IF AnchoringHeight > core_height THEN "None"
    ELSE CreateOutcome(Builder)

Proposal == Create(Builder)

-----------------------------------------------------------------------------
(***************************************************************************)
(* SignInput.  The argument is [txid, input, signer, script]: the input of *)
(* txid it signs, the key it was signed with and the redeem script that    *)
(* the signature commits to.                                               *)
(***************************************************************************)
SignaturesOf(sigs, txid, input) == {s \in sigs : s.txid = txid /\ s.input = input}

\* Variant: the signatures are keyed by the input without the transaction.
InsertSignatureByInput(sigs, new) ==
    {s \in sigs : ~(s.input = new.input /\ s.node = new.node)} \cup {new}

\* InputSignatures::insert: a node's new signature replaces its old one.
InsertSignature(sigs, new) ==
    {s \in sigs : ~(s.txid = new.txid /\ s.input = new.input /\ s.node = new.node)}
        \cup {new}

VerifySignature(arg, public_key) ==
    /\ arg.input \in Inputs(arg.txid)
    /\ arg.signer = public_key
    /\ arg.script = RedeemScript(actual)

HasQuorum(sigs, txid, input) ==
    Cardinality(SignaturesOf(sigs, txid, input)) = RedeemScript(actual).quorum

\* Variant: the funding transaction is not removed once it is used.
PushKeepsFunding(tx) ==
    /\ following # None => AnchoringOutScript(following) = tx.out
    /\ spent' = spent \cup ({unspent} \ {None})
    /\ actual' = IF following # None THEN following ELSE actual
    /\ following' = None
    /\ chain' = Append(chain, tx)
    /\ UNCHANGED unspent

(***************************************************************************)
(* push_anchoring_transaction.  The assert_eq! on the output script panics *)
(* and rolls the call back, so that it is a guard.                         *)
(***************************************************************************)
PushAnchoringTransaction(tx) ==
    /\ following # None => AnchoringOutScript(following) = tx.out
    /\ spent' = spent \cup ({unspent} \ {None})
    /\ unspent' = None
    /\ actual' = IF following # None THEN following ELSE actual
    /\ following' = None
    /\ chain' = Append(chain, tx)

\* Variant: only the input that was signed last is looked at.
IsCompleteForInput(txid, before, sigs) == before + 1 = RedeemScript(actual).quorum

\* Variant: the number of signatures before the insertion is compared.
IsCompleteBefore(txid, before, sigs) ==
    /\ before = RedeemScript(actual).quorum
    /\ \A input \in Inputs(txid) : HasQuorum(sigs, txid, input)

(***************************************************************************)
(* sign_input finalizes the proposal.  The length of the changed map is    *)
(* not read again: it is taken to be one more than before the insertion.   *)
(***************************************************************************)
IsComplete(txid, before, sigs) ==
    /\ before + 1 = RedeemScript(actual).quorum
    /\ \A input \in Inputs(txid) : HasQuorum(sigs, txid, input)

SignInput(author, arg) ==
    /\ IsAnchoringNode(actual, author)
    /\ ProposalState = "Ok"
    /\ arg.txid = Proposal
    /\ VerifySignature(arg, FindBitcoinKey(actual, author))
    /\ LET before == Cardinality(SignaturesOf(signatures, arg.txid, arg.input))
           signature == [txid |-> arg.txid, input |-> arg.input,
                         node |-> FindNodeId(actual, author), signer |-> arg.signer]
       IN /\ before < RedeemScript(actual).quorum
          /\ signatures' = InsertSignature(signatures, signature)
          /\ IF IsComplete(arg.txid, before, signatures')
               THEN PushAnchoringTransaction(arg.txid)
               ELSE UNCHANGED <<chain, spent, actual, following, unspent>>
    /\ UNCHANGED <<confirmations, core_height>>

\* Variant: two thirds of the nodes are enough.
HasEnoughConfirmationsTwoThirds(keys) ==
    Cardinality(keys) >= (Len(actual.anchoring_keys) * 2) \div 3

(***************************************************************************)
(* AddFunds: a vote for a funding transaction, which becomes the unspent   *)
(* one, in place of an earlier one if there is any, with the vote that     *)
(* completes the quorum.                                                   *)
(***************************************************************************)
HasEnoughConfirmations(keys) ==
    Cardinality(keys) = ByzantineQuorum(Len(actual.anchoring_keys))

\* Variant: it is not looked up whether the funding transaction was spent.
AddFundsAgain(author, funding) ==
    /\ IsAnchoringNode(actual, author)
    /\ PaysTo(funding, AnchoringOutScript(actual))
    /\ LET confirmed == confirmations[funding] \cup {FindBitcoinKey(actual, author)}
       IN IF HasEnoughConfirmations(confirmed)
            THEN /\ confirmations' = [confirmations EXCEPT ![funding] = {}]
                 /\ unspent' = funding
            ELSE /\ confirmations' = [confirmations EXCEPT ![funding] = confirmed]
                 /\ UNCHANGED unspent
    /\ UNCHANGED <<chain, spent, signatures, actual, following, core_height>>

AddFunds(author, funding) ==
    /\ IsAnchoringNode(actual, author)
    /\ PaysTo(funding, AnchoringOutScript(actual))
    /\ funding \notin spent
    /\ LET confirmed == confirmations[funding] \cup {FindBitcoinKey(actual, author)}
       IN IF HasEnoughConfirmations(confirmed)
            THEN /\ confirmations' = [confirmations EXCEPT ![funding] = {}]
                 /\ unspent' = funding
            ELSE /\ confirmations' = [confirmations EXCEPT ![funding] = confirmed]
                 /\ UNCHANGED unspent
    /\ UNCHANGED <<chain, spent, signatures, actual, following, core_height>>

\* Variant: every configuration becomes the actual one at once.
ApplyConfigAtOnce(config) ==
    /\ actual' = config
    /\ UNCHANGED <<chain, spent, signatures, following, confirmations, unspent, core_height>>

\* The supervisor applies a configuration it has verified.
ApplyConfig(config) ==
    /\ IF AnchoringAddress(actual) = AnchoringAddress(config)
         THEN actual' = config /\ UNCHANGED following
         ELSE following' = config /\ UNCHANGED actual
    /\ UNCHANGED <<chain, spent, signatures, confirmations, unspent, core_height>>

\* The Exonum blockchain commits a block.
CommitBlock ==
    /\ core_height' = core_height + 1
    /\ UNCHANGED <<chain, spent, signatures, actual, following, confirmations, unspent>>

-----------------------------------------------------------------------------
\* initialize stores the configuration that the service is started with.
Init ==
    /\ chain = <<>>
    /\ spent = {}
    /\ signatures = {}
    /\ actual \in Configs
    /\ following = None
    /\ confirmations = [funding \in FundingTxs |-> {}]
    /\ unspent = None
    /\ core_height = 0

(***************************************************************************)
(* The SignInput messages that can pass the checks of sign_input: one with *)
(* another txid or script changes nothing.                                 *)
(***************************************************************************)
SignInputs ==
    {[txid |-> proposal, input |-> input, signer |-> signer, script |-> RedeemScript(actual)] :
        proposal \in IF ProposalState = "Ok" THEN {Proposal} ELSE {},
        input \in {0, 1}, signer \in BitcoinKeys}

Next ==
    \/ \E author \in ServiceKeys : \E arg \in SignInputs : SignInput(author, arg)
    \/ \E author \in ServiceKeys, funding \in FundingTxs : AddFunds(author, funding)
    \/ \E config \in Configs : ApplyConfig(config)
    \/ CommitBlock

Spec == Init /\ [][Next]_vars

-----------------------------------------------------------------------------
(***************************************************************************)
(* Invariants.                                                             *)
(***************************************************************************)
\* The last anchoring transaction pays to the actual configuration, so that
\* builder.prev_tx never refuses it and the chain never needs a recovery,
\* however configurations are applied while a transition is under way.
ChainIsSpendable == chain # <<>> => LastTx.out = AnchoringOutScript(actual)

\* The funding transaction kept for the next proposal pays to the actual
\* address and was not used before, so that builder.additional_funds accepts it
\* also after the configuration has changed.
FundingIsSpendable ==
    unspent # None => /\ unspent \notin spent
                      /\ PaysTo(unspent, AnchoringOutScript(actual))

\* Every output is spent once: a transaction spends the output of its
\* predecessor, a funding transaction is an input of at most one anchoring
\* transaction, and spent_funding_transactions lists exactly those inputs.
OutputsAreSpentOnce ==
    /\ \A i \in DOMAIN chain :
          /\ chain[i].prev = i - 1
          /\ i > 1 => chain[i].spends = chain[i - 1].out
          /\ \A j \in DOMAIN chain :
                chain[i].funds = chain[j].funds /\ chain[i].funds # None => i = j
    /\ spent = {chain[i].funds : i \in DOMAIN chain} \ {None}

\* sign_input finalizes a transaction only with a valid witness: each input has
\* as many signatures as the redeem script it spends requires, from distinct
\* positions of the script, each made with the key at that position, although
\* nodes sign concurrently and the signatures of abandoned proposals are kept.
WitnessesAreComplete ==
    \A i \in DOMAIN chain : \A input \in Inputs(chain[i]) :
        LET sigs == SignaturesOf(signatures, chain[i], input)
            script == chain[i].spends
        IN /\ Cardinality({s.node : s \in sigs}) = script.quorum
           /\ Cardinality(sigs) = script.quorum
           /\ \A s \in sigs : /\ s.node \in DOMAIN script.public_keys
                              /\ s.signer = script.public_keys[s.node]

\* A proposal that waits for signatures never has a quorum on every input:
\* sign_input ignores further signatures of such an input, so that nothing would
\* finalize the proposal any more.
ProposalIsNotStalled ==
    ProposalState = "Ok" =>
        \E input \in Inputs(Proposal) : ~HasQuorum(signatures, Proposal, input)

\* Only committed blocks are anchored, each at most once under one address: the
\* height grows with every regular transaction, and only the transition to
\* another address repeats it.
HeightsAdvance ==
    \A i \in DOMAIN chain :
        /\ chain[i].height <= core_height
        /\ i > 1 => IF chain[i].out = chain[i].spends
                      THEN chain[i - 1].height < chain[i].height
                      ELSE chain[i - 1].height = chain[i].height

\* The assertion of push_anchoring_transaction: while a following configuration
\* is stored, the transaction that sign_input finalizes pays to its address.
OutputIsWellFormed ==
    ProposalState = "Ok" /\ following # None =>
        Proposal.out = AnchoringOutScript(following)

\* The assertion cannot fail once the anchoring chain is established.
EstablishedOutputIsWellFormed == chain # <<>> => OutputIsWellFormed

(***************************************************************************)
(* Action properties.                                                      *)
(***************************************************************************)
\* The address of the actual configuration changes only together with a
\* transaction that moves the anchoring funds there, in the same call.
AddressChangesWithFunds ==
    [][RedeemScript(actual') # RedeemScript(actual) =>
         /\ Len(chain') = Len(chain) + 1
         /\ chain'[Len(chain')].spends = AnchoringOutScript(actual)
         /\ chain'[Len(chain')].out = AnchoringOutScript(actual')]_vars

\* Finalized transactions stay: neither the chain nor the signatures of its
\* transactions change when late or repeated signatures arrive.
ChainIsFinal ==
    [][\A i \in DOMAIN chain :
         /\ i \in DOMAIN chain' /\ chain'[i] = chain[i]
         /\ \A input \in {0, 1} : SignaturesOf(signatures', chain[i], input)
                                    = SignaturesOf(signatures, chain[i], input)]_vars

\* A regular transaction anchors the next multiple of the interval in force: no
\* height that must be anchored is skipped, also after the interval has changed.
NoHeightIsSkipped ==
    [][Len(chain') > Len(chain) /\ chain # <<>> =>
         LET tx == chain'[Len(chain')] IN
         tx.out = tx.spends =>
           /\ tx.height % actual.anchoring_interval = 0
           /\ \A h \in (LastTx.height + 1)..(tx.height - 1) :
                h % actual.anchoring_interval # 0]_vars

\* add_funds applies a funding transaction only with the votes of as many different
\* keys as 2/3+1 of the actual nodes, and each of them is a key of an address that
\* the transaction pays to: a vote that was stored before the configuration changed
\* never comes from a node that could not sign for a part of the funds.
FundsAreApproved ==
    [][unspent' # unspent /\ unspent' # None =>
         \E author \in ServiceKeys :
            /\ IsAnchoringNode(actual, author)
            /\ LET votes == confirmations[unspent'] \cup {FindBitcoinKey(actual, author)} IN
               /\ Cardinality(votes) >= ByzantineQuorum(Len(actual.anchoring_keys))
               /\ \A key \in votes : \E script \in Scripts :
                     /\ PaysTo(unspent', script)
                     /\ \E n \in DOMAIN script.public_keys : script.public_keys[n] = key]_vars

\* add_funds applies a funding transaction only when 2/3+1 of the anchoring
\* nodes of the actual configuration have sent it.
FundsAreApprovedByActualNodes ==
    [][unspent' # unspent /\ unspent' # None =>
         \E author \in ServiceKeys :
            /\ IsAnchoringNode(actual, author)
            /\ Cardinality({key.bitcoin_key : key \in
                  {actual.anchoring_keys[n] : n \in DOMAIN actual.anchoring_keys}}
                    \cap (confirmations[unspent'] \cup {FindBitcoinKey(actual, author)}))
                 >= ByzantineQuorum(Len(actual.anchoring_keys))]_vars

(***************************************************************************)
(* Refinement.  The service implements the abstract log: the last address  *)
(* is the one of the actual configuration.                                 *)
(***************************************************************************)
Log == INSTANCE AnchoringLog
         WITH log <- chain, address <- AnchoringOutScript(actual), used <- spent,
              committed <- core_height, Addresses <- Scripts, Deposit <- FundingValue

\* Seen from Bitcoin, the calls of the service are steps of the log or invisible:
\* every transaction spends its predecessor, pays to the address that is in force
\* after the call, uses each funding transaction once and creates no money, the
\* heights grow, and the address changes only in a step that moves the funds.
ImplementsLog == Log!LogSpec
=============================================================================
