-------------------------- MODULE AnchoringConfig --------------------------
(***************************************************************************)
(* The parameters of the anchoring service (src/config.rs) as operators on *)
(* a configuration record                                                  *)
(*                                                                         *)
(*   [network, anchoring_keys, anchoring_interval, transaction_fee]        *)
(*                                                                         *)
(* anchoring_keys is a sequence of [service_key, bitcoin_key] records: the *)
(* position of a key is its anchoring node identifier, and it also orders  *)
(* the keys in the redeem script.  Identifiers count from 1 here and from  *)
(* 0 in the code.                                                          *)
(***************************************************************************)
EXTENDS Integers, Sequences

MAX_NODES_COUNT == 20
MIN_TOTAL_TX_FEE == 1000
MIN_TX_LEN == 10 + 146 + 33 + 81
MIN_TX_FEE == MIN_TOTAL_TX_FEE \div MIN_TX_LEN + 1

\* exonum::helpers::byzantine_quorum: more than two thirds of the votes.
ByzantineQuorum(n) == (n * 2) \div 3 + 1

(***************************************************************************)
(* The redeem script is determined by the ordered public keys and the      *)
(* quorum.  The P2WSH output script is its hash, which is taken to be      *)
(* injective: two output scripts are equal iff the redeem scripts are.     *)
(* The address also encodes the Bitcoin network.                           *)
(***************************************************************************)
RedeemScript(config) ==
    [public_keys |-> [n \in DOMAIN config.anchoring_keys |->
                        config.anchoring_keys[n].bitcoin_key],
     quorum      |-> ByzantineQuorum(Len(config.anchoring_keys))]

AnchoringOutScript(config) == RedeemScript(config)

AnchoringAddress(config) == <<RedeemScript(config), config.network>>

\* find_bitcoin_key: the first anchoring node with this service key.
NodesWithKey(config, service_key) ==
    {n \in DOMAIN config.anchoring_keys :
        config.anchoring_keys[n].service_key = service_key}

IsAnchoringNode(config, service_key) == NodesWithKey(config, service_key) # {}

FindNodeId(config, service_key) ==
    CHOOSE n \in NodesWithKey(config, service_key) :
        \A m \in NodesWithKey(config, service_key) : n <= m

FindBitcoinKey(config, service_key) ==
    config.anchoring_keys[FindNodeId(config, service_key)].bitcoin_key

PreviousAnchoringHeight(config, current_height) ==
    current_height - (current_height % config.anchoring_interval)

\* Variant: one interval too far.
FollowingHeightSkips(config, current_height) ==
    PreviousAnchoringHeight(config, current_height) + 2 * config.anchoring_interval

FollowingAnchoringHeight(config, current_height) ==
    PreviousAnchoringHeight(config, current_height) + config.anchoring_interval

\* The conditions of ValidateInput::validate.  Its last one, that the redeem script
\* can be built, follows: the quorum is not greater than the number of keys.
Validate(config) ==
    /\ config.anchoring_keys # <<>>
    /\ Len(config.anchoring_keys) <= MAX_NODES_COUNT
    /\ config.anchoring_interval > 0
    /\ config.transaction_fee >= MIN_TX_FEE
=============================================================================
