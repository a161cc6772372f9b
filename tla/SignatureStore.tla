--------------------------- MODULE SignatureStore ---------------------------
(***************************************************************************)
(* What the schema stores in bytes: the signatures of the inputs, under    *)
(* the key of TxInputId (src/blockchain/data_layout/mod.rs) and as a       *)
(* BinaryMap (src/proto/binary_map.rs), and the actual configuration as a  *)
(* protobuf message (src/proto/mod.rs).                                    *)
(*                                                                         *)
(* A protobuf message is the sequence of its fields [name, value]; one of  *)
(* several KeyValue fields only is the sequence of their values.  A        *)
(* BinaryMap is a function from anchoring node identifiers to signatures.  *)
(***************************************************************************)
EXTENDS AnchoringConfig, Bytes, FiniteSets

CONSTANTS
    InputLen,       \* the bytes of an input index: 4
    NodeIdLen,      \* the bytes of an anchoring node identifier: 2
    Magic,          \* Network::magic: a number for each network
    TxIds,          \* the identifiers of the proposals
    Inputs,         \* the indices of their inputs
    NodeIds,        \* the identifiers of the anchoring nodes
    Signatures,     \* the bytes of signatures
    NetworkNumbers, \* the numbers that are written for a network
    AnchoringKeys,  \* the keys that are written,
    Intervals,      \* the anchoring intervals
    Fees            \* and the transaction fees

ASSUME StoreAssumption ==
    /\ InputLen \in Nat /\ NodeIdLen \in Nat
    /\ TxIds \subseteq ByteStrings(HashLen)
    /\ Inputs \subseteq Numbers(InputLen)
    /\ NodeIds \subseteq Numbers(NodeIdLen)

VARIABLES
    transaction_signatures, \* from the bytes of a key to a BinaryMap message
    signed,                 \* the same, as a function from <<txid, input, node>>
    params,                 \* the message that the service is initialized with
    actual_config           \* the stored message of the configuration, or None

storeVars == <<transaction_signatures, signed, params, actual_config>>

\* The update of a map: the entry is added or replaced.
Put(map, key, value) ==
    [k \in DOMAIN map \cup {key} |-> IF k = key THEN value ELSE map[k]]

\* The elements of a finite set of numbers in their order, and the greatest one.
Rank(x, S) == Cardinality({y \in S : y <= x})

InOrder(S) == [i \in 1..Cardinality(S) |-> CHOOSE x \in S : Rank(x, S) = i]

LastOf(S) == CHOOSE x \in S : \A y \in S : y <= x

-----------------------------------------------------------------------------
\* TxInputId as a BinaryKey.
TxInputIdWrite(txid, input) == txid \o WriteLittleEndian(input, InputLen)

TxInputIdRead(bytes) ==
    <<SubSeq(bytes, 1, HashLen),
      ReadLittleEndian(SubSeq(bytes, HashLen + 1, HashLen + InputLen))>>

\* A pair of a BinaryMap: an identifier as u16 and the bytes of a signature.
KeyValue(node, signature) ==
    [key |-> WriteLittleEndian(node, NodeIdLen), value |-> signature]

\* BinaryMap::to_pb: the pairs in the order of the keys of the BTreeMap.
BinaryMapToPb(map) ==
    LET nodes == InOrder(DOMAIN map)
    IN [n \in DOMAIN nodes |-> KeyValue(nodes[n], map[nodes[n]])]

\* BinaryMap::from_pb collects the pairs: of those with one key the last one stays.
BinaryMapFromPb(pairs) ==
    LET node(n) == ReadLittleEndian(pairs[n].key)
    IN [k \in {node(n) : n \in DOMAIN pairs} |->
           pairs[LastOf({n \in DOMAIN pairs : node(n) = k})].value]

\* Schema::input_signatures: the stored map, or the default one.
InputSignatures(txid, input) ==
    LET key == TxInputIdWrite(txid, input)
    IN IF key \in DOMAIN transaction_signatures
         THEN BinaryMapFromPb(transaction_signatures[key]) ELSE <<>>

\* Variant: the signatures in the order of the bytes of the stored keys.
ValuesByBytes(map) ==
    LET bytes(node) == WriteLittleEndian(node, NodeIdLen)
        before(a, b) == \E i \in 1..NodeIdLen :
                            /\ bytes(a)[i] < bytes(b)[i]
                            /\ SubSeq(bytes(a), 1, i - 1) = SubSeq(bytes(b), 1, i - 1)
        rank(node) == Cardinality({n \in DOMAIN map : n = node \/ before(n, node)})
    IN [i \in 1..Cardinality(DOMAIN map) |-> map[CHOOSE n \in DOMAIN map : rank(n) = i]]

\* InputSignatures::values, in order by key: the witness of the input.
Values(map) ==
    LET nodes == InOrder(DOMAIN map)
    IN [n \in DOMAIN nodes |-> map[nodes[n]]]

\* Variant: the map that is put has only the new signature.
PutOnlySignature(txid, input, node, signature) ==
    /\ transaction_signatures' = Put(transaction_signatures, TxInputIdWrite(txid, input),
                                     BinaryMapToPb(Put(<<>>, node, signature)))
    /\ signed' = Put(signed, <<txid, input, node>>, signature)
    /\ UNCHANGED <<params, actual_config>>

\* sign_input reads the signatures of an input, inserts one and puts them.
PutSignature(txid, input, node, signature) ==
    /\ transaction_signatures' =
          Put(transaction_signatures, TxInputIdWrite(txid, input),
              BinaryMapToPb(Put(InputSignatures(txid, input), node, signature)))
    /\ signed' = Put(signed, <<txid, input, node>>, signature)
    /\ UNCHANGED <<params, actual_config>>

-----------------------------------------------------------------------------
\* The places of the fields of a message with this name.
Places(message, name) == {n \in DOMAIN message : message[n].name = name}

\* A repeated field is read as its values, in their order.
ValuesOf(message, name) ==
    LET places == InOrder(Places(message, name))
    IN [n \in DOMAIN places |-> message[places[n]].value]

\* A scalar is read as its last value, or 0 when it is absent.
Scalar(message, name) ==
    LET places == Places(message, name)
    IN IF places = {} THEN 0 ELSE message[LastOf(places)].value

ScalarField(name, value) == IF value = 0 THEN <<>> ELSE <<[name |-> name, value |-> value]>>

\* Variant: the number of the network is its place among the networks.
ConfigToPbByPlace(c) ==
    ScalarField("network", Cardinality({n \in DOMAIN Magic : Magic[n] <= Magic[c.network]}))
        \o [n \in DOMAIN c.anchoring_keys |->
               [name |-> "anchoring_keys", value |-> c.anchoring_keys[n]]]
        \o ScalarField("anchoring_interval", c.anchoring_interval)
        \o ScalarField("transaction_fee", c.transaction_fee)

\* Config::to_pb, written in the order of the fields.
ConfigToPb(c) ==
    ScalarField("network", Magic[c.network])
        \o [n \in DOMAIN c.anchoring_keys |->
               [name |-> "anchoring_keys", value |-> c.anchoring_keys[n]]]
        \o ScalarField("anchoring_interval", c.anchoring_interval)
        \o ScalarField("transaction_fee", c.transaction_fee)

\* Config::from_pb: a number that is not the magic of a network is an error.
ConfigFromPb(message) ==
    LET networks == {n \in DOMAIN Magic : Magic[n] = Scalar(message, "network")}
    IN IF networks = {}
         THEN None
         ELSE [network            |-> CHOOSE n \in networks : TRUE,
               anchoring_keys     |-> ValuesOf(message, "anchoring_keys"),
               anchoring_interval |-> Scalar(message, "anchoring_interval"),
               transaction_fee    |-> Scalar(message, "transaction_fee")]

\* Somebody writes the parameters of the service, field by field.
WriteParam(name, value) ==
    /\ actual_config = None
    /\ params' = Append(params, [name |-> name, value |-> value])
    /\ UNCHANGED <<transaction_signatures, signed, actual_config>>

\* Service::initialize: the parameters are decoded, validated and stored.
Initialize ==
    LET config == ConfigFromPb(params)
    IN /\ actual_config = None
       /\ config # None
       /\ Validate(config)
       /\ actual_config' = ConfigToPb(config)
       /\ UNCHANGED <<transaction_signatures, signed, params>>

StoreInit ==
    /\ transaction_signatures = <<>> /\ signed = <<>>
    /\ params = <<>> /\ actual_config = None

StoreNext ==
    \/ \E txid \in TxIds, input \in Inputs, node \in NodeIds, signature \in Signatures :
          PutSignature(txid, input, node, signature)
    \/ \E number \in NetworkNumbers : WriteParam("network", number)
    \/ \E key \in AnchoringKeys : WriteParam("anchoring_keys", key)
    \/ \E interval \in Intervals : WriteParam("anchoring_interval", interval)
    \/ \E fee \in Fees : WriteParam("transaction_fee", fee)
    \/ Initialize

StoreSpec == StoreInit /\ [][StoreNext]_storeVars

-----------------------------------------------------------------------------
\* The signatures read for any input are those that the nodes sent for it, and the
\* keys of the store are those of the inputs: no put under the key of an input, its
\* bytes being a fixed layout of an identifier and an index, hides or changes a
\* signature of another input or of another node.
SignaturesAreKept ==
    /\ {TxInputIdRead(key) : key \in DOMAIN transaction_signatures}
         = {<<s[1], s[2]>> : s \in DOMAIN signed}
    /\ \A s \in DOMAIN signed :
          /\ DOMAIN InputSignatures(s[1], s[2])
               = {t[3] : t \in {u \in DOMAIN signed : u[1] = s[1] /\ u[2] = s[2]}}
          /\ InputSignatures(s[1], s[2])[s[3]] = signed[s]

\* The witness of an input has the signatures in the order of the anchoring nodes,
\* which is that of the keys in the redeem script, although the identifiers are
\* stored as little-endian bytes and the nodes sign in any order.
WitnessIsInNodeOrder ==
    \A s, t \in DOMAIN signed :
        s[1] = t[1] /\ s[2] = t[2] /\ s[3] < t[3] =>
            LET witness == Values(InputSignatures(s[1], s[2]))
                place(u) == Cardinality({v \in DOMAIN signed :
                                            v[1] = u[1] /\ v[2] = u[2] /\ v[3] <= u[3]})
            IN witness[place(s)] = signed[s] /\ witness[place(t)] = signed[t]

\* The configuration that every node reads from its storage is the one that was
\* given: with the same network and address, its keys in the same order, and valid,
\* in whichever order and however often the fields were written.
ConfigIsKept ==
    actual_config # None =>
        /\ ConfigFromPb(actual_config) = ConfigFromPb(params)
        /\ Validate(ConfigFromPb(actual_config))
=============================================================================
