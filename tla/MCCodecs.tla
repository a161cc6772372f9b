------------------------------ MODULE MCCodecs ------------------------------
(***************************************************************************)
(* Small instances of Payload and SignatureStore, side by side: the first  *)
(* step decides which of the three stores of a behaviour changes.          *)
(***************************************************************************)
EXTENDS Payload, SignatureStore

CONSTANTS
    MaxPush,     \* bound on the bytes of a push
    MaxScript,   \* bound on the instructions of a script
    MaxFields    \* bound on the fields of the parameters

\* Bytes are pushed where they are read: by the instruction after OP_RETURN.
IsSmall(instructions) ==
    /\ Len(instructions) <= MaxScript
    /\ \A i \in DOMAIN instructions : instructions[i].op = "PUSH" =>
          /\ i = 2 /\ instructions[1] = Op("OP_RETURN")
          /\ Len(instructions[i].bytes) <= MaxPush

MCPayload ==
    /\ StoreInit
    /\ PayloadNext
    /\ IsSmall(script')
    /\ UNCHANGED storeVars

\* The signatures and the parameters are stored independently of each other.
MCStore ==
    /\ PayloadInit
    /\ StoreNext
    /\ signed' = <<>> \/ params' = <<>>
    /\ Len(params') <= MaxFields
    /\ UNCHANGED payloadVars

MCInit == PayloadInit /\ StoreInit

MCNext == MCPayload \/ MCStore

MCSpec == MCInit /\ [][MCNext]_<<payloadVars, storeVars>>

-----------------------------------------------------------------------------
\* The prefix is as long as the version and the kind together.
Prefix == <<1, 2>>

TwoTxIds == {<<0>>, <<1>>}

\* The lowest byte of both is the same.
TwoInputs == {0, Byte}

\* The little-endian bytes of 1 come after those of 3.
TwoNodeIds == {1, 3}

TwoSignatures == {<<0>>, <<1>>}

TwoKeys == {[service_key |-> key, bitcoin_key |-> key] : key \in {"s1", "s2"}}

TwoFees == {MIN_TX_FEE - 1, MIN_TX_FEE}

\* Two networks; the place of the second one is the magic of the first.
TwoMagics == [bitcoin |-> 2, testnet |-> 3]
=============================================================================
