------------------------------ MODULE Payload ------------------------------
(***************************************************************************)
(* The payload of an anchoring transaction (src/btc/payload.rs): how the   *)
(* builder makes a script, and what is read from the script of output 1 of *)
(* any transaction.                                                        *)
(*                                                                         *)
(* A payload is a record [block_height, block_hash, prev_tx_chain] with a  *)
(* number, a string of bytes, and a string of bytes or None.  The fields   *)
(* of a builder that are not set are None.  A script is a sequence of      *)
(* instructions [op, bytes]; the one that the iterator makes of a push it  *)
(* refuses has the op "ERROR".                                             *)
(***************************************************************************)
EXTENDS Bytes

CONSTANTS
    PAYLOAD_PREFIX, \* "EXONUM"
    HeightLen       \* the bytes of a height: 8

VARIABLES
    builder, \* the PayloadV1Builder
    script,  \* the script of output 1
    written  \* the payload that the script was made of, or None

payloadVars == <<builder, script, written>>

PAYLOAD_HEADER_LEN == Len(PAYLOAD_PREFIX) + 2
PAYLOAD_V1 == 1
PAYLOAD_V1_KIND_REGULAR == 0
PAYLOAD_V1_KIND_RECOVER == 1

Heights == Numbers(HeightLen)
Hashes == ByteStrings(HashLen)

Payloads == [block_height : Heights, block_hash : Hashes, prev_tx_chain : Hashes \cup {None}]

ASSUME PayloadAssumption ==
    /\ PAYLOAD_PREFIX \in Seq(0..(Byte - 1))
    /\ HeightLen \in Nat
    /\ None \notin Heights /\ None \notin Hashes /\ None \notin Payloads

Instruction(op, bytes) == [op |-> op, bytes |-> bytes]
Op(op) == Instruction(op, <<>>)

-----------------------------------------------------------------------------
Kind(payload) ==
    IF payload.prev_tx_chain = None THEN PAYLOAD_V1_KIND_REGULAR ELSE PAYLOAD_V1_KIND_RECOVER

\* Variant: the kind is always regular.
WriteAsRegular(payload) ==
    <<PAYLOAD_V1_KIND_REGULAR>> \o WriteLittleEndian(payload.block_height, HeightLen)
        \o payload.block_hash
        \o (IF payload.prev_tx_chain = None THEN <<>> ELSE payload.prev_tx_chain)

\* PayloadV1::write.
Write(payload) ==
    <<Kind(payload)>> \o WriteLittleEndian(payload.block_height, HeightLen)
        \o payload.block_hash
        \o (IF payload.prev_tx_chain = None THEN <<>> ELSE payload.prev_tx_chain)

IntoScript(payload) ==
    <<Op("OP_RETURN"),
      Instruction("PUSH", PAYLOAD_PREFIX \o <<PAYLOAD_V1>> \o Write(payload))>>

\* Variant: the txid is what is left after the hash, of any length.
ReadUnmeasured(bytes) ==
    LET data == Tail(bytes)
        height == ReadLittleEndian(SubSeq(data, 1, HeightLen))
        hash == SubSeq(data, HeightLen + 1, HeightLen + HashLen)
        txid == SubSeq(data, HeightLen + HashLen + 1, Len(data))
    IN CASE bytes[1] = PAYLOAD_V1_KIND_REGULAR /\ Len(data) = HeightLen + HashLen ->
                [block_height |-> height, block_hash |-> hash, prev_tx_chain |-> None]
         [] bytes[1] = PAYLOAD_V1_KIND_RECOVER /\ Len(data) >= HeightLen + HashLen ->
                [block_height |-> height, block_hash |-> hash, prev_tx_chain |-> txid]
         [] OTHER -> None

(***************************************************************************)
(* PayloadV1::read and the conversion to a Payload.  The length is exact   *)
(* for each kind, so that the slices are in range.                         *)
(***************************************************************************)
Read(bytes) ==
    LET data == Tail(bytes)
        height == ReadLittleEndian(SubSeq(data, 1, HeightLen))
        hash == SubSeq(data, HeightLen + 1, HeightLen + HashLen)
        txid == SubSeq(data, HeightLen + HashLen + 1, Len(data))
    IN CASE bytes[1] = PAYLOAD_V1_KIND_REGULAR /\ Len(data) = HeightLen + HashLen ->
                [block_height |-> height, block_hash |-> hash, prev_tx_chain |-> None]
         [] bytes[1] = PAYLOAD_V1_KIND_RECOVER /\ Len(data) = HeightLen + 2 * HashLen ->
                [block_height |-> height, block_hash |-> hash, prev_tx_chain |-> txid]
         [] OTHER -> None

\* Variant: the version is not looked at.
HasHeaderOfAnyVersion(bytes) ==
    /\ Len(bytes) >= PAYLOAD_HEADER_LEN
    /\ SubSeq(bytes, 1, Len(PAYLOAD_PREFIX)) = PAYLOAD_PREFIX

HasHeader(bytes) ==
    /\ Len(bytes) >= PAYLOAD_HEADER_LEN
    /\ SubSeq(bytes, 1, Len(PAYLOAD_PREFIX)) = PAYLOAD_PREFIX
    /\ bytes[Len(PAYLOAD_PREFIX) + 1] = PAYLOAD_V1

\* Payload::from_script looks at the first two instructions.
FromScript(instructions) ==
    IF /\ Len(instructions) >= 2
       /\ instructions[1] = Op("OP_RETURN")
       /\ instructions[2].op = "PUSH"
       /\ HasHeader(instructions[2].bytes)
      THEN Read(SubSeq(instructions[2].bytes, PAYLOAD_HEADER_LEN, Len(instructions[2].bytes)))
      ELSE None

-----------------------------------------------------------------------------
BuilderNew == [block_height |-> None, block_hash |-> None, prev_tx_chain |-> None]

\* The setters of the builder, in any order, repeated or not.
SetField(field, value) ==
    /\ written = None /\ script = <<>>
    /\ builder' = [builder EXCEPT ![field] = value]
    /\ UNCHANGED <<script, written>>

\* into_script panics when the height or the hash is not set.
Build ==
    /\ builder.block_height # None
    /\ builder.block_hash # None
    /\ script' = IntoScript(builder)
    /\ written' = builder
    /\ builder' = BuilderNew

\* Somebody else makes a script, instruction by instruction and byte by byte.
Push(instruction) ==
    /\ builder = BuilderNew /\ written = None
    /\ script' = Append(script, instruction)
    /\ UNCHANGED <<builder, written>>

PushByte(byte) ==
    /\ script # <<>> /\ script[Len(script)].op = "PUSH" /\ written = None
    /\ script' = [script EXCEPT ![Len(script)].bytes = Append(@, byte)]
    /\ UNCHANGED <<builder, written>>

PayloadInit == builder = BuilderNew /\ script = <<>> /\ written = None

PayloadNext ==
    \/ \E height \in Heights : SetField("block_height", height)
    \/ \E hash \in Hashes : SetField("block_hash", hash)
    \/ \E txid \in Hashes \cup {None} : SetField("prev_tx_chain", txid)
    \/ Build
    \/ \E op \in {"OP_RETURN", "OTHER", "ERROR", "PUSH"} : Push(Op(op))
    \/ \E byte \in 0..(Byte - 1) : PushByte(byte)

PayloadSpec == PayloadInit /\ [][PayloadNext]_payloadVars

-----------------------------------------------------------------------------
\* Whoever made the script, reading it does not leave the bytes that were pushed,
\* and gives a payload with a height, a hash and possibly a txid, or none.
PayloadTypeOK == FromScript(script) \in Payloads \cup {None}

\* The payload that a transaction was built with is read back from its output, in
\* whichever order the builder was given its fields, at every height and of either
\* kind: the nodes that read the chain agree with the one that built it.
PayloadIsReadBack == written # None => FromScript(script) = written

\* A payload has one encoding only: a script that is accepted starts with the
\* instructions that the builder makes for the payload.
PayloadIsCanonical ==
    FromScript(script) # None =>
        SubSeq(script, 1, 2) = IntoScript(FromScript(script))
=============================================================================
