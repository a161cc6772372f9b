--------------------------- MODULE BtcTransaction ---------------------------
(***************************************************************************)
(* Funding and anchoring transactions and the anchoring transaction        *)
(* builder (src/btc/transaction.rs).                                       *)
(*                                                                         *)
(* A funding transaction is a record [id, output] with a sequence of       *)
(* outputs [script_pubkey, value].                                         *)
(*                                                                         *)
(* An unsigned anchoring transaction is the record of what its identifier  *)
(* is a hash of, and stands for its identifier as well:                    *)
(*   prev      position in the anchoring chain of the transaction whose    *)
(*             output 0 is spent, 0 if there is none;                      *)
(*   funds     the funding transaction spent, or None;                     *)
(*   spends    the output script the spent outputs pay to.  It tells apart *)
(*             two outputs of one funding transaction, so that the pair    *)
(*             (funds, spends) is an outpoint;                             *)
(*   out       the script of output 0, and value the satoshis it holds;    *)
(*   height    the anchored block of the payload in output 1.  Its hash is *)
(*             a function of the height, because blocks are final;         *)
(*   recovery  position of the transaction prev_tx_chain of the payload    *)
(*             names, 0 if there is none.                                  *)
(* The input at index 0 spends prev when there is one, and the funding     *)
(* output is the last input.                                               *)
(***************************************************************************)
EXTENDS Integers, Sequences

CONSTANTS
    FundingTxs, \* the funding transactions that operators may submit
    None,       \* an absent Option
    U64         \* the number of values of a u64

ASSUME U64Assumption == U64 \in Nat \ {0}

\* Transaction::find_out: the first output with the given script.
MatchingOuts(funding, script) ==
    {n \in DOMAIN funding.output : funding.output[n].script_pubkey = script}

PaysTo(funding, script) == MatchingOuts(funding, script) # {}

FindOut(funding, script) ==
    CHOOSE n \in MatchingOuts(funding, script) :
        \A m \in MatchingOuts(funding, script) : n <= m

FundingValue(funding, script) ==
    funding.output[FindOut(funding, script)].value

\* The indices of the inputs of an anchoring transaction.
Inputs(tx) ==
    {n \in 0..1 : n < (IF tx.prev # 0 THEN 1 ELSE 0) + (IF tx.funds # None THEN 1 ELSE 0)}

(***************************************************************************)
(* The builder.  It is a record with the fields of                         *)
(* BtcAnchoringTransactionBuilder; prev_tx is [index, value], where index  *)
(* is 0 when no previous transaction is set.                               *)
(***************************************************************************)
NoPrevTx == [index |-> 0, value |-> 0]

InputCount(builder) ==
    (IF builder.prev_tx.index # 0 THEN 1 ELSE 0)
        + (IF builder.additional_funds # None THEN 1 ELSE 0)

\* The sum of two outputs of Bitcoin, whose supply is far below the width of u64.
Balance(builder) ==
    builder.prev_tx.value
        + (IF builder.additional_funds # None
             THEN FundingValue(builder.additional_funds, builder.script_pubkey)
             ELSE 0)

(***************************************************************************)
(* Bytes of the serialized unsigned transaction: version, lock time and    *)
(* the two counts (10), the P2WSH output (43), the OP_RETURN output (59,   *)
(* or 92 with the 32 byte prev_tx_chain and the longer push opcode) and 41 *)
(* for each input.                                                         *)
(***************************************************************************)
SizeInBytes(builder) ==
    10 + 43 + (IF builder.recovery_tx # 0 THEN 92 ELSE 59) + 41 * InputCount(builder)

\* The product wraps around: a release build does not check it.
TotalFee(builder) == (builder.fee * SizeInBytes(builder)) % U64

\* Variant: the balance is not compared with the fee.
CreateOutcomeUnfunded(builder) == IF InputCount(builder) = 0 THEN "NoInputs" ELSE "Ok"

\* create: its two errors, in the order they are met, or success.
CreateOutcome(builder) ==
    IF InputCount(builder) = 0 THEN "NoInputs"
    ELSE IF TotalFee(builder) > Balance(builder) THEN "InsufficientFunds"
    ELSE "Ok"

\* create: the transaction of a successful call.
Create(builder) ==
    [prev     |-> builder.prev_tx.index,
     funds    |-> builder.additional_funds,
     spends   |-> builder.script_pubkey,
     out      |-> IF builder.transit_to # None THEN builder.transit_to
                                               ELSE builder.script_pubkey,
     value    |-> Balance(builder) - TotalFee(builder),
     height   |-> builder.payload,
     recovery |-> builder.recovery_tx]
=============================================================================
