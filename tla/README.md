# A verification of exonum-btc-anchoring

The anchoring service writes hashes of Exonum blocks into Bitcoin transactions.
Each anchoring transaction spends the output of the previous one, from a
multisignature address of the anchoring nodes, so that the transactions form a
chain. This directory models the service and its sync utility in TLA+, checks
small instances with TLC and proves the main invariants with TLAPS.

Source paths below are relative to the repository.

## The system

| Part | Source | State | Operations |
|---|---|---|---|
| Configuration | `src/config.rs` | – (values) | quorum, redeem script, address, anchored heights, `validate` |
| Transaction builder | `src/btc/transaction.rs` | – (values) | `prev_tx`, `additional_funds`, `transit_to`, `recover`, `create` |
| Schema and state | `src/blockchain/schema.rs`, `mod.rs` | chain, spent and unspent funding, signatures, votes, two configurations | proposal, push, set funding |
| Transactions | `src/blockchain/transactions.rs` | the schema | `sign_input`, `add_funds` |
| Hooks | `src/service.rs` | the two configurations | `initialize`, `verify_config`, `apply_config` |
| Public and private API | `src/api.rs` | – (snapshots) | `find_transaction`, addresses, proposal, `sign_input`, `add_funds`, chain access |
| Chain updater | `src/sync/mod.rs` | key pool | reads the proposal, then the configuration, sends a signature for each input |
| Bitcoin sync | `src/sync/mod.rs`, `bitcoin_relay.rs` | index of the latest sent transaction | finds and sends the first uncommitted transaction |
| Sync utility | `examples/btc_anchoring_sync.rs` | key pool in a file, the index in memory | generates keys, runs the two tasks every five seconds |
| Payload | `src/btc/payload.rs` | – (values) | encodes and parses the `OP_RETURN` output |
| Stored bytes | `src/blockchain/data_layout`, `src/proto` | entries of the indexes | key of an input, map of signatures, configuration as messages |
| Bitcoin types | `src/btc/mod.rs`, `macros.rs` | – | wrappers and hex |

The utilities of the nodes read the proposal from their nodes and broadcast
`SignInput` calls; Exonum orders the calls and executes them one at a time; the
call that completes a quorum on every input pushes the transaction to the chain;
the relays of all utilities push the chain to Bitcoin. The supervisor changes
the configuration and operators vote for funding transactions at any moment in
between.

What makes it hard: the proposal is recomputed from the state and changes under
the nodes that sign it; a proposal has two inputs when there are new funds, with
a quorum of signatures for each; the configuration changes in two ways (in
place, or by a transition of the funds to another address); several relays
without shared state push one chain, through requests that fail, to a network
that drops transactions. `PROJECT.json` lists these hazards line by line.

## The modules

**AnchoringConfig** has the operators of `Config` on a record. A redeem script
is the sequence of public keys with the quorum. The P2WSH hash is taken to be
injective, so that the output script is the redeem script itself; the address
adds the network.

**BtcTransaction** has the builder. An unsigned anchoring transaction is the
record of what its id is a hash of, so that it serves as its own id. Previous
transactions are positions of the chain; the anchored block hash is a function
of the height. Fee and balance are computed, with the size in bytes; the product
of the fee per byte and the size wraps at `U64`, as it does in a release build.

**BtcAnchoring** is the core. Its variables are the indexes of `Schema`:

| Variable | Index |
|---|---|
| `chain` | `transactions_chain` |
| `spent`, `unspent` | `spent_funding_transactions`, `unspent_funding_transaction` |
| `signatures` | `transaction_signatures`, as a set of records |
| `actual`, `following` | `actual_config`, `following_config` |
| `confirmations` | `unconfirmed_funding_transactions` |
| `core_height` | the height of the Exonum blockchain (external) |

`SignInput`, `AddFunds` and `ApplyConfig` are the whole handlers. Exonum rolls a
call back that returns an error or panics, so that errors and failed assertions
are guards. `Builder` and `ProposalState` follow
`proposed_anchoring_transaction` with its early returns, the recovery of a
broken chain included. `SignInputs` leaves out messages with another
transaction id or redeem script, which change nothing.

**MCBtcAnchoring** instantiates it.

**AnchoringLog** is the abstract specification: what somebody who follows the
anchoring chain on Bitcoin relies on, without proposals, votes, signatures and
configurations. The log grows by an entry that anchors a higher committed block
at the same address, or that moves the funds to another address with the height
of the last one. An entry spends what is held at the address and possibly a
funding transaction that was not used before, and leaves at most that much.
`BtcAnchoring` has the instance `Log` with the refinement mapping (`log` is
`chain`, `address` the output script of `actual`, `used` is `spent`, `committed`
is `core_height`) and the property `ImplementsLog`.

**ChainUpdater** extends `BtcAnchoring` with the utilities that sign and the
private API between them and the service. A utility has a key file, the pool it
has loaded from it, the request it makes next (`pc`), the proposal it has read
(`held`) and the messages it has still to send (`outbox`). Each request is a
step, so that proposal, configuration and verification see different states.
A node broadcasts what it has verified into `pool`; Exonum executes the calls of
the pool later, in any order, each once: `done` has the executed ones, and an
equal message is not executed again. A call that fails is executed without
effect. Failures are a request that fails, an answer that is lost after the
broadcast, and a restart. `UpdaterSpec` composes all this with the supervisor and
the blocks; `Spec` of `BtcAnchoring` is one of its properties.
**MCChainUpdater** has the instances and the fairness.

**Payload** has the builder and the reader of the payload of an anchoring
transaction on strings of bytes (**Bytes**). The script is built by the builder,
whose setters come in any order, or by somebody else byte by byte. The integers
of `Bytes` are recursive functions on the bytes that are left, so that they can be
reasoned about.

**SignatureStore** has the entries of the schema as they are stored: the
signatures of an input under the bytes of its `TxInputId`, as a `BinaryMap` in
protobuf pairs, and the configuration as a protobuf message that the service is
initialized with. The variable `signed` is the map that the entries stand for.
What a `BTreeMap` iterates over is `InOrder` of its keys; a repeated field is read
from its places in the message in their order, and a scalar from its last place.
**MCCodecs** runs both modules side by side.

**FindTransaction** is the binary search of the API call, one step per iteration
of its loop, with **MCFindTransaction** for its instances.

**SyncWithBitcoin** has several relays. A step is a request, to the anchoring
node or to bitcoind, so that everything else interleaves at every `await`.
`pc` is the request that comes next: `count`, `tail`, `scan`, `funding` and
`send` follow `process` and `find_first_uncommitted_transaction`; `idle` is the
loop of the utility between two calls and `stopped` its exit. Failures are
actions: an RPC error (`RpcError`), an error before or after a transaction was
accepted and a restart (`Loss`), and a memory pool that drops a transaction
(`Eviction`). `Spec` has them all, `KeepingSpec` no evictions.
**MCSyncWithBitcoin** lets each kind of failure happen once.

bitcoind is external. It accepts a transaction whose input it knows, also when
the transaction is in the memory pool already, and rejects one that is in a
block. Funding inputs other than the initial one are assumed to be known to it.

**BtcAnchoringProofs**, **AnchoringLogProofs**, **ChainUpdaterProofs**,
**FindTransactionProofs**, **SyncWithBitcoinProofs**, **BytesProofs**,
**PayloadProofs** and **SignatureStoreProofs** have the theorems.

A definition under a comment "Variant:" is a faulty form of the definition after
it. No specification uses it; it stands for a plausible bug that a property must
notice.

## What the runs show

| Run | Instance | Result |
|---|---|---|
| `transition` | two nodes of three keys, two funding transactions, one of them with outputs for the old and the new address, two configurations out of old keys, new keys, old keys on another network with a fee that wraps, old Bitcoin keys with another interval, fee and service key; height 2 | the safety properties of the core hold, and it implements the log |
| `four_nodes` | quorum 3 of 4, two funding transactions | different quorums on the two inputs, late signatures |
| `updater` | two nodes with utilities, one of which leaves while the other replaces its key; any number of failed requests and lost answers, a crash; two funding transactions, height 1 | nodes broadcast only correct signatures, and one message for an input; the composition takes steps of the service only; the chain catches up once the failures have ended; with a chain to relay the relay is reached again and again, even if they never end |
| `codecs` | bytes of three values, heights of two bytes, hashes of one; scripts of three instructions with up to nine bytes; two proposals, two inputs, two nodes, two signatures; messages of up to five fields | what is written is read back, and only that; a witness is in the order of the nodes |
| `find_transaction` | chains up to 6, heights up to 4 with repetitions, queries below, in and above | the search ends with the closest transaction |
| `sync_relays` | two relays, three transactions, one failure of each kind | relays ask for existing transactions, their index stands for a known prefix and advances by one, and what they send spends something known |
| `sync_progress` | a relay that goes on and one that may stop, three transactions, one failure of each kind, the eviction of any number of transactions included | the chain gets into Bitcoin blocks, unless the utility has exited or its index is out of step for ever in one of two ways |

The bounds are enough for the cases meant: two configurations after the first
suffice to begin a transition and to change or revert it half way; height 2
has regular transactions before and after a transition, and an odd height when the
interval becomes 2; the first funds are enough for two transactions, so that they
also run out; two funding transactions give a proposal with two inputs and the
replacement of funds during its signing; with `U64 = 4096` the product of the
fee 27 and the size of the smallest transaction is above the bound, and the other
fees are below; requests of the updater fail at any time and for ever, and a
crash leads to no state that a failed request and the end of the round do not lead
to, so that one is enough;
three transactions are a committed one, one in the memory pool and one not sent.
The lengths of the codecs are short, but all different boundaries occur: nine
bytes are one more than the longest payload; nodes 1 and 3 have little-endian
bytes in the opposite order.

`FundsAreApproved` says what is true of the votes for funds: they are as many as
the quorum of the configuration in force, and each was given with a key of an address
that the funds are paid to. That they are votes of the actual nodes is false
(`stale_votes`). `InputsAreSignedOnce` holds in `updater`, where no two configurations
with one redeem script give a node two different keys (`KeysAreNotExchanged`).

`RelayIsReached` is about the loop of the utility, which continues past the relay
when there are no initial funds and the request for the address fails
(`examples/btc_anchoring_sync.rs:321`), however often. Then there is no chain to relay
yet. As soon as there is one, no failure of the chain updater keeps the utility from
the relay.

`SyncStallsOnlyOutOfStep` is what is left of the progress of a relay: `SyncCompletes`
is false (`sync_behind`). A relay that is not out of step gets the chain through,
after lost requests, restarts, RPC errors and the eviction of one transaction. It is
out of step for ever when the transaction after its index is in a block (`IsBehind`),
or when the one at its index was dropped with the one before (`IsDropped`).

`FoundIsClosest` says nothing of a height above the last anchored one: the call
then returns the last transaction, which a test expects (`tests/api.rs:170`) and
the documentation of the call (`src/api.rs:138`) does not say.

Five runs show a disagreement of the code with its own text:

- `early_config`: a configuration with other keys that is applied before the
  first anchoring transaction makes the assertion of
  `push_anchoring_transaction` fail with the last signature, each time. The
  builder learns of a transition only when the chain has a transaction
  (`src/blockchain/schema.rs:117`); the assertion always looks at the following
  configuration (`:206`). Nothing removes the following configuration, except
  one with the script of the actual one.
- `stale_votes`: votes given under an earlier configuration count for a funding
  transaction that also pays to the new address
  (`src/blockchain/transactions.rs:83`; documented at `:99`).
- `sync_behind`: bitcoind accepts a transaction and the answer is lost. The relay
  keeps its index; once a block contains the transaction, bitcoind rejects it, and the
  relay sends it in every round (`src/sync/mod.rs:254`), until it is restarted. The same
  happens when another relay has sent the transaction. When the memory pool drops
  the transaction at the index together with the one before, the relay sends a
  transaction without its input, for ever as well (`src/sync/mod.rs:257`).
- `sync_rpc_error`: an RPC error of bitcoind is taken for an unknown transaction
  (`src/sync/bitcoin_relay.rs:87`), and the utility exits with an unconfirmed
  funding transaction that is confirmed.
- `fee_back`: the guide lists the fee among the parameters "that you can change
  without any preparatory actions" (`guides/maintenance.md:35`). When it is raised
  between the broadcast of a signature and its execution, the call fails
  (`src/blockchain/transactions.rs:145`). When it is lowered again, the proposal is
  the old one, the node makes the same signature, and Exonum does not execute the
  same message again (`src/api.rs:407`): the proposal never gets its quorum if all
  nodes are needed for it. Other funds or another fee get anchoring going again.

## Fairness

`MCChainUpdater` assumes that every utility goes on taking the steps of its round:
one of them is always enabled, so that this is weak fairness, written without
`ENABLED`. The loop of the utility has no exit on this side, because a proposal
always has a payload. A step may be a request that fails, so that this assumption
does not say that requests succeed; `AnchoringCatchesUp` says so itself, by its
premise that the failures end. Exonum executes the calls of its pool as long as there
are any, and commits blocks. An operator who has generated a key starts the utility
again: nothing in the code does that, and a running utility never sees the new key.
The guide describes the start of the utility for a new node; for a node that
replaces its key it is an assumption. Funders and the supervisor owe nothing. Configurations are applied
only after the chain is established, because of `early_config`, and only with keys
that are in the file of a utility, as `guides/maintenance.md` asks for.
`AnchoringCatchesUp` then says of every behaviour that the chain is up to date with
the blocks again and again, unless there are no funds.

`MCSyncWithBitcoin` assumes weak fairness of the steps of a running relay, which
is the loop of the utility, and of the mining of each transaction of the memory
pool. Failures have no fairness.

The runs of the sync modules may stop, when the chain has its full length and all
is committed or a utility has exited, and a search ends: their configurations
switch the deadlock check off. The service never stops, because blocks are
committed for ever; that anchoring itself does not get stuck is
`ProposalIsNotStalled` and `AnchoringCatchesUp`. The strings of the codecs end.

## What is proved

The proofs hold for all configurations that `validate` accepts, any number of
nodes, funding transactions, heights and relays. The assumptions on constants
are `ConfigsAssumption` (types and validation), `FundingAssumption` (types),
`NoneAssumption`, `U64Assumption`, `GeneratedAssumption`, `ChainsAssumption`,
`QueriesAssumption`, `SyncAssumption`, `ByteAssumption` (a byte has at least two
values), `PayloadAssumption` (types, and an absent option is no value) and
`StoreAssumption` (identifiers and indices fit into their bytes). One theorem has a
hypothesis of its own, which the code does not guarantee: `SignedOnce` assumes
`KeysAreNotExchanged`.

*Core.* `FundsInv` is `TypeOK` with the four invariants on funds and heights.
They are proved together, because they need one another: that the next
transaction extends the chain, and that its height follows, needs
`ChainIsSpendable` (there is no recovery), and that a funding transaction is
spent once needs `FundingIsSpendable` and the exact content of `spent`.
`SignaturesInv` adds that the schema holds one signature of a node for an input,
made with the key at the position of the node, that the transactions of the
chain have a quorum on every input, and that no other transaction has, whether
it is the proposal, was abandoned or never proposed. The last conjunct is needed
because a proposal that becomes actual again finds its old signatures; and a
finalized transaction never becomes the proposal again, because its position in
the chain is taken. From the two follow

`TypeCorrect`, `ChainSpendable`, `FundingSpendable`, `SpentOnce`, `HeightsGrow`,
`WitnessesComplete`, `ProposalNotStalled`, `EstablishedOutputWellFormed`,
`AddressChanges`, `ChainFinal`, `NoHeightSkipped` and `HeightsSorted`.

The last one is the assumption under which the search is proved.

`FundsApproved` is about votes. `VotesInv` says that a vote stored for a funding
transaction was given with a key of a script that the transaction pays to: the script
of the configuration in force at that time, which may be another one when the
quorum is reached.

*Log.* `ServiceImplementsLog`: the initial states map to those of `AnchoringLog`,
and every step of the service maps to `Anchor`, `Move`, `Commit` or a stutter. Only
the signature that completes a proposal changes the log. It is `Anchor` or `Move`
by `ScriptPubkey`; that the last entry pays to the current address is
`ChainIsSpendable`, that the funds are new is `FundingIsSpendable`, that the height
grows or stays is `HeightsAdvance`, and that no money is created follows from the
comparison of the balance with the fee, wrapped or not.

*Composition.* `UpdaterTypeCorrect` is inductive with the fact that a utility that
is about to send has messages, and one that asks for the configuration has a
proposal. `UpdaterImplementsService` shows that every step of `UpdaterSpec` is one
of `Spec` or leaves the schema alone, from the types of the calls in the pool; by it
the invariants of the core hold of the composition, `UpdaterWitnesses` for one.
`BroadcastValid` needs no more than that a proposal spends the script of the
configuration in force when it is verified. `SignedOnce` follows from it: what is
broadcast for an input is determined by the node, the input and the script.
`UpdaterImplementsLog` composes the two refinements.

*Search.* `SearchInv`: the interval from `base` to `base + size` lies in the
chain, the height at `base` is at most the given one unless `base` has never
moved, and every position from `base + size` on has a greater height.
`SearchTyped`, `IndexInChain` and `FoundClosest` follow from it, and
`SearchShrinks`: the interval gets smaller in every iteration and is never empty.

*Relays.* `SyncInv` relates the transaction a relay has in hand to the length of
the chain and to its index. `SyncTypeCorrect`, `RequestedExists` and
`LatestAdvances` hold for the specification with all failures, evictions included.
`LatestKnown` is a theorem on `KeepingSpec`. Its invariant `KnownInv` says that what
Bitcoin knows is a prefix of the chain, the funding transaction first, and that the
index of a relay lies in it; bitcoind accepts only what spends something it knows.
`SentIsSpendable` adds that a relay about to send knows of the transaction before:
from its index, from the answer in the search, or from the funding transaction. An
RPC error only makes it search further back.

*Bytes.* `WrittenIsReadBack` and `ReadIsWrittenBack`: for every length and every
number of values of a byte the little-endian numbers and the strings of bytes
correspond one to one. They are inductions on the bytes. An induction principle
with a predicate as a parameter cannot be used, so that `Induction` is stated of
sets of numbers and each proof names the set of the lengths for which its claim
holds; `Recursion` gives, in the same way, the equations of the recursive functions.

*Payload.* `PayloadInv` says that the fields of the builder are typed, that the
script is a sequence of instructions, and that a script made by the builder is
`IntoScript` of the fields at that moment. `PayloadTyped`, `PayloadReadBack` and
`PayloadCanonical` follow from the places of the prefix, the header and the fields
in the data (`FourCuts`), with the two theorems on bytes for the height. They hold
for scripts of any length.

*Stored bytes.* `StoreInv` says that the entry under the bytes of an input is
`BinaryMapToPb` of the signatures made for it. `SignaturesKept` needs that the bytes of
different inputs differ and that a map is read back from its pairs (`MapReadBack`);
`WitnessInNodeOrder` also needs that the place of a node in the order of the keys
is its rank among those that have signed (`InOrderFacts`). `ConfigKept`: the message
of a configuration has its fields in four groups (`MessageGroups`), from which each
one is read back, zeros, which are not written, included. The parameters may
have had their fields in any order and repeated.

Only model-checked: the liveness properties `AnchoringCatchesUp`, `RelayIsReached`,
`SyncStallsOnlyOutOfStep` and `Terminates`, because fairness is out of the prover's reach.
Every invariant, action property and refinement of the runs that pass is a theorem.

## What is not modelled

- The serialization of Bitcoin transactions, hex and TOML, and Merkle proofs: code
  of libraries, or generated, without state of this system.
- Cryptography: a signature is the key and the script it was made with.
- The exits of the utility with an internal error: a proposal without a payload, an
  input that cannot be signed, a transaction of the chain that the node does not have.
  The builder always adds a payload and the proposal comes with its inputs; the
  last is `RequestedTxExists`.
- Forks of the Bitcoin blockchain, and funding transactions that are anchoring
  transactions themselves.
- The time between two rounds of the utility, and the writing of its key file as
  more than one step.
- Service keys that occur twice in a configuration: `validate` accepts them and
  nothing says what they should do. The theorems on the core cover them.
- The payload extractor, the start-up of a node and the test kit: command line
  input and output, and code that only tests use.
