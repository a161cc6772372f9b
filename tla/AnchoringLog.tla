---------------------------- MODULE AnchoringLog ----------------------------
(***************************************************************************)
(* What the anchoring service promises to those who follow it on Bitcoin,  *)
(* without proposals, votes, signatures and configurations: an append-only *)
(* log of committed heights whose funds stay at the current address.       *)
(*                                                                         *)
(* An entry has at least the fields height, spends (the address it is paid *)
(* from), out (the address it pays to), value (what it leaves there) and   *)
(* funds (the funding transaction it uses up, or None).                    *)
(***************************************************************************)
EXTENDS Integers, Sequences

CONSTANTS
    Addresses,     \* the addresses that may hold the anchoring funds
    None,          \* no funding transaction
    Deposit(_, _)  \* what a funding transaction pays to an address

VARIABLES
    log,       \* the anchoring transactions
    address,   \* the current anchoring address
    used,      \* the funding transactions that were used up
    committed  \* the height of the Exonum blockchain

logVars == <<log, address, used, committed>>

LastEntry == log[Len(log)]
NewEntry == log'[Len(log')]

\* What the new entry has to spend: its predecessor and new funds, used once.
Funds ==
    (IF log # <<>> THEN LastEntry.value ELSE 0)
        + (IF NewEntry.funds # None THEN Deposit(NewEntry.funds, address) ELSE 0)

\* The log is extended by an entry that spends what is held at the address.
Extend ==
    /\ Len(log') = Len(log) + 1
    /\ log' = Append(log, NewEntry)
    /\ NewEntry.spends = address
    /\ log # <<>> => LastEntry.out = address
    /\ NewEntry.out = address'
    /\ NewEntry.funds \notin used
    /\ used' = used \cup ({NewEntry.funds} \ {None})
    /\ NewEntry.value \in 0..Funds
    /\ UNCHANGED committed

\* A block that is committed and above the last one is anchored.
Anchor ==
    /\ Extend
    /\ NewEntry.height \in 0..committed
    /\ log # <<>> => NewEntry.height > LastEntry.height
    /\ UNCHANGED address

\* The funds move to another address together with the last anchored height.
Move ==
    /\ Extend
    /\ log # <<>>
    /\ NewEntry.height = LastEntry.height
    /\ address' \in Addresses \ {address}

Commit == committed' = committed + 1 /\ UNCHANGED <<log, address, used>>

LogInit == log = <<>> /\ address \in Addresses /\ used = {} /\ committed = 0

LogNext == Anchor \/ Move \/ Commit

LogSpec == LogInit /\ [][LogNext]_logVars
=============================================================================
