--------------------------- MODULE MCChainUpdater ---------------------------
(***************************************************************************)
(* Small instances of ChainUpdater, with bounds on the height and on the   *)
(* configurations applied.  The number of failed requests is not bounded:  *)
(* they may fail for ever, or until one time after which nothing fails.    *)
(* The last failure may be a crash.  More crashes would lead to no other   *)
(* states: a round that fails and ends leaves a utility like a restart.    *)
(***************************************************************************)
EXTENDS ChainUpdater, TLC

CONSTANTS
    InitialConfig, \* the configuration that the service is started with
    Funders,       \* the nodes whose operators add funds
    MaxHeight,     \* bound on core_height
    MaxConfigs,    \* bound on the number of configurations applied
    Failing        \* whether requests fail in the beginning

VARIABLES
    applied, \* number of configurations applied
    failing  \* whether requests may still fail

bounds == <<applied, failing>>
mcVars == <<updaterVars, bounds>>

MCInit == UpdaterInit /\ actual = InitialConfig /\ applied = 0 /\ failing = Failing

MCRequestFails(u) == failing /\ (ClientError(u) \/ AnswerLost(u)) /\ UNCHANGED bounds

MCCrash(u) == failing /\ Run(u) /\ failing' = FALSE /\ UNCHANGED applied

MCRecover == failing /\ failing' = FALSE /\ UNCHANGED <<updaterVars, applied>>

MCRoundStep(u) == RoundStep(u) /\ UNCHANGED bounds

MCExecute == (\E call \in pool : Execute(call)) /\ UNCHANGED bounds

\* A utility is started again after a crash, or because it has a new key.
MCRun(u) == keys[u] # file[u] /\ Run(u) /\ UNCHANGED bounds

\* The first configuration is applied once the chain is established.
MCSupervise(config) ==
    /\ applied < MaxConfigs
    /\ chain # <<>>
    /\ Supervise(config)
    /\ applied' = applied + 1
    /\ UNCHANGED failing

MCBlock == core_height < MaxHeight /\ Block /\ UNCHANGED bounds

MCNext ==
    \/ \E u \in ServiceKeys :
          \/ MCRoundStep(u)
          \/ MCRequestFails(u)
          \/ MCCrash(u)
          \/ MCRun(u)
          \/ GenerateKeypair(u) /\ UNCHANGED bounds
    \/ \E u \in Funders, funding \in FundingTxs : ApiAddFunds(u, funding) /\ UNCHANGED bounds
    \/ MCExecute
    \/ \E config \in Configs : MCSupervise(config)
    \/ MCBlock
    \/ MCRecover

(***************************************************************************)
(* Weak fairness of the steps of a round, which can always be taken, and   *)
(* of Exonum, which executes the calls that were broadcast and commits     *)
(* blocks; an operator who has generated a key starts the utility again.   *)
(* Nothing is assumed of funders and supervisor.                           *)
(***************************************************************************)
Fairness ==
    /\ \A u \in ServiceKeys : /\ []<><<MCRoundStep(u) \/ MCRequestFails(u)>>_mcVars
                             /\ WF_mcVars(MCRun(u))
    /\ []<>(pool = {}) \/ []<><<MCExecute>>_mcVars
    /\ WF_mcVars(MCBlock)

MCSpec == MCInit /\ [][MCNext]_mcVars /\ Fairness

\* The chain catches up with the blockchain unless the funds have run out: once
\* there are initial funds, every block that must be anchored is anchored and every
\* transition to other keys completes.  What the utilities sign from answers that are
\* out of date is refused or replaced, and requests that fail, answers that are lost
\* and a crash, however many, never keep them from signing once this has ended.
AnchoringCatchesUp ==
    <>~failing =>
        []<>(\/ chain = <<>> /\ unspent = None
             \/ AnchoringHeight > core_height
             \/ ProposalState = "InsufficientFunds")

\* "List of parameters that you can change without any preparatory actions:
\* transaction_fee" (guides/maintenance.md): anchoring goes on when it changes.
FeeChangesNeedNoPreparation == AnchoringCatchesUp

\* The trouble of the chain updater does not keep the utility from relaying the
\* chain to Bitcoin: as soon as there is an anchoring transaction a running utility
\* gets to the relay again and again, even if its other requests fail for ever.  The
\* loop continues past the relay only without initial funds, when there is nothing
\* to relay.
RelayIsReached ==
    \A u \in ServiceKeys : chain # <<>> ~> pc[u] = "relay"

-----------------------------------------------------------------------------
Config(nodes, interval, fee) ==
    [network            |-> "testnet",
     anchoring_keys     |-> [n \in DOMAIN nodes |-> [service_key |-> nodes[n][1],
                                                     bitcoin_key |-> nodes[n][2]]],
     anchoring_interval |-> interval,
     transaction_fee    |-> fee]

To(config, value) == [script_pubkey |-> AnchoringOutScript(config), value |-> value]

\* Of two nodes one leaves and the other one replaces its Bitcoin key.
Old == Config(<<<<"s1", "b1">>, <<"s2", "b2">>>>, 1, 4)
New == Config(<<<<"s1", "b3">>>>, 1, 4)
OldHigherFee == Config(<<<<"s1", "b1">>, <<"s2", "b2">>>>, 1, 5)

TwoServiceKeys == {"s1", "s2"}
ThreeBitcoinKeys == {"b1", "b2", "b3"}
RenewedKeys == ("s1" :> {"b3"}) @@ ("s2" :> {})
NoKeys == [u \in TwoServiceKeys |-> {}]
RenewedConfigs == {Old, New}
FeeConfigs == {Old, OldHigherFee}

\* The initial funds are enough for two transactions.
InitialFunding == [id |-> "f1", output |-> <<To(Old, 1500)>>]
UpdaterFunding == {InitialFunding, [id |-> "f2", output |-> <<To(New, 3000)>>]}
FeeFunding == {InitialFunding}
=============================================================================
