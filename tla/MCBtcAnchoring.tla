--------------------------- MODULE MCBtcAnchoring ---------------------------
(***************************************************************************)
(* Small instances of BtcAnchoring.  Two numbers bound them: how many      *)
(* configurations the supervisor applies, and the height of the Exonum     *)
(* blockchain.                                                             *)
(***************************************************************************)
EXTENDS BtcAnchoring

CONSTANTS
    InitialConfig, \* the configuration that the service is started with
    Funders,       \* the service keys whose nodes send AddFunds
    MaxHeight,     \* bound on core_height
    MaxConfigs     \* bound on the number of configurations applied

VARIABLE applied \* number of configurations applied

mcVars == <<vars, applied>>

MCInit == Init /\ actual = InitialConfig /\ applied = 0

MCSignInput(author, arg) == SignInput(author, arg) /\ UNCHANGED applied

MCAddFunds(author, funding) == AddFunds(author, funding) /\ UNCHANGED applied

MCApplyConfig(config) ==
    /\ applied < MaxConfigs
    /\ ApplyConfig(config)
    /\ applied' = applied + 1

\* Blocks above the bound are committed and not told apart.
MCCommitBlock ==
    /\ IF core_height < MaxHeight THEN CommitBlock ELSE UNCHANGED vars
    /\ UNCHANGED applied

MCNext ==
    \/ \E author \in ServiceKeys : \E arg \in SignInputs : MCSignInput(author, arg)
    \/ \E author \in Funders, funding \in FundingTxs : MCAddFunds(author, funding)
    \/ \E config \in Configs : MCApplyConfig(config)
    \/ MCCommitBlock

MCSpec == MCInit /\ [][MCNext]_mcVars

-----------------------------------------------------------------------------
Config(nodes, interval, fee) ==
    [network            |-> "testnet",
     anchoring_keys     |-> [n \in DOMAIN nodes |-> [service_key |-> nodes[n][1],
                                                     bitcoin_key |-> nodes[n][2]]],
     anchoring_interval |-> interval,
     transaction_fee    |-> fee]

Funding(id, outputs) == [id |-> id, output |-> outputs]

To(config, value) == [script_pubkey |-> AnchoringOutScript(config), value |-> value]

ThreeServiceKeys == {"s1", "s2", "s3"}
ThreeBitcoinKeys == {"b1", "b2", "b3"}

\* Two nodes, one of which is replaced; the same keys on another network, with a
\* fee per byte whose product with the size exceeds the bound of the MC models.
Old == Config(<<<<"s1", "b1">>, <<"s2", "b2">>>>, 1, 4)
New == Config(<<<<"s3", "b3">>, <<"s2", "b2">>>>, 1, 4)
OldMainnet == [Old EXCEPT !.network = "bitcoin", !.transaction_fee = 27]

\* The same Bitcoin keys with another interval, fee and service key.
Tuned == Config(<<<<"s3", "b1">>, <<"s2", "b2">>>>, 2, 5)

TransitionConfigs == {Old, New, OldMainnet, Tuned}

\* Two transactions can be paid from f1; f2 has an output for each of two addresses.
TransitionFunding == {Funding("f1", <<To(Old, 1230)>>),
                      Funding("f2", <<To(New, 1400), To(Old, 200)>>)}

\* A funding transaction with an output to each of the two addresses.
BothFunding == {Funding("f1", <<To(Old, 3000)>>),
                Funding("f2", <<To(Old, 1000), To(New, 1000)>>)}

\* Four nodes, three of which are a quorum.
Four == Config(<<<<"s1", "b1">>, <<"s2", "b2">>, <<"s3", "b3">>, <<"s4", "b4">>>>, 1, 4)

FourConfigs == {Four}
FourServiceKeys == {"s1", "s2", "s3", "s4"}
FourBitcoinKeys == {"b1", "b2", "b3", "b4"}
FourFunding == {Funding("f1", <<To(Four, 900)>>), Funding("f2", <<To(Four, 500)>>)}
FourFunders == {"s1", "s2", "s3"}
=============================================================================
