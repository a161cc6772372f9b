\* Two anchoring nodes whose keys, network, interval and fee change while they sign.
CONSTANTS
    None = None
    U64 = 4096
    Configs <- TransitionConfigs
    InitialConfig <- Old
    ServiceKeys <- ThreeServiceKeys
    BitcoinKeys <- ThreeBitcoinKeys
    Funders <- ThreeServiceKeys
    FundingTxs <- TransitionFunding
    MaxHeight = 2
    MaxConfigs = 2
SPECIFICATION MCSpec
INVARIANTS
    TypeOK
    ChainIsSpendable
    FundingIsSpendable
    OutputsAreSpentOnce
    WitnessesAreComplete
    ProposalIsNotStalled
    HeightsAdvance
    EstablishedOutputIsWellFormed
PROPERTIES
    AddressChangesWithFunds
    ChainIsFinal
    FundsAreApproved
    ImplementsLog
    NoHeightIsSkipped
