\* A new configuration before the first anchoring transaction.
CONSTANTS
    None = None
    U64 = 4096
    Configs <- TransitionConfigs
    InitialConfig <- Old
    ServiceKeys <- ThreeServiceKeys
    BitcoinKeys <- ThreeBitcoinKeys
    Funders <- ThreeServiceKeys
    FundingTxs <- TransitionFunding
    MaxHeight = 1
    MaxConfigs = 2
SPECIFICATION MCSpec
INVARIANTS
    OutputIsWellFormed
