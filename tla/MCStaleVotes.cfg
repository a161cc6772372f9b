\* Votes for a funding transaction from before a change of keys.
CONSTANTS
    None = None
    U64 = 4096
    Configs <- TransitionConfigs
    InitialConfig <- Old
    ServiceKeys <- ThreeServiceKeys
    BitcoinKeys <- ThreeBitcoinKeys
    Funders <- ThreeServiceKeys
    FundingTxs <- BothFunding
    MaxHeight = 1
    MaxConfigs = 1
SPECIFICATION MCSpec
PROPERTIES
    FundsAreApprovedByActualNodes
