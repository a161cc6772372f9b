\* The fee is raised and lowered again while the nodes sign.
CONSTANTS
    None = None
    U64 = 4096
    Configs <- FeeConfigs
    InitialConfig <- Old
    ServiceKeys <- TwoServiceKeys
    BitcoinKeys <- ThreeBitcoinKeys
    Validators <- TwoServiceKeys
    Generated <- NoKeys
    Funders <- TwoServiceKeys
    FundingTxs <- FeeFunding
    MaxHeight = 1
    MaxConfigs = 2
    Failing = FALSE
SPECIFICATION MCSpec
PROPERTIES
    FeeChangesNeedNoPreparation
