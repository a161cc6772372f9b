\* A quorum of three out of four nodes and proposals with two inputs.
CONSTANTS
    None = None
    U64 = 4096
    Configs <- FourConfigs
    InitialConfig <- Four
    ServiceKeys <- FourServiceKeys
    BitcoinKeys <- FourBitcoinKeys
    Funders <- FourFunders
    FundingTxs <- FourFunding
    MaxHeight = 1
    MaxConfigs = 0
SPECIFICATION MCSpec
INVARIANTS
    OutputsAreSpentOnce
    WitnessesAreComplete
    ProposalIsNotStalled
PROPERTIES
    ChainIsFinal
