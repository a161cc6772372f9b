\* Two nodes and their utilities; one node leaves, and the other replaces its key.
CONSTANTS
    None = None
    U64 = 4096
    Configs <- RenewedConfigs
    InitialConfig <- Old
    ServiceKeys <- TwoServiceKeys
    BitcoinKeys <- ThreeBitcoinKeys
    Validators <- TwoServiceKeys
    Generated <- RenewedKeys
    Funders <- TwoServiceKeys
    FundingTxs <- UpdaterFunding
    MaxHeight = 1
    MaxConfigs = 1
    Failing = TRUE
SPECIFICATION MCSpec
INVARIANTS
    UpdaterTypeOK
    BroadcastIsValid
    InputsAreSignedOnce
PROPERTIES
    Spec
    AnchoringCatchesUp
    RelayIsReached
