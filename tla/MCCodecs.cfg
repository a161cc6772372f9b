\* The payload, the signatures and the configuration in bytes.
CONSTANTS
    None = None
    Byte = 3
    PAYLOAD_PREFIX <- Prefix
    HeightLen = 2
    HashLen = 1
    InputLen = 2
    NodeIdLen = 2
    Magic <- TwoMagics
    MaxPush = 9
    MaxScript = 3
    MaxFields = 5
    TxIds <- TwoTxIds
    NodeIds <- TwoNodeIds
    Signatures <- TwoSignatures
    Inputs <- TwoInputs
    NetworkNumbers = {0, 1, 2, 3}
    AnchoringKeys <- TwoKeys
    Intervals = {0, 1}
    Fees <- TwoFees
SPECIFICATION MCSpec
CHECK_DEADLOCK FALSE
INVARIANTS
    PayloadTypeOK
    PayloadIsReadBack
    PayloadIsCanonical
    SignaturesAreKept
    WitnessIsInNodeOrder
    ConfigIsKept
