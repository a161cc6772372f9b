\* An RPC error of bitcoind.
CONSTANTS
    None = None
    Relays = {"r1"}
    Running = {"r1"}
    MaxTxs = 2
    Failures = {"rpc_error"}
SPECIFICATION MCSpec
CHECK_DEADLOCK FALSE
PROPERTIES
    StopsOnlyUnfunded
