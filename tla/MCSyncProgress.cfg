\* One of two relays stops, and failures of every kind.
CONSTANTS
    None = None
    Relays = {"r1", "r2"}
    Running = {"r1"}
    MaxTxs = 3
    Failures = {"rpc_error", "response", "request", "restart", "evict"}
SPECIFICATION MCFairSpec
CHECK_DEADLOCK FALSE
PROPERTIES
    SyncStallsOnlyOutOfStep
