\* The answer to a transaction that was accepted is lost.
CONSTANTS
    None = None
    Relays = {"r1"}
    Running = {"r1"}
    MaxTxs = 3
    Failures = {"response"}
SPECIFICATION MCFairSpec
CHECK_DEADLOCK FALSE
PROPERTIES
    SyncCompletes
