\* Two relays, lost requests and answers, RPC errors and restarts.
CONSTANTS
    None = None
    Relays = {"r1", "r2"}
    Running = {"r1", "r2"}
    MaxTxs = 3
    Failures = {"rpc_error", "response", "request", "restart"}
SPECIFICATION MCSpec
CHECK_DEADLOCK FALSE
INVARIANTS
    TypeOK
    RequestedTxExists
    LatestIsKnown
    SentTxIsSpendable
PROPERTIES
    LatestAdvancesByOne
