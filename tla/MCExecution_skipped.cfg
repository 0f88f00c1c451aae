CONSTANTS
    t1 = t1
    t2 = t2
    e1 = e1
    e2 = e2
    N = 3
    Tx = {t1, t2}
    Txs <- Txs3
    NoBlock = NoBlock
    ENDPOINTS <- Clients1
    Ends = {1, 3}
    Inline = {1, 3}
    max_retries = 2
    RETRY_LIMIT = 2
    MaxExtractors = 2
    MaxFeeders = 3
    MaxDrivers = 2
    Deployments <- Retry3Deployment
SPECIFICATION Spec
INVARIANTS BatchByBatch
CHECK_DEADLOCK FALSE
