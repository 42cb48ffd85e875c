\* Batches may outlast their leases; the workers are fair.
CONSTANTS
    k1 = k1
    k2 = k2
    w1 = w1
    w2 = w2
    Works <- TwoWorks
    Workers <- TwoWorkers
    INBOX_BATCH_SIZE = 1
    INBOX_LEASE_SECONDS = 1
    INBOX_MAX_ATTEMPTS = 2
    INBOX_RETRY_BASE_SECONDS = 1
    INBOX_RETRY_MAX_SECONDS = 2
    Timely = FALSE
    MaxFaults = 1
    MaxRequeues = 1
SPECIFICATION FairSpec
INVARIANTS NoLostWork OneTable
PROPERTIES SettlesWorks
