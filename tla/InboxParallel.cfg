\* A batch outlasts its lease, and its worker's late mark_retry makes the row due
\* inside the lease that another worker has by then.
CONSTANTS
    k1 = k1
    k2 = k2
    w1 = w1
    w2 = w2
    Works <- TwoWorks
    Workers <- TwoWorkers
    INBOX_BATCH_SIZE = 2
    INBOX_LEASE_SECONDS = 2
    INBOX_MAX_ATTEMPTS = 3
    INBOX_RETRY_BASE_SECONDS = 1
    INBOX_RETRY_MAX_SECONDS = 2
    Timely = FALSE
    MaxFaults = 0
    MaxRequeues = 0
SPECIFICATION Spec
INVARIANTS LeaseHonoured
