\* Two processes share the inbox and finish every batch within its lease.
CONSTANTS
    k1 = k1
    k2 = k2
    w1 = w1
    w2 = w2
    Works <- TwoWorks
    Workers <- TwoWorkers
    INBOX_BATCH_SIZE = 2
    INBOX_LEASE_SECONDS = 2
    INBOX_MAX_ATTEMPTS = 3
    INBOX_RETRY_BASE_SECONDS = 1
    INBOX_RETRY_MAX_SECONDS = 2
    Timely = TRUE
    MaxFaults = 2
    MaxRequeues = 1
SYMMETRY WorkerSymmetry
SPECIFICATION Spec
INVARIANTS TypeOK LeaseExclusive DeadLetterEarned
PROPERTIES AttemptsNeverDrop ImplementsWorkQueue
