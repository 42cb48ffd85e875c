\* Redeliveries, overlapping deliveries, failed releases and crashes of the
\* process; a second worker shares the inbox, a dead letter comes back.
CONSTANTS
    m1 = m1
    k1 = k1
    k2 = k2
    w1 = w1
    w2 = w2
    Messages <- OneMessage
    MaxDeliveries = 2
    MESSAGE_DEDUP_TTL_SECONDS = 2
    MAX_MESSAGE_AGE_SECONDS = 1
    MaxSkew = 1
    MaxFaults = 1
    Works <- TwoWorks
    Workers <- TwoWorkers
    Own = w1
    INBOX_BATCH_SIZE = 1
    INBOX_LEASE_SECONDS = 1
    INBOX_MAX_ATTEMPTS = 1
    INBOX_RETRY_BASE_SECONDS = 1
    INBOX_RETRY_MAX_SECONDS = 1
    Timely = TRUE
    MaxBoxFaults = 1
    MaxRequeues = 1
    NoMessage = NoMessage
SYMMETRY WorkSymmetry
SPECIFICATION PipelineSpec
INVARIANTS PipelineTypeOK DedupWhileYoung AckedIsKept RetryNotBlocked
PROPERTIES StartsAlone
