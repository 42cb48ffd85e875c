\* No faults: a redelivery is acknowledged while the first delivery is open,
\* and that one fails afterwards.
CONSTANTS
    m1 = m1
    Messages <- OneMessage
    MaxDeliveries = 3
    MESSAGE_DEDUP_TTL_SECONDS = 3
    MAX_MESSAGE_AGE_SECONDS = 3
    MaxSkew = 1
    MaxFaults = 0
SPECIFICATION Spec
INVARIANT AckedIsDurable
