\* A stream.offline in two rows, dead letters put back twice, a change for the
\* poller, one fault.  A retry is a dead letter put back: it starts again from
\* its first attempt.
CONSTANTS
    o1 = o1
    o2 = o2
    n1 = n1
    u1 = u1
    c1 = c1
    m1 = m1
    Works <- OfflineTwice
    WorkType <- TypesOfWorks
    WorkMessage <- MessagesOfWorks
    MaxRunning = 2
    INBOX_MAX_ATTEMPTS = 1
    OFFLINE_THROTTLE_TTL_SECONDS = 1
    MaxFaults = 1
    MaxRequeues = 2
    MaxPolls = 1
SPECIFICATION Spec
INVARIANTS TypeOK EffectsComplete NoDoubleRaid
PROPERTY ImplementsEffects
SYMMETRY SameMessage
