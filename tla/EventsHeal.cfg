\* A stream.offline and a stream.online of one broadcaster, in any order and
\* with retries, against the poller.
CONSTANTS
    o1 = o1
    o2 = o2
    n1 = n1
    u1 = u1
    c1 = c1
    m1 = m1
    Works <- OffThenOn
    WorkType <- TypesOfWorks
    WorkMessage <- MessagesOfWorks
    MaxRunning = 1
    INBOX_MAX_ATTEMPTS = 1
    OFFLINE_THROTTLE_TTL_SECONDS = 1
    MaxFaults = 1
    MaxRequeues = 0
    MaxPolls = 1
SPECIFICATION FairSpec
PROPERTY LiveStateConverges
