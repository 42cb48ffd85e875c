\* One stream.offline, no faults, an idle poller: the retry meets the throttle.
CONSTANTS
    o1 = o1
    o2 = o2
    n1 = n1
    u1 = u1
    c1 = c1
    m1 = m1
    Works <- OneOffline
    WorkType <- TypesOfWorks
    WorkMessage <- MessagesOfWorks
    MaxRunning = 1
    INBOX_MAX_ATTEMPTS = 5
    OFFLINE_THROTTLE_TTL_SECONDS = 120
    MaxFaults = 0
    MaxRequeues = 0
    MaxPolls = 0
SPECIFICATION Spec
INVARIANT OfflineComplete
