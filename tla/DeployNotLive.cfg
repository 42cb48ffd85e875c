\* One ticket, no faults: a batch that fails after the switch.
CONSTANTS
    a = a
    Tickets <- OneTicket
    Commit <- FirstCommit
    DeployNow <- OneTicket
    MaxMain = 1
    quiet_minutes = 1
    max_wait_minutes = 1
    idle_wait_minutes = 1
    compaction_timeout_minutes = 1
    MaxFaults = 0
SPECIFICATION Spec
PROPERTY FailedIsNotLive
