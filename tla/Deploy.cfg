\* Two tickets, three commits, one fault of any kind, two services.
CONSTANTS
    a = a
    b = b
    bot = bot
    dashboard = dashboard
    tb_bot = tb_bot
    tb_dashboard = tb_dashboard
    script = script
    Tickets <- TwoTickets
    Commit <- CommitsOfTickets
    DeployNow <- Urgent
    MaxMain = 3
    quiet_minutes = 1
    max_wait_minutes = 1
    idle_wait_minutes = 1
    compaction_timeout_minutes = 0
    MaxFaults = 1
    Artifacts <- AllArtifacts
    Compiled = {tb_bot, tb_dashboard}
    Services = {bot, dashboard}
    ServicesOf <- Restarted
    Exe <- Binary
    Inputs <- InputsByCommit
SPECIFICATION FairReleasesSpec
INVARIANTS TypeOK DeployedIsLive NoSpareMessages RunningIsAttended BuildIsItsCommit RestartsSuffice SuccessRuns
PROPERTIES ImplementsDesk CompactFirst EveryTicketTold
