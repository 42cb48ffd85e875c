SPECIFICATION Spec
CONSTANTS
    anna = anna
    partner = partner
    stranger = stranger
    Sources <- OneSource
    Targets <- TwoTargets
    Partners <- OnePartner
    EXTERNAL_RECRUITMENT_RAID_LIMIT = 2
    MaxTasks = 2
    MaxRaids = 2
    MaxTroubles = 1
INVARIANTS TypeOK ConfirmedOncePerStore BlacklistEarned ArrivalsLanded TrackedOrWorking
PROPERTIES AutoRaidYields
CHECK_DEADLOCK FALSE
