\* One rule: edits, pauses, clones, deletions and a fault against the tick.
SPECIFICATION Spec
CONSTANTS
    DayLength = 2
    Timezones = {"Plus1"}
    ZoneNames = {"UTC", "Plus1", "Nowhere"}
    UtcOffset <- MCUtcOffset
    RuleId = {r1}
    Client = {c1}
    Pair = {btc}
    Price = {1, 2}
    Forms <- CoreForms
    KeepFor = 1
    MaxTime = 2
    MaxFaults = 1
INVARIANTS
    DuplicatesNeedFaults
    FiringHasHistory
    CopiesAgree
PROPERTIES
    CooldownSpacing
    NoAlertOncePaused
    TickKeepsUserColumns
    RealCrossing
