\* A failed event write costs the other rules their tick.
SPECIFICATION Spec
CONSTANTS
    DayLength = 2
    Timezones = {"Plus1"}
    ZoneNames = {"UTC", "Plus1", "Nowhere"}
    UtcOffset <- MCUtcOffset
    RuleId = {r1, r2}
    Client = {c1}
    Pair = {btc}
    Price = {1, 2}
    Forms <- OneForm
    KeepFor = 1
    MaxTime = 1
    MaxFaults = 1
PROPERTIES
    EventLogNeverBreaksTheTick
