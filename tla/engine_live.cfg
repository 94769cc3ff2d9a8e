\* Two rules: every tick ends, and the rows follow the prices.
SPECIFICATION FairSpec
CONSTANTS
    DayLength = 2
    Timezones = {"Plus1"}
    ZoneNames = {"UTC", "Plus1", "Nowhere"}
    UtcOffset <- MCUtcOffset
    RuleId = {r1, r2}
    Client = {c1}
    Pair = {btc}
    Price = {1, 2}
    Forms <- OneForm
    KeepFor = 1
    MaxTime = 0
    MaxFaults = 0
PROPERTIES
    TickEnds
    StateFollowsPrice
