\* Nobody edits: one rule, with hours and a cooldown or with send_once, created at any time, faults anywhere.
SPECIFICATION Spec
CONSTANTS
    DayLength = 2
    Timezones = {"Plus1"}
    ZoneNames = {"UTC", "Plus1", "Nowhere"}
    UtcOffset <- MCUtcOffset
    RuleId = {r1}
    Client = {}
    Pair = {btc}
    Price = {1, 2}
    Forms <- QuietForms
    KeepFor = 1
    MaxTime = 5
    MaxFaults = 2
PROPERTY RowEvolvesAtomically
