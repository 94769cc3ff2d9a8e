\* All series of up to six prices against 76 rules.
CONSTANTS
    DayLength = 6
    Timezones = {"UTC", "Plus1"}
    UtcOffset <- MCUtcOffset
    Forms <- MCForms
    Price = {1, 2, 3}
    MaxTime = 8
    MaxPoints = 6
SPECIFICATION Spec
INVARIANTS TriggersMakeSense
PROPERTY MirrorsEngine
CHECK_DEADLOCK FALSE
