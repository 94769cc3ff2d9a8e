\* Two administrators save settings while alerts go out, one fault anywhere.
SPECIFICATION FairSpec
CONSTANTS
    Admin = {a1, a2}
    Section = {"email", "ntfy", "discord"}
    Field = {"host", "enabled", "target"}
    Value = {"", "true", "false", "host", "there"}
    Absent = Absent
    Stored <- MCStored
    Forms <- MCForms
    MaxFaults = 1
    Channel = {"ntfy", "discord"}
    Order <- MCOrder
    Severity = {"normal", "elevated"}
    PushSeverities = {"elevated"}
    MaxRetries = 2
INVARIANTS
    SettledIsOneSave
    RecordIsHonest
    EveryChannelTried
    OneMailUnlessLost
PROPERTIES
    DispatchEnds
