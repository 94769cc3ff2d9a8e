\* Two days of two ticks, a retention of at least two days, one fault anywhere.
SPECIFICATION FairSpec
CONSTANTS
    Rule = {"btc", "sol"}
    PairOf <- MCPairOf
    BTC = "BTC/USD"
    ETH = "ETH/USD"
    MovePoints = {0}
    PerDay = 2
    Day = 2
    RecurrenceWindow = 2
    MultiWindow = 0
    AlertWindow = 1
    MinDays = 1
    KeepDays = {0, 1}
    Delays = {1}
    Oldest = 3
    MaxRows = 3
    MaxFaults = 1
INVARIANTS
    WindowsIntact
    RetentionIsDaily
PROPERTIES
    RepeatEscalates
    NoSilentChange
    OldRowsGo
