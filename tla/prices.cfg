\* Two symbols with three pairs: the feed and its history, the directory and what is watched.
SPECIFICATION FairSpec
CONSTANTS
    Symbol = {"ETH", "ETHW"}
    Key = {"XETH", "ETH2", "ETHW"}
    SymbolOf <- MCSymbolOf
    Fallback <- MCFallback
    Seeded = {"ETH", "ETHW"}
    Spelled <- MCSpelled
    Aliases <- MCAliases
    Containing <- MCContaining
    Price = {100, 110}
    Moves <- MCMoves
    Interval = 2
    Hour = 2
    Slack = 1
    Day = 3
    KeepDays = {0}
    Delays = {1, 2}
    LongDelays = {5}
    Oldest = 4
    Mixes <- MCMixes
    MaxFaults = 1
INVARIANTS StaleFeedScoresNothing SnapshotsSpaced HourIsCovered
PROPERTY PricesComeBack
