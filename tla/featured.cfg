\* The featured markets with their cache, two tabs of one user's ticker, and the
\* page that merges the two with the user's rules.
CONSTANTS
    Symbol = {1, 2}
    Writer = {w1, w2}
    Reader = {r1}
    Tab = {t1, t2}
    Mixes = {"admins", "tabs", "page"}
    Defaults <- TwoDefaults
    TTL = 1
    MaxOrder = 2
    MaxFaults = 1
SPECIFICATION TickerSpec
INVARIANTS OrderIsStrict StaleNeedsOvertaking PageShowsWhatStayed
PROPERTIES CommitMovesNeighbours EventuallyFresh
