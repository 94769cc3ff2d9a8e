-------------------------------- MODULE Prices --------------------------------
(***************************************************************************)
(* From the pairs that are watched to the points of a price move: the      *)
(* batch request of a tick, the last prices, the snapshots, the lookup of  *)
(* a past price, and the deletion of old ones.                             *)
(*                                                                         *)
(*   app/services/market_data.py    fetch_prices                           *)
(*   app/services/alert_engine.py   _maybe_store_snapshots                 *)
(*   app/crud/price_history.py      the table                              *)
(*   app/services/market_state.py   _price_move_pts                        *)
(*   app/services/retention.py      prune_price_history                    *)
(*                                                                         *)
(* Time passes between ticks; times are kept as ages.  What a tick does    *)
(* after its snapshots is in AlertEngine and Housekeeping.                 *)
(***************************************************************************)
EXTENDS KrakenAssets

CONSTANTS
    Seeded,      \* the symbols watched when the process first starts
    Spelled,     \* Spelled[s]: the key Kraken knows by the name made of the symbol
    Aliases,     \* Aliases[s]: the keys _find_result_price tries next
    Containing,  \* Containing[s]: the keys whose name contains that of the base
    Price,
    Moves,       \* Moves[s]: the score table of a symbol: pairs of percentage and points
    Interval,    \* PRICE_SNAPSHOT_INTERVAL_MINUTES, in clock ticks
    Hour, Slack, \* the past price is sought at Hour, give or take Slack
    Day, KeepDays,  \* the unit of the retention setting, and what it can be
    Delays,      \* the time from one tick to the next
    LongDelays,  \* the same, in behaviours in which the listing changes
    Oldest,      \* rows older than this are left out
    Mixes,       \* what happens besides the ticks, by kind, in one behaviour
    MaxFaults    \* bound on failed commits and restarts

ASSUME PriceAssumption == Price \subseteq Nat \ {0} /\ Price # {} /\ Seeded \subseteq Symbol
ASSUME SpellAssumption == /\ Spelled \in Directory
                          /\ Aliases \in [Symbol -> SUBSET Key]
                          /\ Containing \in [Symbol -> SUBSET Key]
ASSUME MovesAssumption == \A s \in Symbol : \A i \in DOMAIN Moves[s] : Moves[s][i].percent \in Nat \ {0}
ASSUME TimeAssumption  == /\ Interval \in Nat /\ Hour \in Nat \ {0} /\ Slack \in 0 .. Hour
                          /\ Delays \cup LongDelays \subseteq Nat \ {0}
                          /\ Day \in Nat /\ Hour + Slack <= Day /\ KeepDays \subseteq Int
                          /\ Oldest \in Nat /\ Day < Oldest
ASSUME FaultAssumption == MaxFaults \in Nat

VARIABLES
    watched,        \* featured symbols and the pairs of active rules
    pc,             \* where the tick is
    asked,          \* the symbols of the request under way, each with its key
    last_prices,    \* _last_prices
    todo,           \* symbols whose snapshot is still to be stored
    since_snapshot, \* now - _last_snapshot_at; Interval where it is None
    rows,           \* asset_price_history; era, an observer's column: faults before the row
    faults,
    mix,            \* the kinds of events of this behaviour; never changes
    \* observers
    heard,          \* heard[s]: the age of the last answer with a price for s
    covered         \* covered[s]: for how long every tick has had a price for s, or -1

tickVars  == << pc, asked, todo, since_snapshot >>
priceVars == << watched, tickVars, last_prices, rows, faults, mix, heard, covered >>
allVars   == << directoryVars, priceVars >>

NoPrice  == 0
NoPrices == [s \in Symbol |-> NoPrice]
Nobody   == [s \in {} |-> NoKey]
Row      == [symbol : Symbol, price : Price, age : 0 .. Oldest, era : 0 .. MaxFaults]

\* The far end of the window of the lookup; observers count no further.
End == Hour + Slack

TypeOK ==
    /\ DirectoryOK
    /\ watched \subseteq Symbol
    /\ pc \in {"sleep", "reply", "store"}
    /\ \E S \in SUBSET Symbol : asked \in [S -> Key \cup {NoKey}]
    /\ last_prices \in [Symbol -> Price \cup {NoPrice}]
    /\ todo \subseteq Symbol
    /\ since_snapshot \in 0 .. Interval
    /\ rows \subseteq Row
    /\ faults \in 0 .. MaxFaults
    /\ mix \in Mixes
    /\ heard \in [Symbol -> 0 .. End]
    /\ covered \in [Symbol -> -1 .. End]

\* The process starts on an empty database.
Init ==
    /\ FreshDirectory
    /\ pc = "sleep" /\ asked = Nobody /\ todo = {}
    /\ last_prices = NoPrices
    /\ since_snapshot = Interval
    /\ covered = [s \in Symbol |-> -1]
    /\ watched = Seeded
    /\ rows = {}
    /\ faults = 0
    /\ mix \in Mixes
    /\ heard = [s \in Symbol |-> End]

-----------------------------------------------------------------------------
(* What is watched. *)

OnlyWatched == UNCHANGED << directoryVars, tickVars, last_prices, rows, faults, mix, heard,
                            covered >>

\* A rule is created, or a market featured: its symbol has been validated.
Watch(s) ==
    /\ "watch" \in mix
    /\ started
    /\ Known(s)
    /\ watched' = watched \cup {s}
    /\ OnlyWatched

\* The last rule of a pair is deleted or paused, the market removed or disabled.
Unwatch(s) ==
    /\ "watch" \in mix
    /\ started
    /\ watched' = watched \ {s}
    /\ OnlyWatched

-----------------------------------------------------------------------------
(* The tick. *)

Capped(n, most) == IF n < most THEN n ELSE most

\* The key by which Kraken knows the name a symbol is asked for by.
Query(s) == IF Known(s) THEN pairs[s] ELSE Spelled[s]

Older(row, d) == [row EXCEPT !.age = row.age + d]

\* A tick is on time when the window cannot fall between two snapshots.
OnTime(d) == d <= 2 * Slack /\ Interval - 1 + d <= 2 * Slack

\* The sleep is over, and fetch_prices sends its request: none for no symbols.
StartTick(d) ==
    /\ started
    /\ pc = "sleep"
    /\ asked' = [s \in watched |-> Query(s)]
    /\ pc' = IF watched = {} THEN "store" ELSE "reply"
    /\ since_snapshot' = Capped(since_snapshot + d, Interval)
    /\ rows' = {Older(row, d) : row \in {r \in rows : r.age + d <= Oldest}}
    /\ heard' = [s \in Symbol |-> Capped(heard[s] + d, End)]
    /\ covered' = [s \in Symbol |-> IF OnTime(d) /\ s \in watched /\ covered[s] >= 0
                                    THEN Capped(covered[s] + d, End)
                                    ELSE -1]
    /\ UNCHANGED << directoryVars, watched, todo, last_prices, faults, mix >>

\* The tick is cut short: there are no prices for anybody.
Abandon ==
    /\ pc' = "sleep" /\ asked' = Nobody /\ todo' = {}
    /\ covered' = [s \in Symbol |-> -1]

\* No answer, or Kraken refuses the batch for a pair that it does not trade.
FetchFails ==
    /\ pc = "reply"
    /\ "fail" \in mix \/ ~(\A s \in DOMAIN asked : asked[s] \in listed)
    /\ Abandon
    /\ UNCHANGED << directoryVars, watched, since_snapshot, last_prices, rows, faults, mix, heard >>

\* The keys _find_result_price can settle on: the one asked for, those of the
\* aliases, or the first in the answer that contains the name of the base.
Candidates(s, result) ==
    IF asked[s] \in result THEN {asked[s]}
    ELSE IF Aliases[s] \cap result # {} THEN Aliases[s] \cap result
    ELSE Containing[s] \cap result

\* Mutant: one clock tick early.
DueEarly == since_snapshot + 1 >= Interval

Due == since_snapshot >= Interval

\* Prices move, or stay what they are.
Quotes == IF "move" \in mix THEN Price ELSE {CHOOSE p \in Price : TRUE}

\* The answer: result holds pairs asked for, perhaps not all; a symbol without a
\* price in it keeps the one it had.
Fetch(result, quote, found) ==
    LET Got(s) == found[s] # NoKey
    IN  /\ pc = "reply"
        /\ \A s \in DOMAIN asked : asked[s] \in listed
        /\ \A s \in DOMAIN asked :
              IF Candidates(s, result) = {} THEN ~Got(s) ELSE found[s] \in Candidates(s, result)
        /\ last_prices' = [s \in Symbol |-> IF s \in DOMAIN asked /\ Got(s) THEN quote[found[s]]
                                            ELSE last_prices[s]]
        /\ heard' = [s \in Symbol |-> IF s \in DOMAIN asked /\ Got(s) THEN 0 ELSE heard[s]]
        /\ LET priced == {s \in DOMAIN asked : last_prices'[s] # NoPrice}
           IN  /\ todo' = IF Due THEN priced ELSE {}
               /\ covered' = [s \in Symbol |-> IF s \notin priced THEN -1
                                               ELSE IF covered[s] = -1 THEN 0 ELSE covered[s]]
        /\ pc' = "store"
        /\ asked' = Nobody
        /\ UNCHANGED << directoryVars, watched, since_snapshot, rows, faults, mix >>

FetchSucceeds ==
    LET keys == {asked[s] : s \in DOMAIN asked}
    IN  \E result \in IF "partial" \in mix THEN SUBSET keys ELSE {keys} :
        \E quote \in [result -> Quotes], found \in [DOMAIN asked -> result \cup {NoKey}] :
           Fetch(result, quote, found)

\* store_snapshot: each row has a commit of its own.
Store(s) ==
    /\ s \in todo
    /\ rows' = rows \cup {[symbol |-> s, price |-> last_prices[s], age |-> 0, era |-> faults]}
    /\ todo' = todo \ {s}
    /\ UNCHANGED << directoryVars, watched, pc, asked, since_snapshot, last_prices, faults, mix,
                    heard, covered >>

\* A commit fails: the tick ends, what was stored stays, the next tick stores again.
StoreFails ==
    /\ todo # {}
    /\ "fail" \in mix
    /\ faults < MaxFaults
    /\ faults' = faults + 1
    /\ Abandon
    /\ UNCHANGED << directoryVars, watched, since_snapshot, last_prices, rows, mix, heard >>

\* _last_snapshot_at is set when all are stored; the rest of the tick follows.
EndTick ==
    /\ pc = "store"
    /\ todo = {}
    /\ since_snapshot' = IF Due THEN 0 ELSE since_snapshot
    /\ pc' = "sleep"
    /\ UNCHANGED << directoryVars, watched, asked, todo, last_prices, rows, faults, mix, heard,
                    covered >>

-----------------------------------------------------------------------------
(* The history. *)

\* Mutant: no minimum.
KeptAll(days) == days * Day

\* prune_price_history: at least one day.
Kept(days) == IF days < 1 THEN Day ELSE days * Day

\* cleanup_old_history, by the tick or by an administrator.
Prune(days) ==
    /\ "prune" \in mix
    /\ started
    /\ rows' = {row \in rows : row.age <= Kept(days)}
    /\ UNCHANGED << directoryVars, watched, tickVars, last_prices, faults, mix, heard,
                    covered >>

\* Mutant: the window has no far end.
WindowOpen(s) == {row \in rows : row.symbol = s /\ row.age >= Hour - Slack}

\* get_price_minutes_ago looks at these, and takes the newest.
Window(s) == {row \in rows : row.symbol = s /\ row.age \in Hour - Slack .. Hour + Slack}

Past(s) == CHOOSE row \in Window(s) : \A other \in Window(s) : row.age <= other.age

\* _price_move_score, without the division: the first entry that is reached.
Score(now, past, table) ==
    LET move    == IF now > past THEN now - past ELSE past - now
        reached == {i \in DOMAIN table : 100 * move >= table[i].percent * past}
    IN  IF reached = {} THEN 0
        ELSE table[CHOOSE i \in reached : \A j \in reached : i <= j].points

\* _price_move_pts
MovePoints(s) ==
    IF last_prices[s] = NoPrice \/ Window(s) = {} THEN 0
    ELSE Score(last_prices[s], Past(s).price, Moves[s])

-----------------------------------------------------------------------------
\* The process restarts.
Restart ==
    /\ "fail" \in mix
    /\ faults < MaxFaults
    /\ faults' = faults + 1
    /\ pairs' = Empty
    /\ refresh' = [r \in Refresher |-> NoRefresh]
    /\ started' = FALSE
    /\ Abandon
    /\ last_prices' = NoPrices
    /\ since_snapshot' = Interval
    /\ UNCHANGED << listed, watched, rows, mix, heard >>

Refreshes(r) == /\ started => "list" \in mix
                /\ r = "admin" => "admin" \in mix

DirectoryStep ==
    /\ \/ \E r \in Refresher : Refreshes(r) /\ RefreshStep(r)
       \/ \E k \in Key : "list" \in mix /\ Relist(k)
    /\ UNCHANGED priceVars

TickStarts == \E d \in IF "list" \in mix THEN LongDelays ELSE Delays : StartTick(d)

TickStep == FetchFails \/ FetchSucceeds \/ (\E s \in Symbol : Store(s)) \/ StoreFails \/ EndTick

Next ==
    \/ DirectoryStep
    \/ \E s \in Symbol : Watch(s) \/ Unwatch(s)
    \/ TickStarts
    \/ TickStep
    \/ \E days \in KeepDays : Prune(days)
    \/ Restart

Spec == Init /\ [][Next]_allVars

LoopAnswered == Refreshes("loop") /\ AnswerFull("loop") /\ UNCHANGED priceVars
LoopEnds     == (Apply("loop") \/ RefreshFails("loop")) /\ UNCHANGED priceVars
LoopApplied  == Filled(refresh["loop"].answer) /\ Apply("loop") /\ UNCHANGED priceVars

\* The loops go on, and Kraken is not out of reach for ever: requests that are
\* made again and again are answered now and then.
FairSpec ==
    /\ Spec
    /\ WF_allVars(LoopEnds) /\ SF_allVars(LoopAnswered) /\ SF_allVars(LoopApplied)
    /\ WF_allVars(TickStarts)
    /\ SF_allVars(FetchSucceeds)
    /\ WF_allVars(TickStep)

-----------------------------------------------------------------------------
(* Properties. *)

\* A price nobody has confirmed for as long as the lookup goes back moves
\* nothing: neither a request that keeps failing nor a pair that is left out of
\* the answers makes the market state see a move that may be long over.
StaleFeedScoresNothing ==
    \A s \in Symbol : heard[s] = End => MovePoints(s) = 0

\* Two snapshots of a symbol are an interval apart, unless a commit failed or the
\* process was restarted between them: then the next tick stores again, and the
\* spacing goes on from there.
SnapshotsSpaced ==
    \A r1, r2 \in rows :
        r1.symbol = r2.symbol /\ r1.era = r2.era /\ r1.age < r2.age
            => r2.age - r1.age >= Interval

\* A symbol that every tick has had a price for is never without a past price:
\* snapshots come often enough for the window, however ticks and interval fall
\* together, and the retention cannot delete them too early.
HourIsCovered ==
    \A s \in Symbol : covered[s] = End => Window(s) # {}

\* A pair Kraken no longer trades keeps the whole batch from being answered, and
\* so does a key it has renamed, until the directory is refreshed.  When the listing
\* settles and each watched symbol has a pair in it, prices come again.
PricesComeBack ==
    <>[][FALSE]_listed /\ <>[](\A s \in watched : KeysOf(s) \cap listed # {})
        => []<>(watched = {}) \/ []<><<FetchSucceeds>>_allVars

=============================================================================
