----------------------------- MODULE Housekeeping -----------------------------
(***************************************************************************)
(* What a tick of the scheduler does around the evaluation of the rules:   *)
(* the severity of an alert, the market state, and once a day the deletion *)
(* of old history; while users delete rules, and an administrator changes the *)
(* retention settings or starts the deletion by hand.                      *)
(*                                                                         *)
(*   app/services/scheduler.py      _tick                                  *)
(*   app/services/escalation.py     compute_severity                       *)
(*   app/services/market_state.py   evaluate                               *)
(*   app/services/retention.py      run_retention_cycle                    *)
(*   app/api/routes/admin.py        save_retention_settings, run now       *)
(*   app/models/alert_history.py    rule_id: ON DELETE CASCADE             *)
(*                                                                         *)
(* The history is a set of rows with ages instead of timestamps. Which     *)
(* rules fire at a tick, and the points of the price moves, are open: they *)
(* are decided in AlertEngine and by the price history. A rule that is     *)
(* not created yet is one that does not fire.                              *)
(***************************************************************************)
EXTENDS Integers, FiniteSets

CONSTANTS
    Rule, PairOf,        \* the rules and the pair each watches
    BTC, ETH,            \* the pairs with weights of their own
    MovePoints,          \* what the price moves of an hour can add to the score
    PerDay,              \* 86400 // KRAKEN_POLL_INTERVAL_SECONDS
    Day,                 \* a day, in the unit of ages
    RecurrenceWindow,    \* _RULE_RECURRENCE_HOURS, in that unit
    MultiWindow,         \* _MULTI_ASSET_MINUTES
    AlertWindow,         \* _ALERT_LOOKBACK_MINUTES
    MinDays,             \* the least number of days alerts are retained
    KeepDays,            \* what the settings can say
    Delays,              \* how much time a tick and the sleep after it can take
    Oldest,              \* ages from here on are not told apart
    MaxRows,             \* bound on the history rows present
    MaxFaults            \* bound on crashes and on exceptions that end something

ASSUME RuleAssumption   == IsFiniteSet(Rule)
ASSUME MoveAssumption   == MovePoints \subseteq Nat
ASSUME PerDayAssumption == PerDay \in Nat \ {0}
ASSUME DaysAssumption   == MinDays \in Nat /\ KeepDays \subseteq Int /\ MinDays \in KeepDays
ASSUME WindowAssumption ==
    /\ Day \in Nat /\ RecurrenceWindow \in Nat
    /\ MultiWindow \in 0 .. RecurrenceWindow /\ AlertWindow \in 0 .. RecurrenceWindow
    /\ RecurrenceWindow <= MinDays * Day
    /\ Oldest \in Nat /\ RecurrenceWindow < Oldest
ASSUME DelaysAssumption == Delays \subseteq Nat
ASSUME FaultAssumption  == MaxFaults \in Nat

VARIABLES
    rules,          \* the rules not deleted
    pc,             \* where the tick is
    cycle_count,    \* _cycle_count, modulo PerDay
    todo,           \* rules that will fire in this tick
    cur, severity,  \* the rule that fires, and how loud
    alert_rows,     \* alert_history
    market,         \* current_state of the one row of market_state, or "none"
    new_state,      \* what evaluate has found
    event,          \* the last market_state_changed event
    keep,           \* the retention settings for alert_history
    cleaning,       \* run_retention_cycle, as called by the tick and by a handler
    faults,
    \* observers
    fired,          \* what has fired in the longest window, deleted or not
    ticks_since     \* ticks begun since the scheduler's last complete retention

ticker   == << pc, cycle_count, todo, cur, severity, new_state >>
tables   == << rules, alert_rows, market, event, keep >>
vars     == << ticker, tables, cleaning, faults, fired, ticks_since >>

NoRule   == "none"
Cleaner  == {"tick", "admin"}
Steps    == {"idle", "fire", "record", "market", "event", "upsert", "poisoned", "retention"}
States   == {"calm", "warning", "risk", "event"}
Levels   == {"normal", "elevated", "critical"}
Change   == [from : States \cup {"none"}, to : States \cup {"none"}]
Keep     == [enabled : BOOLEAN, days : KeepDays]
Pair     == {PairOf[r] : r \in Rule}
AlertRow == [rule : Rule, pair : Pair, age : 0 .. Oldest]
Cleaning == [step : {"idle", "read", "prune", "stamp"}, keep : Keep]
NotCleaning == [step |-> "idle", keep |-> [enabled |-> FALSE, days |-> MinDays]]

TypeOK ==
    /\ rules \subseteq Rule
    /\ pc \in Steps
    /\ cycle_count \in 0 .. PerDay - 1
    /\ todo \subseteq Rule
    /\ cur \in Rule \cup {NoRule}
    /\ severity \in Levels
    /\ alert_rows \subseteq AlertRow
    /\ market \in States \cup {"none"} /\ new_state \in States
    /\ event \in Change
    /\ keep \in Keep
    /\ cleaning \in [Cleaner -> Cleaning]
    /\ faults \in 0 .. MaxFaults
    /\ fired \subseteq AlertRow
    /\ ticks_since \in Nat

\* A restored backup may have left any settings.
Init ==
    /\ pc = "idle" /\ cycle_count = 0 /\ todo = {} /\ cur = NoRule /\ severity = "normal"
    /\ rules = Rule /\ alert_rows = {} /\ fired = {}
    /\ market = "none" /\ new_state = "calm" /\ event = [from |-> "none", to |-> "none"]
    /\ keep \in Keep
    /\ cleaning = [c \in Cleaner |-> NotCleaning]
    /\ faults = 0 /\ ticks_since = 0

-----------------------------------------------------------------------------
(* The scores. *)

Recent(rows, window) == {x \in rows : x.age <= window}

Recurrence(r) == Cardinality({x \in Recent(alert_rows, RecurrenceWindow) : x.rule = r})
PairsFiring   == Cardinality({x.pair : x \in Recent(alert_rows, MultiWindow)})

\* Mutant: the first repetition does not count.
RecurrenceScoreLate(r) == IF Recurrence(r) >= 2 THEN 30 ELSE 0

RecurrenceScore(r) == IF Recurrence(r) >= 2 THEN 30 ELSE IF Recurrence(r) = 1 THEN 15 ELSE 0
MultiScore         == IF PairsFiring >= 3 THEN 20 ELSE IF PairsFiring >= 2 THEN 10 ELSE 0
ImportanceScore(r) == IF PairOf[r] \in {BTC, ETH} THEN 10 ELSE 0

Level(score) == IF score >= 30 THEN "critical" ELSE IF score >= 15 THEN "elevated" ELSE "normal"

ComputeSeverity(r) == Level(RecurrenceScore(r) + MultiScore + ImportanceScore(r))

AlertScore ==
    LET Fired(P) == Cardinality({x \in Recent(alert_rows, AlertWindow) : x.pair \in P})
    IN  25 * Fired({BTC}) + 18 * Fired({ETH}) + 10 * Fired(Pair \ {BTC, ETH})

ScoreToState(score) == CASE score >= 60 -> "event"
                         [] score >= 30 -> "risk"
                         [] score >= 10 -> "warning"
                         [] OTHER       -> "calm"

-----------------------------------------------------------------------------
(* The tick. *)

Older(x, d) == [x EXCEPT !.age = IF x.age + d > Oldest THEN Oldest ELSE x.age + d]
Aged(rows, d) == {Older(x, d) : x \in rows}

NextCount == (cycle_count + 1) % PerDay

\* _loop has slept; the rules `crossed` will fire, unless the tick is cut off.
StartTick(d, crossed) ==
    /\ pc = "idle"
    /\ crossed \subseteq rules
    /\ Cardinality(alert_rows) + Cardinality(crossed) <= MaxRows
    /\ pc' = "fire"
    /\ cycle_count' = NextCount
    /\ todo' = crossed
    /\ alert_rows' = Aged(alert_rows, d)
    /\ fired' = Recent(Aged(fired, d), RecurrenceWindow)
    /\ ticks_since' = ticks_since + 1
    /\ UNCHANGED << rules, cur, severity, market, new_state, event, keep, cleaning, faults >>

\* _fire: the severity is computed before the alert has a history row.
Fire(r) ==
    /\ pc = "fire" /\ r \in todo
    /\ todo' = todo \ {r}
    /\ cur' = r
    /\ severity' = ComputeSeverity(r)
    /\ pc' = "record"
    /\ UNCHANGED << cycle_count, new_state, tables, cleaning, faults, fired, ticks_since >>

\* The row has the pair of the rule as it is now.
Triggered(r) == [rule |-> r, pair |-> PairOf[r], age |-> 0]

RecordHistory ==
    /\ pc = "record" /\ cur \in rules
    /\ alert_rows' = alert_rows \cup {Triggered(cur)}
    /\ fired' = fired \cup {Triggered(cur)}
    /\ cur' = NoRule /\ severity' = "normal"
    /\ pc' = "fire"
    /\ UNCHANGED << rules, cycle_count, todo, market, new_state, event, keep,
                    cleaning, faults, ticks_since >>

\* The rule has been deleted meanwhile: the foreign key refuses the row, and the
\* exception ends the tick.
RecordRefused ==
    /\ pc = "record" /\ cur \notin rules
    /\ pc' = "idle" /\ todo' = {}
    /\ cur' = NoRule /\ severity' = "normal"
    /\ UNCHANGED << cycle_count, new_state, tables, cleaning, faults, fired, ticks_since >>

\* No rule is left, or the prices could not be fetched: the cycle returns either way.
EvaluationDone ==
    /\ pc = "fire"
    /\ todo' = {}
    /\ pc' = "market"
    /\ UNCHANGED << cycle_count, cur, severity, new_state, tables, cleaning, faults,
                    fired, ticks_since >>

\* evaluate: the score, and the state saved before.
Evaluate(points) ==
    /\ pc = "market"
    /\ new_state' = ScoreToState(AlertScore + points)
    /\ pc' = IF new_state' = market THEN "upsert" ELSE "event"
    /\ UNCHANGED << cycle_count, todo, cur, severity, tables, cleaning, faults, fired,
                    ticks_since >>

MarketEvent ==
    /\ pc = "event"
    /\ event' = [from |-> market, to |-> new_state]
    /\ pc' = "upsert"
    /\ UNCHANGED << rules, cycle_count, todo, cur, severity, alert_rows, market, new_state, keep,
                    cleaning, faults, fired, ticks_since >>

Fault == faults < MaxFaults /\ faults' = faults + 1

\* Mutant: the session survives the failed event.
EventLostUnnoticed ==
    /\ pc = "event"
    /\ Fault
    /\ pc' = "upsert"
    /\ UNCHANGED << cycle_count, todo, cur, severity, new_state, tables, cleaning, fired,
                    ticks_since >>

\* _write swallows the exception; the session refuses the next statement.
EventLost ==
    /\ pc = "event"
    /\ Fault
    /\ pc' = "poisoned"
    /\ UNCHANGED << cycle_count, todo, cur, severity, new_state, tables, cleaning, fired,
                    ticks_since >>

SessionBroken ==
    /\ pc = "poisoned"
    /\ pc' = "idle" /\ new_state' = "calm"
    /\ UNCHANGED << cycle_count, todo, cur, severity, tables, cleaning, faults, fired,
                    ticks_since >>

\* Mutant: not on a day on which the deletion is off.
RetentionDueWhenOn == cycle_count = 0 /\ keep.enabled

RetentionDue == cycle_count = 0

Upsert ==
    /\ pc = "upsert"
    /\ market' = new_state /\ new_state' = "calm"
    /\ pc' = IF RetentionDue THEN "retention" ELSE "idle"
    /\ cleaning' = IF RetentionDue THEN [cleaning EXCEPT !["tick"].step = "read"] ELSE cleaning
    /\ UNCHANGED << rules, cycle_count, todo, cur, severity, alert_rows, event, keep, faults,
                    fired, ticks_since >>

-----------------------------------------------------------------------------
(* Retention: the settings, the DELETE, and the report. *)

Floor(days) == IF days < MinDays THEN MinDays ELSE days

\* Mutants: no least number of days; the switch is never read as on.
ExpiredAnyAge(x, k) == k.enabled /\ x.age > k.days * Day
ExpiredNever(x, k) == FALSE

Expired(x, k) == k.enabled /\ x.age > Floor(k.days) * Day

ReadKeep(c) ==
    /\ cleaning[c].step = "read"
    /\ cleaning' = [cleaning EXCEPT ![c] = [step |-> "prune", keep |-> keep]]
    /\ UNCHANGED << ticker, tables, faults, fired, ticks_since >>

Prune(c) ==
    /\ cleaning[c].step = "prune"
    /\ alert_rows' = {x \in alert_rows : ~Expired(x, cleaning[c].keep)}
    /\ cleaning' = [cleaning EXCEPT ![c].step = "stamp"]
    /\ UNCHANGED << ticker, rules, market, event, keep, faults, fired, ticks_since >>

Stamp(c) ==
    /\ cleaning[c].step = "stamp"
    /\ cleaning' = [cleaning EXCEPT ![c] = NotCleaning]
    /\ IF c = "tick" THEN pc' = "idle" /\ ticks_since' = 0 ELSE UNCHANGED << pc, ticks_since >>
    /\ UNCHANGED << cycle_count, todo, cur, severity, new_state, tables, faults, fired >>

\* An administrator starts it by hand.
RunRetentionNow ==
    /\ cleaning["admin"].step = "idle"
    /\ cleaning' = [cleaning EXCEPT !["admin"].step = "read"]
    /\ UNCHANGED << ticker, tables, faults, fired, ticks_since >>

CleanFails ==
    /\ cleaning["admin"].step # "idle"
    /\ Fault
    /\ cleaning' = [cleaning EXCEPT !["admin"] = NotCleaning]
    /\ UNCHANGED << ticker, tables, fired, ticks_since >>

\* A form is saved key by key, and can be cut off after the first: as seen from
\* here, any key at any time. The handler clamps the days.
SaveEnabled(enabled) ==
    /\ keep' = [keep EXCEPT !.enabled = enabled]
    /\ UNCHANGED << ticker, rules, alert_rows, market, event, cleaning, faults, fired,
                    ticks_since >>

SaveDays(days) ==
    /\ keep' = [keep EXCEPT !.days = Floor(days)]
    /\ UNCHANGED << ticker, rules, alert_rows, market, event, cleaning, faults, fired,
                    ticks_since >>

\* A user deletes a rule; the database deletes its history with it.
DeleteRule(r) ==
    /\ r \in rules
    /\ rules' = rules \ {r}
    /\ alert_rows' = {x \in alert_rows : x.rule # r}
    /\ fired' = {x \in fired : x.rule # r}
    /\ UNCHANGED << ticker, market, event, keep, cleaning, faults, ticks_since >>

-----------------------------------------------------------------------------
(* Failure. *)

\* A statement raises, in the evaluation, in evaluate or in the retention: the
\* tick ends, and what it has committed stays.
TickFails ==
    /\ pc \notin {"idle", "poisoned"}
    /\ Fault
    /\ pc' = "idle" /\ todo' = {}
    /\ cur' = NoRule /\ severity' = "normal" /\ new_state' = "calm"
    /\ cleaning' = [cleaning EXCEPT !["tick"] = NotCleaning]
    /\ UNCHANGED << cycle_count, tables, fired, ticks_since >>

\* The process dies and starts again; its counter starts from zero.
Crash ==
    /\ Fault
    /\ pc' = "idle" /\ cycle_count' = 0 /\ todo' = {}
    /\ cur' = NoRule /\ severity' = "normal" /\ new_state' = "calm"
    /\ cleaning' = [c \in Cleaner |-> NotCleaning]
    /\ UNCHANGED << tables, fired, ticks_since >>

-----------------------------------------------------------------------------
TickStep ==
    \/ \E d \in Delays, crossed \in SUBSET Rule : StartTick(d, crossed)
    \/ \E r \in Rule : Fire(r)
    \/ RecordHistory \/ RecordRefused \/ EvaluationDone
    \/ \E points \in MovePoints : Evaluate(points)
    \/ MarketEvent \/ SessionBroken \/ Upsert
    \/ ReadKeep("tick") \/ Prune("tick") \/ Stamp("tick")

AdminStep ==
    \/ RunRetentionNow \/ ReadKeep("admin") \/ Prune("admin") \/ Stamp("admin") \/ CleanFails
    \/ \E enabled \in BOOLEAN : SaveEnabled(enabled)
    \/ \E days \in KeepDays : SaveDays(days)
    \/ \E r \in Rule : DeleteRule(r)

Next == TickStep \/ AdminStep \/ EventLost \/ TickFails \/ Crash

Spec == Init /\ [][Next]_vars

\* The loop sleeps for a fixed time, and every statement returns or raises.
FairSpec == Spec /\ WF_vars(TickStep)

-----------------------------------------------------------------------------
(* Properties. *)

\* Whatever the settings say and whoever runs the retention, no score looks at a
\* row that it has deleted: severity and market state are those of the whole
\* history of the rules there are.
WindowsIntact == Recent(alert_rows, RecurrenceWindow) = fired

\* An alert of a rule that fired before, at most a day ago, goes to the push
\* channels, whatever else fires and whatever was deleted.
RepeatEscalates ==
    [][\A r \in Rule :
          (/\ pc = "fire" /\ pc' = "record" /\ cur' = r
           /\ \E x \in fired : x.rule = r)
              => severity' \in {"elevated", "critical"}]_vars

\* No change of the market state is saved without its event: when the event
\* could not be written, neither is the state.
NoSilentChange == [][market' # market => event = [from |-> market, to |-> market']]_vars

\* The retention runs once in PerDay ticks; each crash and each tick that is cut
\* off, by a failure or by the deletion of a rule it was about to record, can
\* postpone it by as much again.
RetentionIsDaily == ticks_since <= PerDay * (1 + faults + Cardinality(Rule \ rules))

\* With the settings left alone and the deletion on, the table is again and again
\* free of rows older than they say.
OldRowsGo ==
    \A k \in Keep : k.enabled =>
        (<>[](keep = k) => []<>(\A x \in alert_rows : x.age <= Floor(k.days) * Day))

=============================================================================
