----------------------------- MODULE AlertEngine -----------------------------
(***************************************************************************)
(* One scheduler tick of the alert engine, running beside the web handlers *)
(* that create, edit, toggle, clone and delete the same rules.             *)
(*                                                                         *)
(*   app/services/scheduler.py      the tick, what an exception does to it *)
(*   app/services/alert_engine.py   run_evaluation_cycle, _fire            *)
(*   app/services/market_data.py    fetch_prices                           *)
(*   app/crud/alert.py              the statements and their commits       *)
(*   app/api/routes/alerts.py       the handlers                           *)
(*                                                                         *)
(* Every `await` is a point where the other coroutines run, so an action   *)
(* is the code between two of them and ends with one commit at most.  The  *)
(* tick and each request hold an ORM session: rows are read once and kept, *)
(* a flush writes only the columns whose value changed since they were     *)
(* loaded, and a flush or refresh that finds no row raises.                *)
(***************************************************************************)
EXTENDS RuleEval, Sequences, FiniteSets

CONSTANTS
    RuleId,      \* primary keys the database hands out; never reused
    Client,      \* concurrent web requests
    Pair,        \* trading pairs
    Price,       \* prices Kraken can quote
    ZoneNames,   \* what active_timezone can hold, names the host does not know included
    Forms,       \* what a user can submit on the rule form
    KeepFor,     \* no retention deletes a history row younger than this
    MaxTime,     \* bound: the clock stops here
    MaxFaults    \* bound: crashes, failed statements and cancelled ticks

NoPrice == 0

Config == [ pair                : Pair,
            condition           : Sides,
            threshold           : Int,
            cooldown_minutes    : Nat \ {0},
            send_once           : BOOLEAN,
            time_filter_enabled : BOOLEAN,
            active_hours_start  : TimesOfDay \cup {Unset},
            active_hours_end    : TimesOfDay \cup {Unset},
            active_timezone     : ZoneNames,
            critical_override   : BOOLEAN ]

ASSUME RuleAssumption   == RuleId # {}
ASSUME ZoneAssumption   == "UTC" \in ZoneNames
ASSUME PriceAssumption  == Price \subseteq Nat \ {0}
ASSUME FormsAssumption  == Forms # {} /\ Forms \subseteq Config
ASSUME KeepAssumption   == KeepFor \in Nat
ASSUME BoundsAssumption == MaxTime \in Nat /\ MaxFaults \in Nat

Row == [ config            : Config,
         is_active         : BOOLEAN,
         last_state        : LastStates,
         last_triggered_at : Nat \cup {Never} ]

NewRow(form) == [ config |-> form, is_active |-> TRUE,
                  last_state |-> "none", last_triggered_at |-> Never ]

BlankRow == NewRow(CHOOSE f \in Forms : TRUE)
AnyRule  == CHOOSE r \in RuleId : TRUE

Operations == {"edit", "toggle", "clone", "delete"}
Request    == [op : Operations \cup {"none"}, rule : RuleId, row : Row]
NoRequest  == [op |-> "none", rule |-> AnyRule, row |-> BlankRow]

VARIABLES
    \* the database
    existence,   \* existence[r]: is there a row with this key?
    rules,       \* rules[r]: the row, while existence[r] = "live"
    history,     \* history[r]: its alert_history rows, oldest first; a row the
                 \* retention deleted leaves a Pruned one in its place
    \* the web server
    request,     \* request[c]: a handler between its SELECT and its commit
    \* the tick
    pc,          \* where the tick is; "idle" between two ticks
    todo,        \* loaded rules not evaluated yet
    cur,         \* the rule being fired, suppressed or written
    held,        \* held[r]: the session's copy of the row
    firedAt,     \* `now` in _fire
    prices,      \* MarketDataService._last_prices
    \* the environment
    now, faults,
    \* observers: written by the actions, read only by the properties
    open,        \* open[r]: dispatches since the row last recorded a firing
    lastSentAt,  \* lastSentAt[r]: `now` of the last dispatch
    seen,        \* seen[r]: the observation the row's last_state comes from
    dirty,       \* rules a client changed since the tick loaded its copies
    sinceWrite   \* sinceWrite[r]: dispatches since a client last wrote the row

database  == << existence, rules, history >>
tick      == << pc, todo, cur, held, firedAt, prices >>
observers == << open, lastSentAt, seen, dirty, sinceWrite >>
vars      == << database, request, tick, now, faults, observers >>

Firing      == {"send", "record", "patch", "state"}
Suppressing == {"suppress_event", "suppress_state"}
Reloading   == {"reload", "reload_fired"}
Steps == {"idle", "fetch", "rules", "event", "poisoned"}
         \cup Firing \cup Suppressing \cup Reloading

HistoryRow  == [at : Nat, status : {"log", "patched", "pruned"}]
Pruned      == [at |-> 0, status |-> "pruned"]
Observation == [at : Nat, price : Nat, pair : Pair, threshold : Int]

TypeOK ==
    /\ existence \in [RuleId -> {"unused", "live", "deleted"}]
    /\ rules \in [RuleId -> Row]
    /\ history \in [RuleId -> Seq(HistoryRow)]
    /\ request \in [Client -> Request]
    /\ pc \in Steps
    /\ todo \in SUBSET RuleId
    /\ cur \in RuleId
    /\ held \in [RuleId -> Row]
    /\ firedAt \in Nat
    /\ prices \in [Pair -> Price \cup {NoPrice}]
    /\ now \in Nat
    /\ faults \in Nat
    /\ open \in [RuleId -> Nat]
    /\ lastSentAt \in [RuleId -> Nat \cup {Never}]
    /\ seen \in [RuleId -> Observation]
    /\ dirty \in SUBSET RuleId
    /\ sinceWrite \in [RuleId -> Nat]

Unseen == [at |-> 0, price |-> NoPrice, pair |-> BlankRow.config.pair, threshold |-> 0]

Init ==
    /\ existence = [r \in RuleId |-> "unused"]
    /\ rules = [r \in RuleId |-> BlankRow]
    /\ history = [r \in RuleId |-> << >>]
    /\ request = [c \in Client |-> NoRequest]
    /\ pc = "idle"
    /\ todo = {}
    /\ cur = AnyRule
    /\ held = [r \in RuleId |-> BlankRow]
    /\ firedAt = 0
    /\ prices = [p \in Pair |-> NoPrice]
    /\ now = 0
    /\ faults = 0
    /\ open = [r \in RuleId |-> 0]
    /\ lastSentAt = [r \in RuleId |-> Never]
    /\ seen = [r \in RuleId |-> Unseen]
    /\ dirty = {}
    /\ sinceWrite = [r \in RuleId |-> 0]

-----------------------------------------------------------------------------
(* The ORM session. *)

\* Mutant: the whole row is written back.
WrittenAll(stored, loaded, new) == new

\* A flush puts a column in the UPDATE only if it was changed after loading.
Written(stored, loaded, new) == IF new # loaded THEN new ELSE stored

MergeConfig(stored, loaded, new) ==
    LET Column(f) == Written(stored[f], loaded[f], new[f])
    IN  [ pair                |-> Column("pair"),
          condition           |-> Column("condition"),
          threshold           |-> Column("threshold"),
          cooldown_minutes    |-> Column("cooldown_minutes"),
          send_once           |-> Column("send_once"),
          time_filter_enabled |-> Column("time_filter_enabled"),
          active_hours_start  |-> Column("active_hours_start"),
          active_hours_end    |-> Column("active_hours_end"),
          active_timezone     |-> Column("active_timezone"),
          critical_override   |-> Column("critical_override") ]

Flush(stored, loaded, new) ==
    [ config            |-> MergeConfig(stored.config, loaded.config, new.config),
      is_active         |-> Written(stored.is_active, loaded.is_active, new.is_active),
      last_state        |-> Written(stored.last_state, loaded.last_state, new.last_state),
      last_triggered_at |-> Written(stored.last_triggered_at,
                                    loaded.last_triggered_at, new.last_triggered_at) ]

\* The tick's session is closed: nothing it held survives.
EndSession ==
    /\ pc' = "idle"
    /\ todo' = {}
    /\ cur' = AnyRule
    /\ held' = [r \in RuleId |-> BlankRow]
    /\ firedAt' = 0
    /\ dirty' = {}

-----------------------------------------------------------------------------
(* The tick. *)

\* Mutant: the query lost its WHERE is_active.
StartTickAll ==
    /\ pc = "idle"
    /\ pc' = "fetch"
    /\ todo' = {r \in RuleId : existence[r] = "live"}
    /\ held' = [r \in RuleId |-> IF r \in todo' THEN rules[r] ELSE BlankRow]
    /\ UNCHANGED << database, request, cur, firedAt, prices, now, faults, observers >>

\* get_active_rules: the session keeps a copy of every active row.
StartTick ==
    /\ pc = "idle"
    /\ pc' = "fetch"
    /\ todo' = {r \in RuleId : existence[r] = "live" /\ rules[r].is_active}
    /\ held' = [r \in RuleId |-> IF r \in todo' THEN rules[r] ELSE BlankRow]
    /\ UNCHANGED << database, request, cur, firedAt, prices, now, faults, observers >>

\* Kraken fails, or refuses the batch: logged, and the cycle returns.
FetchFails ==
    /\ pc = "fetch"
    /\ EndSession
    /\ UNCHANGED << database, request, prices, now, faults,
                    open, lastSentAt, seen, sinceWrite >>

\* A pair missing from the reply keeps the last price it ever had.
FetchPrices ==
    /\ pc = "fetch"
    /\ \E found \in SUBSET Pair : \E quote \in [found -> Price] :
           prices' = [p \in Pair |-> IF p \in found THEN quote[p] ELSE prices[p]]
    /\ pc' = "rules"
    /\ UNCHANGED << database, request, todo, cur, held, firedAt, now, faults, observers >>

PriceOf(r) == prices[held[r].config.pair]
SideOf(r)  == CurrentState(PriceOf(r), held[r].config.threshold)

\* The loop takes its next rule, one that has a price.
TakeRule(r) ==
    /\ pc = "rules"
    /\ r \in todo
    /\ PriceOf(r) # NoPrice
    /\ todo' = todo \ {r}

SkipUnpriced(r) ==
    /\ pc = "rules"
    /\ r \in todo
    /\ PriceOf(r) = NoPrice
    /\ todo' = todo \ {r}
    /\ UNCHANGED << database, request, pc, cur, held, firedAt, prices, now, faults, observers >>

Observe(r, t) ==
    seen' = [seen EXCEPT ![r] = [at        |-> t,
                                 price     |-> PriceOf(r),
                                 pair      |-> held[r].config.pair,
                                 threshold |-> held[r].config.threshold]]

\* update_rule_state sets columns and commits; then it reloads the row.
UpdateRuleState(r, new) ==
    /\ existence[r] = "live"
    /\ rules' = [rules EXCEPT ![r] = Flush(@, held[r], new)]
    /\ held' = [held EXCEPT ![r] = new]

Reload(from, to) ==
    /\ pc = from
    /\ existence[cur] = "live"
    /\ held' = [held EXCEPT ![cur] = rules[cur]]
    /\ pc' = to
    /\ UNCHANGED << database, request, todo, cur, firedAt, prices, now, faults, observers >>

\* No trigger: the side is recorded, if it is a new one.
Unchanged(r) == held[r].last_state = SideOf(r)

NewSide(r) == /\ UpdateRuleState(r, [held[r] EXCEPT !.last_state = SideOf(r)])
              /\ cur' = r
              /\ pc' = "reload"

\* Mutant: a rule in its cooldown is not evaluated at all.
TrackStateCooled(r) ==
    /\ TakeRule(r)
    /\ ~ShouldTrigger(held[r], PriceOf(r), now)
    /\ \/ Unchanged(r) /\ UNCHANGED << rules, held, cur, pc >>
       \/ /\ ~Unchanged(r)
          /\ IF CooledDown(held[r].config.cooldown_minutes, held[r].last_triggered_at, now)
             THEN NewSide(r)
             ELSE UNCHANGED << rules, held, cur, pc >>
    /\ Observe(r, now)
    /\ UNCHANGED << existence, history, request, firedAt, prices, now, faults,
                    open, lastSentAt, dirty, sinceWrite >>

TrackState(r) ==
    /\ TakeRule(r)
    /\ ~ShouldTrigger(held[r], PriceOf(r), now)
    /\ \/ Unchanged(r) /\ UNCHANGED << rules, held, cur, pc >>
       \/ ~Unchanged(r) /\ NewSide(r)
    /\ Observe(r, now)
    /\ UNCHANGED << existence, history, request, firedAt, prices, now, faults,
                    open, lastSentAt, dirty, sinceWrite >>

Trigger(r, step) ==
    /\ TakeRule(r)
    /\ ShouldTrigger(held[r], PriceOf(r), now)
    /\ pc' = step
    /\ cur' = r
    /\ firedAt' = now
    /\ UNCHANGED << database, request, held, prices, now, faults, observers >>

StartFire(r)     == PassesWindow(held[r].config, now) /\ Trigger(r, "send")
StartSuppress(r) == ~PassesWindow(held[r].config, now) /\ Trigger(r, "suppress_event")

\* event_log: a row of its own.  A failure is swallowed without a rollback,
\* and the session refuses every later statement.
WriteEvent(from, to) ==
    /\ pc = from
    /\ \/ pc' = to /\ UNCHANGED faults
       \/ pc' = "poisoned" /\ faults < MaxFaults /\ faults' = faults + 1
    /\ UNCHANGED << database, request, todo, cur, held, firedAt, prices, now, observers >>

SuppressEvent == WriteEvent("suppress_event", "suppress_state")

\* Mutant: a suppressed crossing leaves the row alone.
SuppressStateForgets ==
    /\ pc = "suppress_state"
    /\ Observe(cur, firedAt)
    /\ pc' = "rules"
    /\ UNCHANGED << database, request, todo, cur, held, firedAt, prices, now, faults,
                    open, lastSentAt, dirty, sinceWrite >>

\* The crossing outside the window is recorded but not notified.
SuppressState ==
    /\ pc = "suppress_state"
    /\ UpdateRuleState(cur, [held[cur] EXCEPT !.last_state = SideOf(cur)])
    /\ Observe(cur, firedAt)
    /\ pc' = "reload"
    /\ UNCHANGED << existence, history, request, todo, cur, firedAt, prices, now, faults,
                    open, lastSentAt, dirty, sinceWrite >>

ReloadSide == Reload("reload", "rules")

\* Mutant: the dispatch is repeated before it is recorded.
SendAlertTwice ==
    /\ pc = "send"
    /\ pc' \in {"send", "record"}
    /\ open' = [open EXCEPT ![cur] = @ + 1]
    /\ lastSentAt' = [lastSentAt EXCEPT ![cur] = firedAt]
    /\ UNCHANGED << database, request, todo, cur, held, firedAt, prices, now, faults,
                    seen, dirty, sinceWrite >>

\* send_alert has tried every channel.
SendAlert ==
    /\ pc = "send"
    /\ pc' = "record"
    /\ open' = [open EXCEPT ![cur] = @ + 1]
    /\ lastSentAt' = [lastSentAt EXCEPT ![cur] = firedAt]
    /\ sinceWrite' = [sinceWrite EXCEPT ![cur] = IF cur \in dirty THEN @ ELSE @ + 1]
    /\ UNCHANGED << database, request, todo, cur, held, firedAt, prices, now, faults,
                    seen, dirty >>

\* create_history_record: the row says "delivered, by log" until it is patched.
\* Its refresh and the patch need the row alike.
RecordHistory ==
    /\ pc = "record"
    /\ existence[cur] = "live"
    /\ history' = [history EXCEPT ![cur] = Append(@, [at |-> now, status |-> "log"])]
    /\ pc' = "patch"
    /\ UNCHANGED << existence, rules, request, todo, cur, held, firedAt, prices, now, faults,
                    observers >>

\* The row the tick has just written.
Recorded == history[cur][Len(history[cur])]

\* The true delivery status, in a commit of its own.
PatchHistory ==
    /\ pc = "patch"
    /\ existence[cur] = "live"
    /\ Recorded # Pruned
    /\ history' = [history EXCEPT ![cur][Len(history[cur])].status = "patched"]
    /\ pc' = "state"
    /\ UNCHANGED << existence, rules, request, todo, cur, held, firedAt, prices, now, faults,
                    observers >>

\* Mutant: the time of the firing is not stored.
FiredRowNoTime(row) == [row EXCEPT !.last_state = SideOf(cur),
                                   !.is_active = @ /\ ~row.config.send_once]

FiredRow(row) == [row EXCEPT !.last_state = SideOf(cur),
                             !.last_triggered_at = firedAt,
                             !.is_active = @ /\ ~row.config.send_once]

RecordFiring ==
    /\ pc = "state"
    /\ UpdateRuleState(cur, FiredRow(held[cur]))
    /\ Observe(cur, firedAt)
    /\ open' = [open EXCEPT ![cur] = 0]
    /\ pc' = "reload_fired"
    /\ UNCHANGED << existence, history, request, todo, cur, firedAt, prices, now, faults,
                    lastSentAt, dirty, sinceWrite >>

ReloadFired    == Reload("reload_fired", "event")
TriggeredEvent == WriteEvent("event", "rules")

\* Mutant: a state update of a deleted row is not noticed and never returns.
NeedsRowHang(r) == r = cur /\ pc \in {"record", "patch"}

\* The statement to run needs a row that was deleted: the foreign key or the
\* stale-data check raises, and the rules after this one lose the tick.
NeedsRow(r) ==
    \/ r = cur /\ pc \in {"suppress_state", "record", "patch", "state"} \cup Reloading
    \/ /\ pc = "rules" /\ r \in todo /\ PriceOf(r) # NoPrice
       /\ ~ShouldTrigger(held[r], PriceOf(r), now) /\ ~Unchanged(r)

Abort == /\ EndSession
         /\ UNCHANGED << database, request, prices, now, open, lastSentAt, seen, sinceWrite >>

RowGone(r)     == NeedsRow(r) /\ existence[r] # "live" /\ Abort /\ UNCHANGED faults
SessionBroken  == pc = "poisoned" /\ Abort /\ UNCHANGED faults
EndTick        == pc = "rules" /\ todo = {} /\ Abort /\ UNCHANGED faults

\* A tick that hung for so long that the retention took the row it has just
\* written: the patch finds nothing.  That counts as a fault.
RecordPruned ==
    /\ pc = "patch"
    /\ existence[cur] = "live"
    /\ Recorded = Pruned
    /\ faults' = faults + 1
    /\ Abort

\* A statement fails or the task is cancelled: `except Exception` in _tick.
TickFails == /\ pc # "idle" /\ faults < MaxFaults /\ faults' = faults + 1
             /\ Abort

\* The process dies: the handlers in flight and the last prices go with it.
Crash ==
    /\ faults < MaxFaults
    /\ faults' = faults + 1
    /\ EndSession
    /\ request' = [c \in Client |-> NoRequest]
    /\ prices' = [p \in Pair |-> NoPrice]
    /\ UNCHANGED << database, now, open, lastSentAt, seen, sinceWrite >>

-----------------------------------------------------------------------------
(* The handlers. *)

\* A client's commit on r: observers note that it overtook the tick.
Touch(r) == /\ dirty' = IF pc = "idle" THEN dirty ELSE dirty \cup {r}
            /\ sinceWrite' = [sinceWrite EXCEPT ![r] = 0]
            /\ UNCHANGED << open, lastSentAt, seen >>

Insert(r, row) == /\ existence[r] = "unused"
                  /\ existence' = [existence EXCEPT ![r] = "live"]
                  /\ rules' = [rules EXCEPT ![r] = row]
                  /\ UNCHANGED history

CreateRule(r, form) == /\ Insert(r, NewRow(form))
                       /\ Touch(r)
                       /\ UNCHANGED << request, tick, now, faults >>

\* get_rule_by_id, at the head of every handler of an existing rule.
LoadRule(c, op, r) ==
    /\ request[c].op = "none"
    /\ existence[r] = "live"
    /\ request' = [request EXCEPT ![c] = [op |-> op, rule |-> r, row |-> rules[r]]]
    /\ UNCHANGED << database, tick, now, faults, observers >>

Finish(c, op) == /\ request[c].op = op
                 /\ request' = [request EXCEPT ![c] = NoRequest]
                 /\ UNCHANGED << tick, now, faults >>

\* An hour the form leaves empty is kept, unless both are empty.
EditedConfig(config, form) ==
    LET Kept(f) == form[f] = Unset /\ \E g \in {"active_hours_start", "active_hours_end"} :
                                          form[g] # Unset
    IN  [form EXCEPT
            !.active_hours_start = IF Kept("active_hours_start")
                                   THEN config.active_hours_start ELSE @,
            !.active_hours_end   = IF Kept("active_hours_end")
                                   THEN config.active_hours_end ELSE @]

\* The row was deleted meanwhile: the UPDATE finds nothing and the handler fails.
Save(c, new) ==
    LET r == request[c].rule
    IN  IF existence[r] = "live"
        THEN /\ rules' = [rules EXCEPT ![r] = Flush(@, request[c].row, new)]
             /\ Touch(r)
             /\ UNCHANGED << existence, history >>
        ELSE UNCHANGED << database, observers >>

\* Mutant: an edit also clears the recorded side.
EditRuleResets(c, form) ==
    /\ Finish(c, "edit")
    /\ Save(c, [request[c].row EXCEPT !.config = EditedConfig(@, form), !.last_state = "none"])

EditRule(c, form) ==
    /\ Finish(c, "edit")
    /\ Save(c, [request[c].row EXCEPT !.config = EditedConfig(@, form)])

ToggleRule(c) ==
    /\ Finish(c, "toggle")
    /\ Save(c, [request[c].row EXCEPT !.is_active = ~@])

\* The copy starts disabled, with no state and without the time filter.
CloneConfig(config) ==
    [config EXCEPT !.time_filter_enabled = FALSE,
                   !.active_hours_start  = Unset,
                   !.active_hours_end    = Unset,
                   !.active_timezone     = "UTC",
                   !.critical_override   = FALSE]

CloneRule(c, r) ==
    /\ Finish(c, "clone")
    /\ Insert(r, [NewRow(CloneConfig(request[c].row.config)) EXCEPT !.is_active = FALSE])
    /\ Touch(r)

\* The history rows cascade.
DeleteRule(c) ==
    LET r == request[c].rule
    IN  /\ Finish(c, "delete")
        /\ existence' = [existence EXCEPT ![r] = "deleted"]
        /\ rules' = [rules EXCEPT ![r] = BlankRow]
        /\ history' = [history EXCEPT ![r] = << >>]
        /\ Touch(r)

\* Mutant: the day of the cutoff goes too.
RetentionInclusive(cutoff) ==
    /\ history' = [r \in RuleId |->
                      [i \in DOMAIN history[r] |->
                          IF history[r][i].at <= cutoff THEN Pruned ELSE history[r][i]]]
    /\ UNCHANGED << existence, rules, request, tick, now, faults, observers >>

\* cleanup_old_alert_history, by the scheduler or by an administrator, any
\* setting: the rows older than a cutoff computed some time before.
Retention(cutoff) ==
    /\ history' = [r \in RuleId |->
                      [i \in DOMAIN history[r] |->
                          IF history[r][i].at < cutoff THEN Pruned ELSE history[r][i]]]
    /\ UNCHANGED << existence, rules, request, tick, now, faults, observers >>

ClockTick == /\ now < MaxTime
             /\ now' = now + 1
             /\ UNCHANGED << database, request, tick, faults, observers >>

-----------------------------------------------------------------------------
Evaluate(r) == \/ SkipUnpriced(r) \/ TrackState(r) \/ StartFire(r)
               \/ StartSuppress(r) \/ RowGone(r)

EngineStep ==
    \/ FetchPrices \/ FetchFails
    \/ \E r \in RuleId : Evaluate(r)
    \/ SuppressEvent \/ SuppressState \/ ReloadSide
    \/ SendAlert \/ RecordHistory \/ PatchHistory \/ RecordPruned
    \/ RecordFiring \/ ReloadFired \/ TriggeredEvent
    \/ SessionBroken \/ EndTick

Handler(c) ==
    \/ \E op \in Operations, r \in RuleId : LoadRule(c, op, r)
    \/ \E form \in Forms : EditRule(c, form)
    \/ ToggleRule(c)
    \/ \E r \in RuleId : CloneRule(c, r)
    \/ DeleteRule(c)

Environment ==
    \/ \E r \in RuleId, form \in Forms : CreateRule(r, form)
    \/ \E cutoff \in 1 .. now - KeepFor : Retention(cutoff)
    \/ TickFails \/ Crash \/ ClockTick

Next == \/ StartTick
        \/ EngineStep
        \/ \E c \in Client : Handler(c)
        \/ Environment

Spec == Init /\ [][Next]_vars

\* asyncio keeps running the tick; Kraken answers now and then.
Fairness == /\ WF_vars(StartTick)
            /\ WF_vars(EngineStep)
            /\ SF_vars(FetchPrices)

FairSpec == Spec /\ Fairness

-----------------------------------------------------------------------------
(* Properties. *)

Dispatched(r) == open'[r] > open[r]

\* The rules the tick still has to evaluate, or has not finished with.
Pending == todo \cup (IF pc \in Firing \cup Suppressing THEN {cur} ELSE {})

\* The copies the tick works on are as good as the rows: the columns only the
\* engine writes are equal, and so is the whole row of a rule no client touched.
CopiesAgree ==
    \A r \in Pending :
        /\ existence[r] = "live" =>
              /\ held[r].last_state = rules[r].last_state
              /\ held[r].last_triggered_at = rules[r].last_triggered_at
        /\ r \notin dirty =>
              existence[r] = "live" /\ rules[r].is_active /\ held[r] = rules[r]

\* A paused or deleted rule is notified only by a tick that had loaded it
\* before the pause or the deletion was committed.
NoAlertOncePaused ==
    [][\A r \in RuleId :
          Dispatched(r) => \/ existence[r] = "live" /\ rules[r].is_active
                           \/ r \in dirty]_vars

\* Two notifications of a rule are at least its cooldown apart, unless the tick
\* was cut off between the first one and the update of the rule's row.
CooldownSpacing ==
    [][\A r \in RuleId :
          Dispatched(r) /\ open[r] = 0 /\ lastSentAt[r] # Never
              => firedAt - lastSentAt[r] >= held[r].config.cooldown_minutes]_vars

\* The tick's stale copies never undo what a client committed meanwhile: only an
\* edit changes the configuration, and only a toggle reactivates a rule.
TickKeepsUserColumns ==
    [][\A r \in RuleId :
          request' = request /\ existence[r] = "live" /\ existence'[r] = "live"
              => /\ rules'[r].config = rules[r].config
                 /\ rules'[r].is_active => rules[r].is_active]_vars

\* A rule with a recorded side fires only if the price was last seen on the
\* other side; the exception is a rule whose pair or threshold was edited since.
RealCrossing ==
    [][\A r \in RuleId :
          Dispatched(r) /\ held[r].last_state # "none"
              => \/ seen[r].pair # held[r].config.pair
                 \/ seen[r].threshold # held[r].config.threshold
                 \/ CurrentState(seen[r].price, held[r].config.threshold) # SideOf(r)]_vars

\* A crossing is notified once, and a send_once rule once after its owner last
\* wrote it, plus once for every time the tick was cut off before the row
\* recorded the notification.
DuplicatesNeedFaults ==
    \A r \in RuleId :
        /\ open[r] <= 1 + faults
        /\ existence[r] = "live" /\ rules[r].config.send_once => sinceWrite[r] <= 1 + faults

\* The rule and the history agree, across three commits and next to the
\* retention: a firing recorded within the time every retention keeps has a row
\* with its delivery status, and a row keeps the provisional "delivered" only
\* while it is written, unless the tick was cut off there.
FiringHasHistory ==
    \A r \in RuleId :
        /\ /\ existence[r] = "live"
           /\ rules[r].last_triggered_at # Never
           /\ rules[r].last_triggered_at >= now - KeepFor
           => \E i \in DOMAIN history[r] :
                 /\ history[r][i].status = "patched"
                 /\ history[r][i].at >= rules[r].last_triggered_at
        /\ \A i \in DOMAIN history[r] :
              history[r][i].status # "log" \/ faults > 0 \/ (pc = "patch" /\ cur = r)

\* Every tick ends.
TickEnds == []<>(pc = "idle")

Settled(r) == existence[r] = "live" /\ rules[r].is_active /\ prices[rules[r].config.pair] # NoPrice

\* A rule that stays active and unedited, at a price that stays, ends up with
\* the side the price is on, whatever cooldown, window or other rules do.
StateFollowsPrice ==
    \A r \in RuleId : \A p \in Price : \A form \in Forms :
        LET Stays == Settled(r) /\ rules[r].config = form /\ prices[form.pair] = p
        IN  <>[]Stays => <>[](rules[r].last_state = CurrentState(p, form.threshold))

-----------------------------------------------------------------------------
(* What the source says of itself, and the code does not do. *)

\* "Event recording never breaks the main flow": no rule of the tick is left
\* unevaluated because an event could not be written.
EventLogNeverBreaksTheTick == [][pc = "poisoned" /\ pc' = "idle" => todo = {}]_vars

=============================================================================
