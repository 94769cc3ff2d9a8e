----------------------------- MODULE Simulation -----------------------------
(***************************************************************************)
(* The replay of stored prices against one rule: what would have fired.    *)
(*                                                                         *)
(*   app/services/simulation.py   run_simulation and its helpers           *)
(*                                                                         *)
(* One step is one price point; the loop's early exits are its disjuncts,  *)
(* in their order.  Rules do not influence each other, so one is enough.   *)
(***************************************************************************)
EXTENDS RuleEval, Sequences

CONSTANTS
    Forms,      \* the rules, as sim_rule_from_alert_rule hands them over
    Price,      \* stored prices
    MaxTime,    \* bound: the last price point is at most this late
    MaxPoints   \* bound on the number of price points

ASSUME FormsAssumption  == \A f \in Forms : /\ f.cooldown_minutes \in Nat
                                            /\ f.send_once \in BOOLEAN
ASSUME BoundsAssumption == MaxTime \in Nat /\ MaxPoints \in Nat

Times == 0 .. MaxTime

VARIABLES
    config,              \* the SimRule
    ts, points,          \* time of the last point, points so far
    active, last_state, last_triggered_at,                    \* _RuleState
    triggers, skipped_cooldown, skipped_time_filter           \* SimRuleResult

state  == << active, last_state, last_triggered_at >>
result == << triggers, skipped_cooldown, skipped_time_filter >>
vars   == << config, ts, points, state, result >>

Trigger == [triggered_at : Times, previous_state : LastStates]

TypeOK ==
    /\ config \in Forms
    /\ ts \in Times /\ points \in Nat
    /\ active \in BOOLEAN /\ last_state \in LastStates
    /\ last_triggered_at \in Times \cup {Never}
    /\ triggers \in Seq(Trigger)
    /\ skipped_cooldown \in Nat /\ skipped_time_filter \in Nat

Init ==
    /\ config \in Forms
    /\ ts = 0 /\ points = 0
    /\ active = TRUE
    /\ last_state = "none"
    /\ last_triggered_at = Never
    /\ triggers = << >>
    /\ skipped_cooldown = 0
    /\ skipped_time_filter = 0

\* Mutant: critical_override is forgotten.
SimInWindowStrict(t) ==
    \/ ~config.time_filter_enabled
    \/ config.active_hours_start = Unset
    \/ config.active_hours_end = Unset
    \/ InHours(config.active_hours_start, config.active_hours_end,
               LocalTime(config.active_timezone, t))

\* _in_active_window, which takes critical_override into account itself.
SimInWindow(t) ==
    \/ ~config.time_filter_enabled
    \/ config.critical_override
    \/ config.active_hours_start = Unset
    \/ config.active_hours_end = Unset
    \/ InHours(config.active_hours_start, config.active_hours_end,
               LocalTime(config.active_timezone, t))

\* _crossing
SimCrossing(current) ==
    /\ current = config.condition
    /\ last_state = "none" \/ last_state # current

InCooldown(t) == /\ last_triggered_at # Never
                 /\ t - last_triggered_at < config.cooldown_minutes

Side(price) == CurrentState(price, config.threshold)

\* The next point of the series; the points are sorted by time.
Point(t) == /\ points < MaxPoints
            /\ points' = points + 1
            /\ t >= ts
            /\ ts' = t
            /\ UNCHANGED config

\* A rule that send_once has disarmed is passed over.
Disarmed(t) == Point(t) /\ ~active /\ UNCHANGED << state, result >>

\* No trigger: the side is recorded in any case.
Quiet(t, price) == /\ Point(t)
                   /\ active
                   /\ last_state' = Side(price)
                   /\ UNCHANGED << active, last_triggered_at, triggers >>

OutsideWindow(t, price) ==
    /\ Quiet(t, price)
    /\ ~SimInWindow(t)
    /\ skipped_time_filter' = skipped_time_filter + 1
    /\ UNCHANGED skipped_cooldown

NoCrossing(t, price) ==
    /\ Quiet(t, price)
    /\ SimInWindow(t)
    /\ ~SimCrossing(Side(price))
    /\ UNCHANGED << skipped_cooldown, skipped_time_filter >>

CooldownSkip(t, price) ==
    /\ Quiet(t, price)
    /\ SimInWindow(t)
    /\ SimCrossing(Side(price))
    /\ InCooldown(t)
    /\ skipped_cooldown' = skipped_cooldown + 1
    /\ UNCHANGED skipped_time_filter

\* Mutant: the time of the trigger is that of the first one.
WouldTriggerFirst(t, price) ==
    /\ Point(t)
    /\ active /\ SimInWindow(t) /\ SimCrossing(Side(price)) /\ ~InCooldown(t)
    /\ triggers' = Append(triggers, [triggered_at |-> t, previous_state |-> last_state])
    /\ last_triggered_at' = IF triggers = << >> THEN t ELSE last_triggered_at
    /\ last_state' = Side(price)
    /\ active' = ~config.send_once
    /\ UNCHANGED << skipped_cooldown, skipped_time_filter >>

WouldTrigger(t, price) ==
    /\ Point(t)
    /\ active /\ SimInWindow(t) /\ SimCrossing(Side(price)) /\ ~InCooldown(t)
    /\ triggers' = Append(triggers, [triggered_at |-> t, previous_state |-> last_state])
    /\ last_triggered_at' = t
    /\ last_state' = Side(price)
    /\ active' = ~config.send_once
    /\ UNCHANGED << skipped_cooldown, skipped_time_filter >>

Next ==
    \/ \E t \in Times : Disarmed(t)
    \/ \E t \in Times, price \in Price :
          \/ OutsideWindow(t, price) \/ NoCrossing(t, price)
          \/ CooldownSkip(t, price)  \/ WouldTrigger(t, price)

Spec == Init /\ [][Next]_vars

-----------------------------------------------------------------------------
(* Properties. *)

Engine == INSTANCE OneRule WITH is_active <- active, looked_at <- ts

\* "mirrors alert_engine.py exactly": although the checks come in another order,
\* the replay fires where the engine's evaluation of the same prices fires.
MirrorsEngine == Engine!Spec

\* The triggers that are reported are those of a working rule: at least a
\* cooldown apart, each a crossing, and one only with send_once.
TriggersMakeSense ==
    /\ \A i, j \in DOMAIN triggers :
          i < j => triggers[j].triggered_at - triggers[i].triggered_at >= config.cooldown_minutes
    /\ \A i \in DOMAIN triggers : /\ triggers[i].previous_state # config.condition
                                  /\ i > 1 => triggers[i].previous_state # "none"
    /\ config.send_once => Len(triggers) <= 1

=============================================================================
