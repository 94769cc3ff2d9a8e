------------------------------ MODULE RuleEval ------------------------------
(***************************************************************************)
(* The pure part of the alert engine: what one rule does with one price.   *)
(*                                                                         *)
(*   app/services/alert_engine.py   _current_state, _should_trigger,       *)
(*                                  _in_active_window                      *)
(*                                                                         *)
(* A rule's `config` is what its owner enters on the form; `last_state`    *)
(* and `last_triggered_at` are the two columns the engine writes back.     *)
(* Time is a number of minutes since some midnight UTC.                    *)
(***************************************************************************)
EXTENDS Integers

CONSTANTS
    DayLength,   \* minutes in a day
    Timezones,   \* the IANA zone names the host knows
    UtcOffset    \* UtcOffset[z]: minutes to add to UTC to get local time in z

ASSUME DayLengthAssumption == DayLength \in Nat \ {0}
ASSUME UtcOffsetAssumption == UtcOffset \in [Timezones -> Int]

Never == -1      \* last_triggered_at IS NULL
Unset == -1      \* active_hours_start / active_hours_end IS NULL

Sides       == {"above", "below"}
LastStates  == Sides \cup {"none"}
TimesOfDay  == 0 .. (DayLength - 1)

\* The side of the threshold a price is on; equality counts as above.
CurrentState(price, threshold) == IF price >= threshold THEN "above" ELSE "below"

\* The first evaluation counts as a crossing when the condition already holds.
Crossing(condition, last_state, current) ==
    /\ current = condition
    /\ last_state # condition

CooledDown(cooldown, last_triggered_at, now) ==
    \/ last_triggered_at = Never
    \/ now - last_triggered_at >= cooldown

\* row: a record with fields config, last_state and last_triggered_at.
ShouldTrigger(row, price, now) ==
    /\ Crossing(row.config.condition, row.last_state,
                CurrentState(price, row.config.threshold))
    /\ CooledDown(row.config.cooldown_minutes, row.last_triggered_at, now)

\* Local time of day; a zone the host does not know is treated as UTC.
LocalTime(zone, now) ==
    (now + (IF zone \in Timezones THEN UtcOffset[zone] ELSE 0)) % DayLength

InHours(start, end, time) ==
    IF start <= end THEN start <= time /\ time <= end
                    ELSE time >= start \/ time <= end

InActiveWindow(config, now) ==
    \/ ~config.time_filter_enabled
    \/ config.active_hours_start = Unset
    \/ config.active_hours_end = Unset
    \/ InHours(config.active_hours_start, config.active_hours_end,
               LocalTime(config.active_timezone, now))

\* A trigger outside the window is suppressed unless critical_override is set.
PassesWindow(config, now) ==
    config.critical_override \/ InActiveWindow(config, now)

=============================================================================
