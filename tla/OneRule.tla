------------------------------- MODULE OneRule -------------------------------
(***************************************************************************)
(* What a rule nobody edits promises its owner: at each look at a price it *)
(* records the side the price is on, and it fires when that is a crossing, *)
(* outside its cooldown and inside its hours; send_once disarms it.        *)
(*                                                                         *)
(*   app/services/alert_engine.py   run_evaluation_cycle and _fire, as if  *)
(*                                  nothing happened between their awaits  *)
(*                                                                         *)
(* The alert engine with its commits and faults implements this, and so    *)
(* does the simulation that replays stored prices.                         *)
(***************************************************************************)
EXTENDS RuleEval

CONSTANTS
    Forms,   \* the configurations a rule may have
    Price,   \* prices
    Times    \* when prices are looked at

VARIABLES
    config, is_active, last_state, last_triggered_at,
    looked_at    \* the time of the last look

vars == << config, is_active, last_state, last_triggered_at, looked_at >>

Init ==
    /\ config \in Forms
    /\ is_active = TRUE
    /\ last_state = "none"
    /\ last_triggered_at = Never
    /\ looked_at = 0

\* Its owner enters it, some time before the first look.
Enter(form) == /\ last_state = "none"
               /\ config' = form
               /\ UNCHANGED << is_active, last_state, last_triggered_at, looked_at >>

Fires(t, p) ==
    /\ ShouldTrigger([config            |-> config,
                      last_state        |-> last_state,
                      last_triggered_at |-> last_triggered_at], p, t)
    /\ PassesWindow(config, t)

Record(t, p) == /\ is_active
                /\ t >= looked_at
                /\ looked_at' = t
                /\ last_state' = CurrentState(p, config.threshold)
                /\ UNCHANGED config

Look(t, p) == /\ ~Fires(t, p)
              /\ Record(t, p)
              /\ UNCHANGED << is_active, last_triggered_at >>

Fire(t, p) == /\ Fires(t, p)
              /\ Record(t, p)
              /\ last_triggered_at' = t
              /\ is_active' = ~config.send_once

\* A rule that send_once has disarmed is not evaluated any more.
Rest(t) == /\ ~is_active
           /\ t >= looked_at
           /\ looked_at' = t
           /\ UNCHANGED << config, is_active, last_state, last_triggered_at >>

Next == \/ \E form \in Forms : Enter(form)
        \/ \E t \in Times, p \in Price : Look(t, p) \/ Fire(t, p)
        \/ \E t \in Times : Rest(t)

Spec == Init /\ [][Next]_vars

=============================================================================
