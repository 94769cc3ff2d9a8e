----------------------------- MODULE MCSimulation -----------------------------
(* Constants of Simulation for TLC: a day of six minutes and one zone ahead. *)
EXTENDS Simulation

MCUtcOffset == [z \in {"UTC", "Plus1"} |-> IF z = "UTC" THEN 0 ELSE 1]

Base == [ pair |-> "btc", condition |-> "above", threshold |-> 2, cooldown_minutes |-> 2,
          send_once |-> FALSE, time_filter_enabled |-> FALSE,
          active_hours_start |-> Unset, active_hours_end |-> Unset,
          active_timezone |-> "UTC", critical_override |-> FALSE ]

\* Both conditions, send_once, day and night windows, half-filled windows, an
\* override and a zone the host does not know.
MCForms ==
    LET Windowed == {[Base EXCEPT !.time_filter_enabled = TRUE, !.active_hours_start = w[1],
                                  !.active_hours_end = w[2], !.active_timezone = z,
                                  !.critical_override = o] :
                     w \in {<<1, 3>>, <<4, 1>>, <<Unset, 2>>},
                     z \in {"UTC", "Plus1", "Nowhere"}, o \in BOOLEAN}
    IN  {[f EXCEPT !.condition = c, !.send_once = s] :
            f \in {Base} \cup Windowed, c \in {"above", "below"}, s \in BOOLEAN}
=============================================================================
