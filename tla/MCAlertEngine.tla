---------------------------- MODULE MCAlertEngine ----------------------------
(* Instances of AlertEngine for TLC. *)
EXTENDS AlertEngineImplements

MCUtcOffset == [z \in Timezones |-> 1]

Rule(condition, threshold) ==
    [ pair |-> CHOOSE p \in Pair : TRUE, condition |-> condition, threshold |-> threshold,
      cooldown_minutes |-> 1, send_once |-> FALSE, time_filter_enabled |-> FALSE,
      active_hours_start |-> Unset, active_hours_end |-> Unset,
      active_timezone |-> "UTC", critical_override |-> FALSE ]

Above == Rule("above", 2)
Low   == [Rule("above", 1) EXCEPT !.cooldown_minutes = 2]
Once  == [Above EXCEPT !.send_once = TRUE]
Slow  == [Above EXCEPT !.cooldown_minutes = 2]

\* Open at even minutes of local time, which is at odd minutes of UTC.
Night == [Above EXCEPT !.time_filter_enabled = TRUE, !.active_hours_start = 0,
                       !.active_hours_end = 0, !.active_timezone = "Plus1"]
Urgent == [Night EXCEPT !.critical_override = TRUE, !.active_timezone = "Nowhere"]

\* A threshold to edit, a longer cooldown, send_once, hours to leave and an
\* override of them.
CoreForms == {Once, Low, Night, Urgent}
OneForm   == {Slow}

\* Hours and a cooldown, or send_once: what an unedited rule can go through.
QuietForms == {[Night EXCEPT !.cooldown_minutes = 2], Once}
=============================================================================
