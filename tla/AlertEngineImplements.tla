------------------------ MODULE AlertEngineImplements ------------------------
(***************************************************************************)
(* The alert engine, its commits and its faults, against OneRule: while    *)
(* nobody edits a rule, its row evolves as if every evaluation were atomic *)
(* and nothing ever failed.  A fault can lose an evaluation or repeat a    *)
(* notification; it cannot make the row claim a firing that is not one, or *)
(* let it record a crossing that should have fired at the time it was seen. *)
(***************************************************************************)
EXTENDS AlertEngine

Watched == rules[AnyRule]

Rule1 == INSTANCE OneRule WITH config            <- Watched.config,
                               is_active         <- Watched.is_active,
                               last_state        <- Watched.last_state,
                               last_triggered_at <- Watched.last_triggered_at,
                               looked_at         <- seen[AnyRule].at,
                               Times             <- 0 .. MaxTime

\* The engine's row of an unedited rule implements the one-rule specification.
RowEvolvesAtomically == Rule1!Spec

=============================================================================
