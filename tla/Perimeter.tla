----------------------------- MODULE Perimeter -----------------------------
(***************************************************************************)
(* What stands between a visitor and the pages: the whitelist that every   *)
(* request passes, and the sessions and lockouts behind it.  The two share *)
(* no state: a behaviour is about one of them.                             *)
(***************************************************************************)
EXTENDS Access, IPFilter

PerimeterInit == Init /\ FilterInit

PerimeterNext ==
    \/ "filter" \notin mix /\ Next /\ UNCHANGED filterVars
    \/ "filter" \in mix /\ FilterNext /\ UNCHANGED accessVars

perimeterVars == << accessVars, filterVars >>

\* Time passes; nobody is obliged to do anything.
PerimeterSpec ==
    /\ PerimeterInit
    /\ [][PerimeterNext]_perimeterVars
    /\ WF_perimeterVars(ClockTick /\ UNCHANGED filterVars)

=============================================================================
