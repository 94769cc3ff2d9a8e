------------------------------ MODULE IPFilter ------------------------------
(***************************************************************************)
(* The IP whitelist: a setting, and the copy of it every request passes.   *)
(*                                                                         *)
(*   app/core/ip_filter.py        the middleware and its 30 seconds        *)
(*   app/api/routes/admin.py      the form that saves the setting          *)
(*                                                                         *)
(* A request that finds no fresh copy takes the time, opens a session,     *)
(* awaits its SELECT, stores list and time, and closes the session before  *)
(* it looks at the copy again.  Nothing tells the middleware of a save.    *)
(***************************************************************************)
EXTENDS Naturals

CONSTANTS
    Host,       \* client addresses
    Lists,      \* whitelists, as sets of addresses; {} does not restrict
    Visitor,    \* requests that reload the copy
    TTL,        \* _CACHE_TTL, in clock ticks
    MaxRead     \* what a reload may take, in clock ticks; the code has no limit

ASSUME ListAssumption == Lists \subseteq SUBSET Host /\ {} \in Lists
ASSUME ReadAssumption == TTL \in Nat /\ MaxRead \in Nat /\ 2 * MaxRead < TTL

VARIABLES
    committed,  \* the setting
    gone,       \* gone[l]: ticks since l was last the setting, up to TTL
    whitelist,  \* _whitelist
    age,        \* now - _last_loaded, up to TTL
    visitor     \* visitor[v]: a reload between two awaits

filterVars == << committed, gone, whitelist, age, visitor >>

\* asked: ticks since the request took the time; list: what its SELECT returned.
Reload  == [step : {"away", "open", "reading", "closing"}, asked : 0 .. MaxRead, list : Lists]
Nowhere == [step |-> "away", asked |-> 0, list |-> {}]

FilterTypeOK ==
    /\ committed \in Lists /\ whitelist \in Lists
    /\ gone \in [Lists -> 0 .. TTL]
    /\ age \in 0 .. TTL
    /\ visitor \in [Visitor -> Reload]

\* The process has started on an empty database, on a machine that has been up
\* for _CACHE_TTL.
FilterInit ==
    /\ committed = {}
    /\ gone = [l \in Lists |-> IF l = {} THEN 0 ELSE TTL]
    /\ whitelist = {}
    /\ age = TTL
    /\ visitor = [v \in Visitor |-> Nowhere]

Proceed(v, r) == visitor' = [visitor EXCEPT ![v] = r]
Fresh         == age < TTL

\* save_ip_whitelist: the list of valid entries is committed.
SaveList(l) ==
    /\ committed' = l
    /\ gone' = [gone EXCEPT ![l] = 0]
    /\ UNCHANGED << whitelist, age, visitor >>

OnlyVisitor == UNCHANGED << committed, gone, whitelist, age >>

\* _load_whitelist takes the time before it awaits anything.
StartReload(v) ==
    /\ ~Fresh
    /\ visitor[v].step = "away"
    /\ Proceed(v, [Nowhere EXCEPT !.step = "open"])
    /\ OnlyVisitor

SelectList(v) ==
    /\ visitor[v].step = "open"
    /\ Proceed(v, [visitor[v] EXCEPT !.step = "reading", !.list = committed])
    /\ OnlyVisitor

\* Mutant: the copy is as old as its arrival.
StoreAnew(v) ==
    /\ visitor[v].step = "reading"
    /\ whitelist' = visitor[v].list
    /\ age' = 0
    /\ Proceed(v, [visitor[v] EXCEPT !.step = "closing", !.list = {}])
    /\ UNCHANGED << committed, gone >>

\* The list is stored with the time the request took, whatever was stored since.
Store(v) ==
    /\ visitor[v].step = "reading"
    /\ whitelist' = visitor[v].list
    /\ age' = visitor[v].asked
    /\ Proceed(v, [visitor[v] EXCEPT !.step = "closing", !.list = {}])
    /\ UNCHANGED << committed, gone >>

\* The session, or the SELECT, fails: the request goes on with the copy there is.
ReloadFails(v) ==
    /\ visitor[v].step \in {"open", "reading"}
    /\ Proceed(v, Nowhere)
    /\ OnlyVisitor

\* The session is closed; dispatch lets the request in, or does not, by the copy.
Decide(v) ==
    /\ visitor[v].step = "closing"
    /\ Proceed(v, Nowhere)
    /\ OnlyVisitor

UpTo(n, limit) == IF n < limit THEN n + 1 ELSE limit

PassTime ==
    /\ \A v \in Visitor : visitor[v].step = "away" \/ visitor[v].asked < MaxRead
    /\ age' = UpTo(age, TTL)
    /\ gone' = [l \in Lists |-> IF l = committed THEN 0 ELSE UpTo(gone[l], TTL)]
    /\ visitor' = [v \in Visitor |-> IF visitor[v].step = "away" THEN Nowhere
                                     ELSE [visitor[v] EXCEPT !.asked = @ + 1]]
    /\ UNCHANGED << committed, whitelist >>

RestartFilter ==
    /\ whitelist' = {}
    /\ age' = TTL
    /\ visitor' = [v \in Visitor |-> Nowhere]
    /\ UNCHANGED << committed, gone >>

FilterNext ==
    \/ \E l \in Lists : SaveList(l)
    \/ \E v \in Visitor : StartReload(v) \/ SelectList(v) \/ Store(v) \/ ReloadFails(v) \/ Decide(v)
    \/ PassTime
    \/ RestartFilter

-----------------------------------------------------------------------------
(* Properties. *)

\* _ip_in_whitelist, and the empty list.
Admits(list, ip) == list = {} \/ ip \in list

\* Whoever is let in or kept out, by a copy that is fresh or that the request has
\* just reloaded, is so by a list that was the setting less than _CACHE_TTL ago,
\* although reloads overlap and an older answer may be stored over a newer one.
\* Only a reload that failed goes on with an older copy.
RecentListDecides ==
    Fresh \/ (\E v \in Visitor : visitor[v].step = "closing") =>
        \A ip \in Host :
            \E l \in Lists : gone[l] < TTL /\ Admits(l, ip) = Admits(whitelist, ip)

=============================================================================
