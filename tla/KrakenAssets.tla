----------------------------- MODULE KrakenAssets -----------------------------
(***************************************************************************)
(* The directory of Kraken's USD pairs: refreshed when the process starts, *)
(* every few hours by a loop, and by an administrator, from a listing that *)
(* changes meanwhile.                                                      *)
(*                                                                         *)
(*   app/services/kraken_assets.py   KrakenAssetsService                   *)
(*   app/api/routes/admin.py         refresh_assets                        *)
(*                                                                         *)
(* A pair is the key Kraken lists it under; the names to ask for it by go  *)
(* with the key.  Key holds the pairs that the filters of                  *)
(* _fetch_from_kraken let pass.  A refresh takes two steps: Kraken answers, *)
(* the answer is applied.  _using_fallback is only displayed.              *)
(***************************************************************************)
EXTENDS Integers, FiniteSets

CONSTANTS
    Symbol,     \* "BTC/USD", ...
    Key,        \* "XXBTZUSD", ...
    SymbolOf,   \* SymbolOf[k]: how the pair k is displayed; several pairs may share it
    Fallback    \* _FALLBACK_PAIRS: a directory

NoKey     == "none"
Directory == [Symbol -> Key \cup {NoKey}]
KeysOf(s) == {k \in Key : SymbolOf[k] = s}

ASSUME KeyAssumption      == NoKey \notin Key /\ SymbolOf \in [Key -> Symbol]
ASSUME FallbackAssumption == /\ Fallback \in Directory
                             /\ \E s \in Symbol : Fallback[s] # NoKey

VARIABLES
    listed,     \* the pairs Kraken trades
    pairs,      \* _by_symbol
    refresh,    \* refresh[r]: the answer a refresh is about to apply
    started     \* start() is past its first refresh

directoryVars == << listed, pairs, refresh, started >>

Refresher == {"loop", "admin"}
Empty     == [s \in Symbol |-> NoKey]
Filled(d) == \E s \in Symbol : d[s] # NoKey
Awaiting  == [pending : BOOLEAN, answer : Directory]
NoRefresh == [pending |-> FALSE, answer |-> Empty]

\* The directories _fetch_from_kraken can make of an answer that lists these
\* pairs: for a symbol shared by several it is the first one listed.
Listings(keys) ==
    {d \in Directory : \A s \in Symbol :
        IF KeysOf(s) \cap keys = {} THEN d[s] = NoKey ELSE d[s] \in KeysOf(s) \cap keys}

DirectoryOK ==
    /\ listed \subseteq Key
    /\ pairs \in Directory
    /\ refresh \in [Refresher -> Awaiting]
    /\ started \in BOOLEAN

\* start: the directory is empty and its first refresh is awaited.
FreshDirectory ==
    /\ listed = Key
    /\ pairs = Empty
    /\ refresh = [r \in Refresher |-> NoRefresh]
    /\ started = FALSE

Answered(r, d) ==
    /\ ~refresh[r].pending
    /\ r = "admin" => started
    /\ refresh' = [refresh EXCEPT ![r] = [pending |-> TRUE, answer |-> d]]
    /\ UNCHANGED << listed, pairs, started >>

\* Kraken answers what it lists, or, without an error, nothing.
AnswerFull(r)  == \E d \in Listings(listed) : Answered(r, d)
AnswerEmpty(r) == Answered(r, Empty)

Done(r) == /\ refresh' = [refresh EXCEPT ![r] = NoRefresh]
           /\ started' = TRUE
           /\ UNCHANGED listed

\* Mutant: the answer is taken only as long as there is no directory.
ApplyFirst(r) ==
    /\ refresh[r].pending
    /\ pairs' = IF Filled(pairs) THEN pairs ELSE refresh[r].answer
    /\ Done(r)

\* _refresh: an empty answer leaves the directory as it is.
Apply(r) ==
    /\ refresh[r].pending
    /\ pairs' = IF Filled(refresh[r].answer) THEN refresh[r].answer ELSE pairs
    /\ Done(r)

\* The request raises: the built-in list fills an empty directory.
RefreshFails(r) ==
    /\ refresh[r].pending
    /\ pairs' = IF Filled(pairs) THEN pairs ELSE Fallback
    /\ Done(r)

\* Kraken begins or ceases to trade a pair.
Relist(k) ==
    /\ listed' = IF k \in listed THEN listed \ {k} ELSE listed \cup {k}
    /\ UNCHANGED << pairs, refresh, started >>

RefreshStep(r) == AnswerFull(r) \/ AnswerEmpty(r) \/ Apply(r) \/ RefreshFails(r)

\* get_pair, validate_symbol
Known(s) == pairs[s] # NoKey

=============================================================================
