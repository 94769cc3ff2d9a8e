--------------------------- MODULE FeaturedAssets ---------------------------
(***************************************************************************)
(* The featured markets: a table ordered by a sort_order column, edited by *)
(* administrators, and a cached list of its enabled symbols.               *)
(*                                                                         *)
(*   app/crud/featured_assets.py      the writers and their commits        *)
(*   app/services/featured_assets.py  the cache and its 60 seconds         *)
(*                                                                         *)
(* A writer awaits its SELECT, its commit and (add, toggle) the refresh    *)
(* that follows, and empties the cache last; a reader that finds no fresh  *)
(* list awaits its SELECT and stores what it got.  set_sort_order has no   *)
(* caller and update_display_name touches nothing modelled here.           *)
(***************************************************************************)
EXTENDS SequencesExt, Orders

CONSTANTS
    Symbol,       \* asset symbols, as numbers in alphabetical order
    Writer,       \* administrators' requests in flight
    Reader,       \* requests, and the alert engine, that want the list
    Defaults,     \* _DEFAULT_FEATURED: the sort_order of each seeded symbol
    TTL,          \* CACHE_TTL_SECONDS, in clock ticks
    MaxOrder,     \* bound on sort_order
    MaxFaults     \* bound on failed statements

ASSUME SymbolAssumption   == Symbol \subseteq Nat /\ IsFiniteSet(Symbol)
ASSUME DefaultsAssumption == /\ DOMAIN Defaults \subseteq Symbol
                             /\ \A s \in DOMAIN Defaults : Defaults[s] \in 1 .. MaxOrder
                             /\ IsInjective(Defaults)
ASSUME TTLAssumption      == TTL \in Nat \ {0}
ASSUME BoundsAssumption   == MaxOrder \in Nat /\ MaxFaults \in Nat

VARIABLES
    rows,           \* the table: a row for each symbol in DOMAIN rows
    cached_symbols, \* _cached_symbols
    age,            \* now - _cache_at; TTL when the cache is not fresh
    writer,         \* writer[w]: a writer between two awaits
    reader,         \* reader[r]: a reader awaiting its SELECT's result
    faults,
    \* observers
    overtaken,      \* the cached list was read before a commit that it missed
    overlapped      \* a commit fell between another writer's SELECT and commit

vars == << rows, cached_symbols, age, writer, reader, faults, overtaken, overlapped >>

Row   == [sort_order : 1 .. MaxOrder, enabled : BOOLEAN]
Ops   == {"none", "add", "remove", "toggle", "move"}
Steps == {"idle", "check", "commit", "refresh", "bust"}
NoUpdate == [s \in {} |-> 0]
Idle  == [step |-> "idle", op |-> "none", symbol |-> 0, set |-> NoUpdate]
Away  == [waiting |-> FALSE, list |-> << >>, old |-> FALSE]

\* get_all, get_enabled: ordered by sort_order, then symbol.
Precedes(table, s, t) ==
    \/ table[s].sort_order < table[t].sort_order
    \/ table[s].sort_order = table[t].sort_order /\ s < t

Precedence(table) ==
    {p \in (DOMAIN table) \X (DOMAIN table) : Precedes(table, p[1], p[2])}

Listing(table, symbols) == Ordered(symbols, Precedence(table))

AllSymbols     == Listing(rows, DOMAIN rows)
EnabledSymbols == Listing(rows, {s \in DOMAIN rows : rows[s].enabled})

\* symbol: of an add, toggle or remove; set: the column value an UPDATE will write.
TypeOK ==
    /\ DOMAIN rows \subseteq Symbol /\ \A s \in DOMAIN rows : rows[s] \in Row
    /\ cached_symbols \in Seq(Symbol)
    /\ age \in 0 .. TTL
    /\ DOMAIN writer = Writer
    /\ \A w \in Writer : /\ writer[w].step \in Steps /\ writer[w].op \in Ops
                         /\ writer[w].symbol \in Symbol \cup {0}
                         /\ DOMAIN writer[w].set \subseteq Symbol
    /\ reader \in [Reader -> [waiting : BOOLEAN, list : Seq(Symbol), old : BOOLEAN]]
    /\ faults \in 0 .. MaxFaults
    /\ overtaken \in BOOLEAN /\ overlapped \in BOOLEAN

Seeded == [s \in DOMAIN Defaults |-> [sort_order |-> Defaults[s], enabled |-> TRUE]]

\* The process has started on an empty database.
Init ==
    /\ rows = Seeded
    /\ cached_symbols = << >>
    /\ age = TTL
    /\ writer = [w \in Writer |-> Idle]
    /\ reader = [r \in Reader |-> Away]
    /\ faults = 0
    /\ overtaken = FALSE
    /\ overlapped = FALSE

-----------------------------------------------------------------------------
(* The writers. *)

At(w, step, op) == writer[w].step = step /\ writer[w].op = op
Goto(w, state)  == writer' = [writer EXCEPT ![w] = state]
OnlyWriter     == UNCHANGED << rows, cached_symbols, age, reader, faults, overtaken, overlapped >>

Idling(w) == writer[w] = Idle

\* add: get_by_symbol finds nothing.
AddCheck(w, s) ==
    /\ Idling(w)
    /\ s \notin DOMAIN rows
    /\ Goto(w, [Idle EXCEPT !.step = "check", !.op = "add", !.symbol = s])
    /\ OnlyWriter

\* Mutant: the end of the list is taken to be its length.
LastOrderCount == Cardinality(DOMAIN rows)

LastOrder == Max({0} \cup {rows[s].sort_order : s \in DOMAIN rows})

\* add: get_all, to place the row at the end.
AddPlace(w) ==
    /\ At(w, "check", "add")
    /\ LastOrder < MaxOrder
    /\ LET s == writer[w].symbol
       IN  Goto(w, [step |-> "commit", op |-> "add", symbol |-> s,
                    set |-> [t \in {s} |-> LastOrder + 1]])
    /\ OnlyWriter

\* toggle_enabled: the new value is the negation of the one read.
LoadToggle(w, s) ==
    /\ Idling(w)
    /\ s \in DOMAIN rows
    /\ Goto(w, [step |-> "commit", op |-> "toggle", symbol |-> s, 
                set |-> [t \in {s} |-> ~rows[s].enabled]])
    /\ OnlyWriter

\* Mutant: the first assignment is seen by the second.
SwappedTwice(s, t) == [u \in {s, t} |-> rows[t].sort_order]

\* The UPDATEs of two rows that exchange their sort_order: none for a tie.
Swapped(s, t) ==
    IF rows[s].sort_order = rows[t].sort_order THEN NoUpdate
    ELSE [u \in {s, t} |-> rows[IF u = s THEN t ELSE s].sort_order]

\* move_up and move_down: s and the row just before or after it.
LoadMove(w, s, offset) ==
    /\ Idling(w)
    /\ \E i \in DOMAIN AllSymbols :
          /\ AllSymbols[i] = s
          /\ i + offset \in DOMAIN AllSymbols
          /\ Goto(w, [step |-> "commit", op |-> "move", symbol |-> 0,
                      set |-> Swapped(s, AllSymbols[i + offset])])
    /\ OnlyWriter

\* What a commit makes known to the observers.
Observe(w) ==
    /\ overlapped' = (overlapped \/ \E v \in Writer \ {w} : writer[v].step = "commit")
    /\ UNCHANGED overtaken
    /\ reader' = [r \in Reader |-> [reader[r] EXCEPT !.old = reader[r].waiting]]

\* The INSERT meets the unique key, or an UPDATE finds no row: the handler fails.
Refused(w) ==
    LET s == DOMAIN writer[w].set
    IN  IF writer[w].op = "add" THEN s \subseteq DOMAIN rows ELSE ~(s \subseteq DOMAIN rows)

CommitRefused(w) ==
    /\ writer[w].step = "commit"
    /\ Refused(w)
    /\ Goto(w, Idle)
    /\ OnlyWriter

\* The table after a writer's INSERT or UPDATEs.
Changed(table, p) ==
    [s \in DOMAIN p.set \cup DOMAIN table |->
        IF s \notin DOMAIN p.set THEN table[s]
        ELSE CASE p.op = "add"    -> [sort_order |-> p.set[s], enabled |-> TRUE]
               [] p.op = "toggle" -> [table[s] EXCEPT !.enabled = p.set[s]]
               [] p.op = "move"   -> [table[s] EXCEPT !.sort_order = p.set[s]]]

Commit(w) ==
    LET op == writer[w].op
    IN  /\ writer[w].step = "commit"
        /\ ~Refused(w)
        /\ rows' = Changed(rows, writer[w])
        /\ Goto(w, [Idle EXCEPT !.step = IF op = "move" THEN "bust" ELSE "refresh",
                                !.op = op, !.symbol = writer[w].symbol])
        /\ Observe(w)
        /\ UNCHANGED << cached_symbols, age, faults >>

\* remove: one DELETE, committed.
RemoveAsset(w, s) ==
    /\ Idling(w)
    /\ rows' = [t \in DOMAIN rows \ {s} |-> rows[t]]
    /\ Goto(w, [Idle EXCEPT !.step = "bust", !.op = "remove"])
    /\ Observe(w)
    /\ UNCHANGED << cached_symbols, age, faults >>

\* refresh re-reads the row; it raises, before the cache is emptied, when the
\* row is gone.
Refresh(w) ==
    /\ writer[w].step = "refresh"
    /\ IF writer[w].symbol \in DOMAIN rows
       THEN Goto(w, [Idle EXCEPT !.step = "bust", !.op = writer[w].op])
       ELSE Goto(w, Idle)
    /\ OnlyWriter

\* The SELECT of refresh fails: the commit stands, the cache is not emptied.
RefreshFails(w) ==
    /\ writer[w].step = "refresh"
    /\ faults < MaxFaults
    /\ faults' = faults + 1
    /\ Goto(w, Idle)
    /\ UNCHANGED << rows, cached_symbols, age, reader, overtaken, overlapped >>

\* Mutant: a move leaves the cache alone.
BustNotMoves(w) ==
    /\ writer[w].step = "bust"
    /\ age' = IF writer[w].op = "move" THEN age ELSE TTL
    /\ Goto(w, Idle)
    /\ UNCHANGED << rows, cached_symbols, reader, faults, overtaken, overlapped >>

\* _bust_cache: invalidate_cache clears _cache_at and keeps the list.
Bust(w) ==
    /\ writer[w].step = "bust"
    /\ age' = TTL
    /\ Goto(w, Idle)
    /\ UNCHANGED << rows, cached_symbols, reader, faults, overtaken, overlapped >>

-----------------------------------------------------------------------------
(* The readers. *)

Fresh == age < TTL

\* No fresh list: the SELECT runs, its result is on the way.
StartRead(r) ==
    /\ ~Fresh
    /\ ~reader[r].waiting
    /\ reader' = [reader EXCEPT ![r] = [waiting |-> TRUE, list |-> EnabledSymbols, old |-> FALSE]]
    /\ UNCHANGED << rows, cached_symbols, age, writer, faults, overtaken, overlapped >>

\* The result arrives and is stored, whatever happened meanwhile.
Install(r) ==
    /\ reader[r].waiting
    /\ cached_symbols' = reader[r].list
    /\ age' = 0
    /\ overtaken' = reader[r].old
    /\ reader' = [reader EXCEPT ![r] = Away]
    /\ UNCHANGED << rows, writer, faults, overlapped >>

\* Mutant: a list that has expired counts as fresh again.
ClockTickRenews ==
    /\ Fresh
    /\ age' = IF age + 1 = TTL THEN 0 ELSE age + 1
    /\ UNCHANGED << rows, cached_symbols, writer, reader, faults, overtaken, overlapped >>

ClockTick ==
    /\ Fresh
    /\ age' = age + 1
    /\ UNCHANGED << rows, cached_symbols, writer, reader, faults, overtaken, overlapped >>

\* The process restarts: requests and cache are lost, seed_defaults runs before
\* the first request is served.
Restart ==
    /\ rows' = IF DOMAIN rows = {} THEN Seeded ELSE rows
    /\ cached_symbols' = << >>
    /\ age' = TTL
    /\ writer' = [w \in Writer |-> Idle]
    /\ reader' = [r \in Reader |-> Away]
    /\ overtaken' = FALSE
    /\ UNCHANGED << faults, overlapped >>

-----------------------------------------------------------------------------
Write(w) ==
    \/ \E s \in Symbol : AddCheck(w, s) \/ LoadToggle(w, s) \/ RemoveAsset(w, s)
    \/ \E s \in Symbol, offset \in {-1, 1} : LoadMove(w, s, offset)
    \/ AddPlace(w) \/ Commit(w) \/ CommitRefused(w)
    \/ Refresh(w) \/ RefreshFails(w) \/ Bust(w)

Read(r) == StartRead(r) \/ Install(r)

Next == \/ \E w \in Writer : Write(w)
        \/ \E r \in Reader : Read(r)
        \/ ClockTick
        \/ Restart

Spec == Init /\ [][Next]_vars

-----------------------------------------------------------------------------
(* Properties. *)

\* Two rows share a sort_order only after two writers overlapped: one at a time,
\* adding at the end, removing and swapping keep the order strict.
TiesNeedOverlap ==
    overlapped \/ IsInjective([s \in DOMAIN rows |-> rows[s].sort_order])

Exchanged(list, i) == [list EXCEPT ![i] = list[i + 1], ![i + 1] = list[i]]

\* Without overlap, a move exchanges two neighbours of the list as it is shown,
\* a toggle leaves the order alone, and an addition goes to the end.
CommitMovesNeighbours ==
    [][\A w \in Writer :
          Commit(w) /\ ~overlapped =>
              CASE writer[w].op = "add"    -> AllSymbols' = Append(AllSymbols, writer[w].symbol)
                [] writer[w].op = "toggle" -> AllSymbols' = AllSymbols
                [] writer[w].op = "move"   -> \E i \in 1 .. Len(AllSymbols) - 1 :
                                                  AllSymbols' = Exchanged(AllSymbols, i)]_vars

\* A fresh cached list is the committed one, unless a writer is on its way to
\* empty the cache, or was cut off there, or the list came from a read that a
\* commit overtook.  A refresh of a row deleted meanwhile, which leaves the
\* cache alone, makes no exception: whoever deleted the row empties it.
StaleNeedsOvertaking ==
    Fresh /\ cached_symbols # EnabledSymbols =>
        \/ \E w \in Writer : writer[w].step \in {"refresh", "bust"}
        \/ faults > 0
        \/ overtaken

\* When the table is left alone a stale list expires, and no later read brings
\* an old one back for good.
EventuallyFresh ==
    \A s \in Symbol :
        LET Shown == s \in DOMAIN rows /\ rows[s].enabled
        IN  /\ <>[]Shown  => <>[](Fresh => s \in ToSet(cached_symbols))
            /\ <>[]~Shown => <>[](Fresh => s \notin ToSet(cached_symbols))

=============================================================================
