------------------------------- MODULE Ticker -------------------------------
(***************************************************************************)
(* A user's ticker: the personal list, and the page that merges it with    *)
(* the featured markets and the pairs of the user's active rules.          *)
(*                                                                         *)
(*   app/crud/user_ticker.py     the personal list and its commits         *)
(*   app/api/routes/ticker.py    the handlers, and the page's three SELECTs *)
(*                                                                         *)
(* The personal list is a table edited by the same statements as the       *)
(* featured one, from the tabs the user has open, and nothing caches it:   *)
(* Mine reads FeaturedAssets so.  Labels and prices are left out.          *)
(***************************************************************************)
EXTENDS FeaturedAssets

CONSTANTS
    Tab,    \* the user's requests in flight
    Mixes   \* bound: the mixes of actors a behaviour may have, see TickerNext

ASSUME ActorsAssumption == Symbol # {} /\ Writer # {} /\ Tab # {}

VARIABLES
    mine,         \* the user's rows of user_ticker_assets
    job,          \* job[t]: a tab's request between two awaits
    alert_pairs,  \* the pairs of the user's active rules
    page,         \* _build_ticker_items between two SELECTs, and its result
    mix,
    \* observers
    my_overlap,   \* a commit fell between another tab's SELECT and commit
    stayed        \* what each source has offered since the page's first SELECT

ticker == << mine, job, alert_pairs, page, mix, my_overlap, stayed >>
all    == << vars, ticker >>

Mine == INSTANCE FeaturedAssets WITH
            rows <- mine, writer <- job, Writer <- Tab, overlapped <- my_overlap,
            cached_symbols <- << >>, TTL <- 1, age <- 1, Reader <- {}, reader <- [r \in {} |-> Away],
            overtaken <- ~TRUE, Defaults <- << >>, MaxFaults <- 0, faults <- 0

Blank == [step |-> "none", featured |-> << >>, personal |-> << >>, items |-> << >>]

\* The symbols each of the three sources offers.
Sources == [featured |-> ToSet(EnabledSymbols), personal |-> ToSet(Mine!EnabledSymbols),
            rules |-> alert_pairs]

TickerTypeOK ==
    /\ TypeOK /\ Mine!TypeOK
    /\ alert_pairs \subseteq Symbol
    /\ page \in [step : {"none", "personal", "rules", "shown"},
                featured : Seq(Symbol), personal : Seq(Symbol), items : Seq(Symbol)]
    /\ my_overlap \in BOOLEAN
    /\ stayed \in [DOMAIN Sources -> SUBSET Symbol]
    /\ mix \in Mixes

\* A new user's list; for the page, one with the seeded symbols, in their order.
TickerInit ==
    /\ Init
    /\ mix \in Mixes
    /\ mine = [s \in IF mix = "page" THEN DOMAIN Seeded ELSE {} |-> Seeded[s]]
    /\ job = [t \in Tab |-> Idle]
    /\ alert_pairs = {}
    /\ page = Blank
    /\ my_overlap = FALSE
    /\ stayed = Sources

-----------------------------------------------------------------------------
(* The personal list. *)

TabOnly == UNCHANGED << vars, alert_pairs, page, mix >>

\* add, a symbol of the directory: get_by_symbol finds nothing, get_for_user
\* gives the end of the list.
AddTicker(t, s)  == Mine!AddCheck(t, s) /\ TabOnly
PlaceTicker(t)   == Mine!AddPlace(t) /\ TabOnly

ToggleTicker(t, s)       == Mine!LoadToggle(t, s) /\ TabOnly
MoveTicker(t, s, offset) == Mine!LoadMove(t, s, offset) /\ TabOnly
RemoveTicker(t, s)       == Mine!RemoveAsset(t, s) /\ TabOnly

\* The commit, refused by the unique key or a row that is gone, or not.
CommitTicker(t) == (Mine!Commit(t) \/ Mine!CommitRefused(t)) /\ TabOnly

\* The refresh that ends add and toggle, and the redirect.
AnswerTicker(t) == (Mine!Refresh(t) \/ Mine!Bust(t)) /\ TabOnly

-----------------------------------------------------------------------------
(* The page. *)

\* The user's first active rule on a pair is created, or the last one goes.
RulesChange(s) ==
    /\ alert_pairs' = IF s \in alert_pairs THEN alert_pairs \ {s} ELSE alert_pairs \cup {s}
    /\ UNCHANGED << vars, mine, job, page, mix, my_overlap >>

PageOnly == UNCHANGED << vars, mine, job, alert_pairs, mix, my_overlap >>

ReadFeatured ==
    /\ page.step \in {"none", "shown"}
    /\ page' = [Blank EXCEPT !.step = "personal", !.featured = EnabledSymbols]
    /\ PageOnly

ReadPersonal ==
    /\ page.step = "personal"
    /\ page' = [page EXCEPT !.step = "rules", !.personal = Mine!EnabledSymbols]
    /\ PageOnly

\* Mutant: a row is skipped when the asset is featured at all, enabled or not.
MergedAll(featured, personal, pairs) ==
    LET own    == ToSet(personal) \ DOMAIN rows
        listed == featured \o Selected(personal, own)
    IN  listed \o Ascending(pairs \ ToSet(listed))

\* Featured first, then the personal rows, then the pairs with active rules,
\* each symbol where it comes first.
Merged(featured, personal, pairs) ==
    LET own    == ToSet(personal) \ ToSet(featured)
        listed == featured \o Selected(personal, own)
    IN  listed \o Ascending(pairs \ ToSet(listed))

ReadRules ==
    /\ page.step = "rules"
    /\ page' = [Blank EXCEPT !.step = "shown",
                             !.items = Merged(page.featured, page.personal, alert_pairs)]
    /\ PageOnly

-----------------------------------------------------------------------------
\* Requests are lost, the lists are in the database.
Restarted ==
    /\ Restart
    /\ job' = [t \in Tab |-> Idle]
    /\ page' = Blank
    /\ UNCHANGED << mine, alert_pairs, mix, my_overlap >>

\* What can happen in each mix of actors: the administrators and readers of
\* FeaturedAssets, two tabs of one user, or the page while all that it reads
\* is switched on and off by one administrator and in one tab.
One(actors) == CHOOSE a \in actors : TRUE

Administration ==
    \/ mix = "admins" /\ Next
    \/ mix = "page" /\ LET w == One(Writer)
                       IN  (\E s \in Symbol : LoadToggle(w, s)) \/ Commit(w) \/ Refresh(w) \/ Bust(w)

Switching(t) == (\E s \in Symbol : ToggleTicker(t, s)) \/ CommitTicker(t) \/ AnswerTicker(t)

Personal(t) ==
    \/ \E s \in Symbol : AddTicker(t, s) \/ RemoveTicker(t, s)
    \/ \E s \in Symbol, offset \in {-1, 1} : MoveTicker(t, s, offset)
    \/ PlaceTicker(t) \/ Switching(t)

Page == ReadFeatured \/ ReadPersonal \/ ReadRules \/ RulesChange(One(Symbol))

TickerNext ==
    /\ \/ Administration /\ UNCHANGED << mine, job, alert_pairs, page, mix, my_overlap >>
       \/ \E t \in Tab : mix = "tabs" /\ Personal(t)
       \/ mix = "page" /\ (Switching(One(Tab)) \/ Page)
       \/ Restarted
    /\ stayed' = IF page.step \in {"personal", "rules"}
                 THEN [k \in DOMAIN Sources |-> stayed[k] \cap Sources'[k]]
                 ELSE IF page'.step = "personal" THEN Sources ELSE stayed

\* Time passes; nobody is obliged to do anything else.
TickerSpec == TickerInit /\ [][TickerNext]_all /\ WF_all(ClockTick /\ UNCHANGED ticker)

-----------------------------------------------------------------------------
(* Properties. *)

\* In either list two rows share a sort_order only after two requests
\* overlapped: one at a time, adding at the end, removing and swapping keep the
\* order strict.
OrderIsStrict == TiesNeedOverlap /\ Mine!TiesNeedOverlap

\* The page is read in three SELECTs while its sources change, and still shows
\* every symbol that one source offered from the first SELECT to the last, once.
PageShowsWhatStayed ==
    page.step = "shown" =>
        /\ IsInjective(page.items)
        /\ UNION {stayed[k] : k \in DOMAIN stayed} \subseteq ToSet(page.items)

=============================================================================
