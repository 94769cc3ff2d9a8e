----------------------------- MODULE PricesProofs -----------------------------
(***************************************************************************)
(* What holds of prices and snapshots for any symbols, intervals, windows, *)
(* delays and bounds.                                                      *)
(*                                                                         *)
(* The rows of the history are related to three clocks: the time since the *)
(* last snapshot, the time since the last answer, and the time for which   *)
(* every tick has had a price.                                             *)
(***************************************************************************)
EXTENDS Prices, WellFoundedInduction, TLAPS


\* A row stored since the last fault is as old as the last time of its snapshot at
\* least; those of the tick under way are new.
Spaced ==
    /\ \A row \in rows : row.era <= faults
    /\ \A row \in rows : \/ row.era < faults
                         \/ row.age >= since_snapshot
                         \/ pc = "store" /\ Due /\ row.age = 0 /\ row.symbol \notin todo
    /\ SnapshotsSpaced

\* Where the tick is.
Course ==
    /\ todo # {} => pc = "store" /\ Due
    /\ \A s \in todo : last_prices[s] # NoPrice
    /\ pc # "reply" => asked = Nobody
    /\ pc = "reply" => \A row \in rows : row.age > 0
    /\ pc = "reply" /\ ~Due => since_snapshot > 0

\* A row that is not older than the last answer has its price.
Confirmed ==
    \A row \in rows :
        \/ row.age > heard[row.symbol]
        \/ last_prices[row.symbol] \in {NoPrice, row.price}

HasRow(s, from, to) == \E row \in rows : row.symbol = s /\ row.age \in from .. to

\* As long as a symbol is covered no span as long as the window is without a row.
Spans ==
    \A s \in Symbol : covered[s] >= 1 =>
        \A x \in Nat : x + 2 * Slack <= covered[s] => HasRow(s, x, x + 2 * Slack)

\* The last snapshot is one of each symbol that was covered then, and will be in this tick.
LastSnapshot ==
    \A s \in Symbol :
        /\ pc = "sleep" /\ covered[s] >= 0 => since_snapshot < Interval \/ since_snapshot = 0
        /\ (pc = "sleep" \/ ~Due) /\ covered[s] >= since_snapshot => HasRow(s, since_snapshot, since_snapshot)
        /\ pc = "store" /\ Due /\ covered[s] >= 0 => s \in todo \/ HasRow(s, 0, 0)

-----------------------------------------------------------------------------
(* Types. *)

LEMMA EmptyDirectory == Empty \in Directory /\ NoRefresh \in Awaiting
<1>1. Empty \in Directory
  BY DEF Empty, Directory
<1>2. NoRefresh = [pending |-> FALSE, answer |-> Empty]
  BY DEF NoRefresh
<1> QED
  BY <1>1, <1>2 DEF Awaiting

LEMMA DirectoryTypes ==
  ASSUME DirectoryOK
  PROVE  /\ \A r \in Refresher : RefreshStep(r) => DirectoryOK'
         /\ \A k \in Key : Relist(k) => DirectoryOK'
<1>1. /\ listed \subseteq Key /\ pairs \in Directory
      /\ refresh \in [Refresher -> Awaiting] /\ started \in BOOLEAN
  BY DEF DirectoryOK
<1>2. ASSUME NEW r \in Refresher, NEW d \in Directory, Answered(r, d) PROVE DirectoryOK'
  <2>1. [pending |-> TRUE, answer |-> d] \in Awaiting
    BY DEF Awaiting
  <2>2. refresh' \in [Refresher -> Awaiting]
    BY <1>1, <1>2, <2>1 DEF Answered
  <2> QED
    BY <1>1, <1>2, <2>2 DEF Answered, DirectoryOK
<1>3. ASSUME NEW r \in Refresher, Done(r), pairs' \in Directory PROVE DirectoryOK'
  BY <1>1, <1>3, EmptyDirectory DEF Done, DirectoryOK
<1>4. \A r \in Refresher : refresh[r].answer \in Directory
  BY <1>1 DEF Awaiting
<1>5. ASSUME NEW r \in Refresher, RefreshStep(r) PROVE DirectoryOK'
  <2>1. CASE AnswerFull(r)
    BY <1>2, <2>1 DEF AnswerFull, Listings
  <2>2. CASE AnswerEmpty(r)
    BY <1>2, <2>2, EmptyDirectory DEF AnswerEmpty
  <2>3. CASE Apply(r)
    BY <1>1, <1>3, <1>4, <2>3 DEF Apply
  <2>4. CASE RefreshFails(r)
    BY <1>1, <1>3, <2>4, FallbackAssumption DEF RefreshFails
  <2> QED
    BY <1>5, <2>1, <2>2, <2>3, <2>4 DEF RefreshStep
<1>6. ASSUME NEW k \in Key, Relist(k) PROVE DirectoryOK'
  BY <1>1, <1>6 DEF Relist, DirectoryOK
<1> QED
  BY <1>5, <1>6

\* The tick's part of the types.
TickType ==
    /\ pc \in {"sleep", "reply", "store"}
    /\ \E S \in SUBSET Symbol : asked \in [S -> Key \cup {NoKey}]
    /\ todo \subseteq Symbol
    /\ since_snapshot \in 0 .. Interval

DataType ==
    /\ watched \subseteq Symbol
    /\ last_prices \in [Symbol -> Price \cup {NoPrice}]
    /\ rows \subseteq Row
    /\ faults \in 0 .. MaxFaults
    /\ mix \in Mixes
    /\ heard \in [Symbol -> 0 .. End]
    /\ covered \in [Symbol -> -1 .. End]

LEMMA Types == TypeOK <=> DirectoryOK /\ TickType /\ DataType
BY DEF TypeOK, TickType, DataType

LEMMA Bounds == /\ Interval \in Nat /\ Hour \in Nat \ {0} /\ Slack \in Nat /\ Slack <= Hour
                /\ Delays \cup LongDelays \subseteq Nat \ {0}
                /\ Day \in Nat /\ KeepDays \subseteq Int /\ Oldest \in Nat
                /\ End = Hour + Slack /\ End \in Nat /\ End <= Day /\ Day < Oldest
                /\ 0 \in 0 .. End /\ -1 \in -1 .. End
BY TimeAssumption DEF End

LEMMA NobodyType == Nobody \in [{} -> Key \cup {NoKey}] /\ DOMAIN Nobody = {}
BY DEF Nobody

LEMMA CappedType ==
  ASSUME NEW n \in Nat, NEW most \in Nat
  PROVE  Capped(n, most) \in 0 .. most /\ Capped(n, most) <= n /\ (n <= most => Capped(n, most) = n)
                                       /\ (n >= most => Capped(n, most) = most)
BY DEF Capped

LEMMA TypeInit == Init => TypeOK
<1> SUFFICES ASSUME Init PROVE TypeOK
  OBVIOUS
<1>1. DirectoryOK
  BY EmptyDirectory DEF Init, FreshDirectory, DirectoryOK
<1>2. TickType
  <2>1. \E S \in SUBSET Symbol : asked \in [S -> Key \cup {NoKey}]
    BY NobodyType DEF Init
  <2> QED
    BY <2>1, Bounds DEF Init, TickType
<1>3. DataType
  <2>1. last_prices \in [Symbol -> Price \cup {NoPrice}]
    BY DEF Init, NoPrices
  <2>2. heard \in [Symbol -> 0 .. End] /\ covered \in [Symbol -> -1 .. End]
    BY Bounds DEF Init
  <2> QED
    BY <2>1, <2>2, PriceAssumption, FaultAssumption DEF Init, DataType
<1> QED
  BY <1>1, <1>2, <1>3, Types

\* Steps that touch nothing but the directory or what is watched.
Elsewhere == UNCHANGED << tickVars, last_prices, rows, faults, mix, heard, covered >>

LEMMA StepKinds ==
  ASSUME [Next]_allVars
  PROVE  \/ Elsewhere
         \/ \E d \in Nat \ {0} : StartTick(d)
         \/ FetchFails \/ FetchSucceeds \/ (\E s \in Symbol : Store(s)) \/ StoreFails \/ EndTick
         \/ \E days \in KeepDays : Prune(days)
         \/ Restart
<1>1. TickStarts => \E d \in Nat \ {0} : StartTick(d)
  BY Bounds DEF TickStarts
<1>2. DirectoryStep \/ UNCHANGED allVars => Elsewhere
  BY DEF DirectoryStep, Elsewhere, allVars, priceVars
<1>3. ASSUME NEW s, Watch(s) \/ Unwatch(s) PROVE Elsewhere
  BY <1>3 DEF Watch, Unwatch, OnlyWatched, Elsewhere
<1> QED
  BY <1>1, <1>2, <1>3 DEF Next, TickStep

\* What an answer does, symbol by symbol: a new price, or none.
Answers ==
    /\ pc = "reply" /\ pc' = "store" /\ asked' = Nobody
    /\ last_prices' \in [Symbol -> Price \cup {NoPrice}]
    /\ heard' \in [Symbol -> 0 .. End]
    /\ covered' \in [Symbol -> -1 .. End]
    /\ \A s \in Symbol :
          /\ \/ heard'[s] = 0 /\ last_prices'[s] # NoPrice
             \/ heard'[s] = heard[s] /\ last_prices'[s] = last_prices[s]
          /\ covered'[s] >= 0 => /\ last_prices'[s] # NoPrice
                                 /\ Due => s \in todo'
                                 /\ covered'[s] = IF covered[s] = -1 THEN 0 ELSE covered[s]
    /\ todo' \subseteq {s \in Symbol : last_prices'[s] # NoPrice}
    /\ ~Due => todo' = {}
    /\ UNCHANGED << directoryVars, watched, since_snapshot, rows, faults, mix >>

LEMMA FetchAnswers ==
  ASSUME TypeOK, FetchSucceeds
  PROVE  Answers
<1> DEFINE keys == {asked[s] : s \in DOMAIN asked}
<1>1. PICK result \in SUBSET keys : \E quote \in [result -> Quotes], found \in [DOMAIN asked -> result \cup {NoKey}] :
                                        Fetch(result, quote, found)
  BY DEF FetchSucceeds
<1>2. PICK quote \in [result -> Quotes], found \in [DOMAIN asked -> result \cup {NoKey}] :
              Fetch(result, quote, found)
  BY <1>1
<1>3. Quotes \subseteq Price /\ NoPrice \notin Price
  BY PriceAssumption DEF Quotes, NoPrice
<1>4. PICK S \in SUBSET Symbol : asked \in [S -> Key \cup {NoKey}]
  BY DEF TypeOK
<1>5. DOMAIN asked = S
  BY <1>4
<1> DEFINE Got(s) == s \in S /\ found[s] # NoKey
<1>6. \A s \in Symbol : Got(s) => found[s] \in result /\ quote[found[s]] \in Price
  BY <1>2, <1>3, <1>5
<1> DEFINE price(s) == IF Got(s) THEN quote[found[s]] ELSE last_prices[s]
           priced == {s \in S : last_prices'[s] # NoPrice}
<1>7. /\ pc = "reply" /\ pc' = "store" /\ asked' = Nobody
      /\ last_prices' = [s \in Symbol |-> price(s)]
      /\ heard' = [s \in Symbol |-> IF Got(s) THEN 0 ELSE heard[s]]
      /\ todo' = IF Due THEN priced ELSE {}
      /\ covered' = [s \in Symbol |-> IF s \notin priced THEN -1
                                      ELSE IF covered[s] = -1 THEN 0 ELSE covered[s]]
      /\ UNCHANGED << directoryVars, watched, since_snapshot, rows, faults, mix >>
  BY <1>2, <1>5 DEF Fetch
<1>8. /\ last_prices \in [Symbol -> Price \cup {NoPrice}]
      /\ heard \in [Symbol -> 0 .. End] /\ covered \in [Symbol -> -1 .. End]
  BY DEF TypeOK
<1>9. \A s \in Symbol : price(s) \in Price \cup {NoPrice} /\ (Got(s) => price(s) # NoPrice)
  BY <1>3, <1>6, <1>8
<1> HIDE DEF Got
<1>10. last_prices' \in [Symbol -> Price \cup {NoPrice}] /\ \A s \in Symbol : last_prices'[s] = price(s)
  <2> HIDE DEF price
  <2> QED
    BY <1>7, <1>9
<1>11. heard' \in [Symbol -> 0 .. End]
  BY <1>7, <1>8, Bounds
<1> HIDE DEF priced
<1>12. covered' \in [Symbol -> -1 .. End]
  BY <1>7, <1>8, Bounds
<1>13. \A s \in priced : s \in Symbol /\ last_prices'[s] # NoPrice
  BY DEF priced
<1>14. todo' \subseteq {s \in Symbol : last_prices'[s] # NoPrice} /\ (~Due => todo' = {})
  BY <1>7, <1>13
<1>15. ASSUME NEW s \in Symbol
       PROVE  /\ \/ heard'[s] = 0 /\ last_prices'[s] # NoPrice
                 \/ heard'[s] = heard[s] /\ last_prices'[s] = last_prices[s]
              /\ covered'[s] >= 0 => /\ last_prices'[s] # NoPrice
                                     /\ Due => s \in todo'
                                     /\ covered'[s] = IF covered[s] = -1 THEN 0 ELSE covered[s]
  <2>1. \/ heard'[s] = 0 /\ last_prices'[s] # NoPrice
        \/ heard'[s] = heard[s] /\ last_prices'[s] = last_prices[s]
    BY <1>7, <1>9, <1>10
  <2>2. covered'[s] >= 0 => s \in priced
    BY <1>7
  <2> QED
    BY <1>7, <1>13, <2>1, <2>2
<1> QED
  BY <1>7, <1>10, <1>11, <1>12, <1>14, <1>15 DEF Answers

\* The clocks go on.
Aged(d) ==
    /\ rows' = {Older(row, d) : row \in {r \in rows : r.age + d <= Oldest}}
    /\ since_snapshot' = Capped(since_snapshot + d, Interval)
    /\ heard' = [s \in Symbol |-> Capped(heard[s] + d, End)]

LEMMA AgedRows ==
  ASSUME rows \subseteq Row, NEW d \in Nat, Aged(d)
  PROVE  /\ rows' \subseteq Row
         /\ \A old \in rows' : \E row \in rows : /\ old.symbol = row.symbol /\ old.price = row.price
                                                 /\ old.age = row.age + d /\ old.era = row.era
         /\ \A row \in rows : row.age + d <= Oldest =>
               \E old \in rows' : old.symbol = row.symbol /\ old.age = row.age + d
<1>1. \A row \in rows : /\ row = [symbol |-> row.symbol, price |-> row.price, age |-> row.age, era |-> row.era]
                        /\ row.symbol \in Symbol /\ row.price \in Price
                        /\ row.age \in 0 .. Oldest /\ row.era \in 0 .. MaxFaults
  BY DEF Row
<1>2. \A row \in rows : Older(row, d) = [symbol |-> row.symbol, price |-> row.price, age |-> row.age + d,
                                         era |-> row.era]
  BY <1>1 DEF Older
<1>3. ASSUME NEW old \in rows'
      PROVE  \E row \in rows : /\ old.symbol = row.symbol /\ old.price = row.price
                               /\ old.age = row.age + d /\ old.era = row.era
                               /\ row.age + d <= Oldest
                               /\ old = [symbol |-> row.symbol, price |-> row.price,
                                         age |-> row.age + d, era |-> row.era]
  BY <1>2, <1>3 DEF Aged
<1>4. rows' \subseteq Row
  BY <1>1, <1>3, Bounds DEF Row
<1>5. ASSUME NEW row \in rows, row.age + d <= Oldest
      PROVE  \E old \in rows' : old.symbol = row.symbol /\ old.age = row.age + d
  <2>1. Older(row, d) \in rows'
    BY <1>5 DEF Aged
  <2>2. Older(row, d).symbol = row.symbol /\ Older(row, d).age = row.age + d
    BY <1>2
  <2> QED
    BY <2>1, <2>2
<1> QED
  BY <1>3, <1>4, <1>5

LEMMA NextRows ==
  ASSUME TypeOK, NEW s \in Symbol, Store(s), last_prices[s] # NoPrice
  PROVE  [symbol |-> s, price |-> last_prices[s], age |-> 0, era |-> faults] \in Row
<1>1. last_prices[s] \in Price /\ faults \in 0 .. MaxFaults
  BY DEF TypeOK
<1> QED
  BY <1>1, Bounds DEF Row

LEMMA TypeStep ==
  ASSUME TypeOK, Course, [Next]_allVars
  PROVE  TypeOK'
<1>1. DirectoryOK /\ TickType /\ DataType
  BY Types
<1>2. DirectoryOK'
  <2>1. CASE UNCHANGED directoryVars
    BY <1>1, <2>1 DEF DirectoryOK, directoryVars
  <2>2. CASE Restart
    <3>1. refresh' \in [Refresher -> Awaiting]
      BY <2>2, EmptyDirectory DEF Restart
    <3> QED
      BY <1>1, <2>2, <3>1, EmptyDirectory DEF Restart, DirectoryOK
  <2>3. CASE DirectoryStep
    BY <1>1, <2>3, DirectoryTypes DEF DirectoryStep
  <2>4. \/ UNCHANGED directoryVars \/ Restart \/ DirectoryStep
    BY DEF Next, Watch, Unwatch, OnlyWatched, TickStarts, StartTick, TickStep, FetchFails, FetchSucceeds, Fetch,
           Store, StoreFails, EndTick, Prune, allVars
  <2> QED
    BY <2>1, <2>2, <2>3, <2>4
<1>3. watched' \subseteq Symbol
  <2>1. UNCHANGED watched \/ \E s \in Symbol : Watch(s) \/ Unwatch(s)
    BY DEF Next, DirectoryStep, TickStarts, StartTick, TickStep, FetchFails, FetchSucceeds, Fetch,
           Store, StoreFails, EndTick, Prune, Restart, allVars, priceVars
  <2> QED
    BY <1>1, <2>1 DEF Watch, Unwatch, DataType
<1>4. ASSUME Abandon, UNCHANGED << since_snapshot, rows, mix, heard >>, faults' \in 0 .. MaxFaults,
             last_prices' \in [Symbol -> Price \cup {NoPrice}]
      PROVE  TypeOK'
  <2>1. \E S \in SUBSET Symbol : asked' \in [S -> Key \cup {NoKey}]
    BY <1>4, NobodyType DEF Abandon
  <2>2. covered' \in [Symbol -> -1 .. End]
    BY <1>4, Bounds DEF Abandon
  <2>3. TickType'
    BY <1>1, <1>4, <2>1 DEF Abandon, TickType
  <2>4. DataType'
    BY <1>1, <1>3, <1>4, <2>2 DEF DataType
  <2> QED
    BY <1>2, <2>3, <2>4, Types DEF TypeOK, TickType, DataType
<1>5. ASSUME TickType', DataType' PROVE TypeOK'
  BY <1>2, <1>5 DEF TypeOK, TickType, DataType
<1>6. CASE Elsewhere
  BY <1>1, <1>3, <1>5, <1>6 DEF Elsewhere, tickVars, TickType, DataType
<1>7. ASSUME NEW d \in Nat \ {0}, StartTick(d) PROVE TypeOK'
  <2>1. Aged(d)
    BY <1>7 DEF StartTick, Aged
  <2>2. rows' \subseteq Row
    BY <1>1, <2>1, AgedRows DEF DataType
  <2>3. since_snapshot' \in 0 .. Interval
    BY <1>1, <2>1, CappedType, Bounds DEF Aged, TickType
  <2>4. ASSUME NEW s \in Symbol, NEW n \in -1 .. End, n >= 0 PROVE Capped(n + d, End) \in 0 .. End
    BY <2>4, CappedType, Bounds
  <2>5. heard' \in [Symbol -> 0 .. End]
    <3>1. \A s \in Symbol : Capped(heard[s] + d, End) \in 0 .. End
      BY <1>1, <2>4, Bounds DEF DataType
    <3> QED
      BY <2>1, <3>1 DEF Aged
  <2>6. covered' \in [Symbol -> -1 .. End]
    <3>1. \A s \in Symbol : covered[s] >= 0 => Capped(covered[s] + d, End) \in -1 .. End
      BY <1>1, <2>4, Bounds DEF DataType
    <3>2. \A s \in Symbol : (IF OnTime(d) /\ s \in watched /\ covered[s] >= 0
                             THEN Capped(covered[s] + d, End) ELSE -1) \in -1 .. End
      BY <3>1, Bounds
    <3>3. covered' = [s \in Symbol |-> IF OnTime(d) /\ s \in watched /\ covered[s] >= 0
                                       THEN Capped(covered[s] + d, End) ELSE -1]
      BY <1>7 DEF StartTick
    <3> QED
      BY <3>2, <3>3
  <2>7. asked' \in [watched -> Key \cup {NoKey}]
    <3>1. \A s \in Symbol : Query(s) \in Key \cup {NoKey}
      BY <1>1, SpellAssumption DEF DirectoryOK, Query, Directory
    <3> QED
      BY <1>1, <1>7, <3>1 DEF StartTick, DataType
  <2>8. UNCHANGED << todo, last_prices, faults, mix >> /\ pc' \in {"reply", "store"}
    BY <1>7 DEF StartTick
  <2>9. \E S \in SUBSET Symbol : asked' \in [S -> Key \cup {NoKey}]
    BY <1>1, <2>7 DEF DataType
  <2>10. TickType'
    BY <1>1, <2>3, <2>8, <2>9 DEF TickType
  <2>11. DataType'
    BY <1>1, <1>3, <2>2, <2>5, <2>6, <2>8 DEF DataType
  <2> QED
    BY <1>5, <2>10, <2>11
<1>8. CASE FetchFails
  BY <1>1, <1>4, <1>8 DEF FetchFails, DataType
<1>9. CASE FetchSucceeds
  <2>1. Answers
    BY <1>9, FetchAnswers
  <2>2. \E S \in SUBSET Symbol : asked' \in [S -> Key \cup {NoKey}]
    BY <2>1, NobodyType DEF Answers
  <2>3. TickType'
    BY <1>1, <2>1, <2>2 DEF Answers, TickType
  <2>4. DataType'
    BY <1>1, <2>1 DEF Answers, DataType
  <2> QED
    BY <1>5, <2>3, <2>4
<1>10. ASSUME NEW s \in Symbol, Store(s) PROVE TypeOK'
  <2>1. last_prices[s] # NoPrice
    BY <1>10 DEF Store, Course
  <2>2. rows' \subseteq Row
    BY <1>1, <1>10, <2>1, NextRows DEF Store, DataType
  <2>3. TickType'
    BY <1>1, <1>10 DEF Store, TickType
  <2>4. DataType'
    BY <1>1, <1>10, <2>2 DEF Store, DataType
  <2> QED
    BY <1>5, <2>3, <2>4
<1>11. CASE StoreFails
  <2>1. faults' \in 0 .. MaxFaults
    BY <1>1, <1>11, FaultAssumption DEF StoreFails, DataType
  <2> QED
    BY <1>1, <1>4, <1>11, <2>1 DEF StoreFails, DataType
<1>12. CASE EndTick
  <2>1. TickType'
    BY <1>1, <1>12, Bounds DEF EndTick, TickType
  <2>2. DataType'
    BY <1>1, <1>12 DEF EndTick, DataType
  <2> QED
    BY <1>5, <2>1, <2>2
<1>13. ASSUME NEW days, Prune(days) PROVE TypeOK'
  <2>1. TickType'
    BY <1>1, <1>13 DEF Prune, tickVars, TickType
  <2>2. DataType'
    BY <1>1, <1>13 DEF Prune, tickVars, DataType
  <2> QED
    BY <1>5, <2>1, <2>2
<1>14. CASE Restart
  <2>1. faults' \in 0 .. MaxFaults
    BY <1>1, <1>14, FaultAssumption DEF Restart, DataType
  <2>2. last_prices' \in [Symbol -> Price \cup {NoPrice}]
    BY <1>14 DEF Restart, NoPrices
  <2>3. Abandon /\ UNCHANGED << rows, mix, heard >> /\ since_snapshot' = Interval
    BY <1>14 DEF Restart
  <2>4. \E S \in SUBSET Symbol : asked' \in [S -> Key \cup {NoKey}]
    BY <2>3, NobodyType DEF Abandon
  <2>5. covered' \in [Symbol -> -1 .. End]
    BY <2>3, Bounds DEF Abandon
  <2>6. TickType'
    BY <1>1, <2>3, <2>4, Bounds DEF Abandon, TickType
  <2>7. DataType'
    BY <1>1, <1>3, <2>1, <2>2, <2>3, <2>5 DEF DataType
  <2> QED
    BY <1>5, <2>6, <2>7
<1> QED
  BY <1>6, <1>7, <1>8, <1>9, <1>10, <1>11, <1>12, <1>13, <1>14, StepKinds

-----------------------------------------------------------------------------
(* The tick, the spacing of snapshots, the age of prices. *)

LEMMA CourseInit == Init => Course
BY DEF Init, Course

LEMMA CourseStep ==
  ASSUME TypeOK, Course, [Next]_allVars
  PROVE  Course'
<1>1. /\ rows \subseteq Row /\ since_snapshot \in 0 .. Interval
      /\ pc \in {"sleep", "reply", "store"}
  BY DEF TypeOK
<1>2. CASE Elsewhere
  BY <1>2 DEF Course, Elsewhere, tickVars, Due
<1>3. ASSUME NEW d \in Nat \ {0}, StartTick(d) PROVE Course'
  <2>1. Aged(d) /\ todo' = todo /\ pc = "sleep" /\ pc' \in {"reply", "store"}
    BY <1>3 DEF StartTick, Aged
  <2>2. todo' = {}
    BY <2>1 DEF Course
  <2>3. \A old \in rows' : old.age > 0
    <3>1. \A row \in rows : row.age \in Nat
      BY <1>1, Bounds DEF Row
    <3> QED
      BY <1>1, <2>1, <3>1, AgedRows
  <2>4. ~Due' => since_snapshot' > 0
    BY <1>1, <2>1, CappedType, Bounds DEF Aged, Due
  <2>5. pc' # "reply" => asked' = Nobody
    BY <1>3 DEF StartTick, Nobody
  <2> QED
    BY <2>2, <2>3, <2>4, <2>5 DEF Course
<1>4. CASE Abandon
  BY <1>4 DEF Abandon, Course
<1>5. FetchFails \/ StoreFails \/ Restart => Abandon
  BY DEF FetchFails, StoreFails, Restart
<1>6. CASE FetchSucceeds
  <2>1. Answers
    BY <1>6, FetchAnswers
  <2> QED
    BY <2>1 DEF Answers, Course, Due
<1>7. ASSUME NEW s \in Symbol, Store(s) PROVE Course'
  <2>1. /\ pc = "store" /\ Due /\ asked = Nobody
        /\ UNCHANGED << pc, asked, since_snapshot, last_prices >> /\ todo' \subseteq todo
    BY <1>7 DEF Store, Course
  <2> QED
    BY <2>1 DEF Course, Due
<1>8. CASE EndTick
  BY <1>8 DEF EndTick, Course
<1>9. ASSUME NEW days, Prune(days) PROVE Course'
  BY <1>9 DEF Prune, Course, Due, tickVars
<1> QED
  BY <1>2, <1>3, <1>4, <1>5, <1>6, <1>7, <1>8, <1>9, StepKinds

LEMMA SpacedInit == Init => Spaced
BY DEF Init, Spaced, SnapshotsSpaced

LEMMA SpacedStep ==
  ASSUME TypeOK, Course, Spaced, [Next]_allVars
  PROVE  Spaced'
<1>1. /\ rows \subseteq Row /\ since_snapshot \in 0 .. Interval /\ faults \in Nat
      /\ \A row \in rows : row.age \in Nat /\ row.symbol \in Symbol /\ row.era \in Nat
  BY Bounds, FaultAssumption DEF TypeOK, Row
<1>2. /\ \A row \in rows : row.era <= faults
      /\ \A row \in rows : \/ row.era < faults
                           \/ row.age >= since_snapshot
                           \/ pc = "store" /\ Due /\ row.age = 0 /\ row.symbol \notin todo
      /\ \A r1, r2 \in rows : r1.symbol = r2.symbol /\ r1.era = r2.era /\ r1.age < r2.age
                                  => r2.age - r1.age >= Interval
  BY DEF Spaced, SnapshotsSpaced
<1>3. ASSUME \A row \in rows' : row.era <= faults',
             \A row \in rows' : \/ row.era < faults'
                                \/ row.age >= since_snapshot'
                                \/ pc' = "store" /\ Due' /\ row.age = 0 /\ row.symbol \notin todo',
             \A r1, r2 \in rows' : r1.symbol = r2.symbol /\ r1.era = r2.era /\ r1.age < r2.age
                                       => r2.age - r1.age >= Interval
      PROVE  Spaced'
  BY <1>3 DEF Spaced, SnapshotsSpaced
<1>4. CASE Elsewhere
  BY <1>2, <1>3, <1>4 DEF Elsewhere, tickVars, Due
<1>5. ASSUME NEW d \in Nat \ {0}, StartTick(d) PROVE Spaced'
  <2>1. Aged(d) /\ pc = "sleep" /\ faults' = faults
    BY <1>5 DEF StartTick, Aged
  <2>2. \A old \in rows' : \E row \in rows : /\ old.symbol = row.symbol /\ old.era = row.era
                                             /\ old.age = row.age + d
    BY <1>1, <2>1, AgedRows
  <2>3. since_snapshot + d \in Nat /\ Interval \in Nat /\ since_snapshot' = Capped(since_snapshot + d, Interval)
    BY <1>1, <2>1, Bounds DEF Aged
  <2>4. since_snapshot' \in Int /\ since_snapshot' <= since_snapshot + d
    BY <2>3, CappedType
  <2>5. \A old \in rows' : old.era <= faults /\ (old.era < faults \/ old.age >= since_snapshot')
    BY <1>1, <1>2, <2>1, <2>2, <2>3, <2>4
  <2>6. \A r1, r2 \in rows' : r1.symbol = r2.symbol /\ r1.era = r2.era /\ r1.age < r2.age
                                  => r2.age - r1.age >= Interval
    BY <1>1, <1>2, <2>1, <2>2, Bounds
  <2> QED
    BY <1>3, <2>1, <2>5, <2>6
<1>6. CASE FetchFails
  <2>1. pc = "reply" /\ UNCHANGED << rows, since_snapshot, faults >>
    BY <1>6 DEF FetchFails
  <2> QED
    BY <1>2, <1>3, <2>1
<1>7. CASE FetchSucceeds
  <2>1. Answers
    BY <1>7, FetchAnswers
  <2> QED
    BY <1>2, <1>3, <2>1 DEF Answers
\* The rows of a symbol that is still to be stored are an interval old, unless older
\* than the last fault.
<1>8. ASSUME NEW s \in Symbol, Store(s) PROVE Spaced'
  <2> DEFINE new == [symbol |-> s, price |-> last_prices[s], age |-> 0, era |-> faults]
  <2>1. /\ s \in todo /\ todo' = todo \ {s} /\ rows' = rows \cup {new}
        /\ UNCHANGED << pc, since_snapshot, faults >>
    BY <1>8 DEF Store
  <2>2. pc = "store" /\ since_snapshot >= Interval /\ Due'
    BY <2>1 DEF Course, Due
  <2>3. new.symbol = s /\ new.age = 0 /\ new.era = faults
    OBVIOUS
  <2> HIDE DEF new
  <2>4. \A row \in rows : row.symbol = s /\ row.era = faults => row.age >= Interval
    BY <1>1, <1>2, <2>1, <2>2, Bounds
  <2>5. \A row \in rows' : /\ row.era <= faults'
                           /\ \/ row.era < faults'
                              \/ row.age >= since_snapshot'
                              \/ pc' = "store" /\ Due' /\ row.age = 0 /\ row.symbol \notin todo'
    BY <1>1, <1>2, <2>1, <2>2, <2>3
  <2>6. \A r1, r2 \in rows' : r1.symbol = r2.symbol /\ r1.era = r2.era /\ r1.age < r2.age
                                  => r2.age - r1.age >= Interval
    BY <1>1, <1>2, <2>1, <2>3, <2>4, Bounds
  <2> QED
    BY <1>3, <2>5, <2>6
\* After a fault no row is of the new era yet.
<1>9. CASE StoreFails \/ Restart
  <2>1. rows' = rows /\ faults' = faults + 1
    BY <1>9 DEF StoreFails, Restart
  <2>2. \A row \in rows' : row.era < faults'
    BY <1>1, <1>2, <2>1
  <2> QED
    BY <1>1, <1>2, <1>3, <2>1, <2>2
<1>10. CASE EndTick
  <2>1. UNCHANGED << rows, faults >> /\ todo = {} /\ since_snapshot' = IF Due THEN 0 ELSE since_snapshot
    BY <1>10 DEF EndTick
  <2>2. ~Due => \A row \in rows : row.era < faults \/ row.age >= since_snapshot
    BY <1>2, <2>1
  <2> QED
    BY <1>1, <1>2, <1>3, <2>1, <2>2
<1>11. ASSUME NEW days, Prune(days) PROVE Spaced'
  <2>1. rows' \subseteq rows /\ UNCHANGED << pc, todo, since_snapshot, faults >>
    BY <1>11 DEF Prune, tickVars
  <2> QED
    BY <1>2, <1>3, <2>1 DEF Due
<1> QED
  BY <1>4, <1>5, <1>6, <1>7, <1>8, <1>9, <1>10, <1>11, StepKinds

LEMMA ConfirmedInit == Init => Confirmed
BY DEF Init, Confirmed

LEMMA ConfirmedStep ==
  ASSUME TypeOK, Course, Confirmed, [Next]_allVars
  PROVE  Confirmed'
<1>1. /\ rows \subseteq Row /\ heard \in [Symbol -> 0 .. End]
      /\ last_prices \in [Symbol -> Price \cup {NoPrice}]
      /\ \A row \in rows : row.age \in Nat /\ row.symbol \in Symbol
  BY Bounds DEF TypeOK, Row
<1>2. \A row \in rows : \/ row.age > heard[row.symbol]
                        \/ last_prices[row.symbol] \in {NoPrice, row.price}
  BY DEF Confirmed
<1>3. ASSUME UNCHANGED << heard, last_prices >>, rows' \subseteq rows PROVE Confirmed'
  BY <1>2, <1>3 DEF Confirmed
<1>4. CASE Elsewhere \/ FetchFails \/ StoreFails \/ EndTick
  BY <1>3, <1>4 DEF Elsewhere, FetchFails, StoreFails, EndTick
<1>5. ASSUME NEW d \in Nat \ {0}, StartTick(d) PROVE Confirmed'
  <2>1. Aged(d) /\ last_prices' = last_prices
    BY <1>5 DEF StartTick, Aged
  <2>2. \A old \in rows' : \E row \in rows : /\ old.symbol = row.symbol /\ old.price = row.price
                                             /\ old.age = row.age + d
    BY <1>1, <2>1, AgedRows
  <2>3. \A s \in Symbol : heard[s] + d \in Nat /\ heard'[s] = Capped(heard[s] + d, End)
    BY <1>1, <2>1, Bounds DEF Aged
  <2>4. \A s \in Symbol : heard'[s] <= heard[s] + d /\ heard'[s] \in Int
    BY <2>3, CappedType, Bounds
  <2> QED
    BY <1>1, <1>2, <2>1, <2>2, <2>4, Bounds DEF Confirmed
\* All rows are older than an answer that comes now.
<1>6. CASE FetchSucceeds
  <2>1. Answers
    BY <1>6, FetchAnswers
  <2>2. \A row \in rows : row.age > 0
    BY <2>1 DEF Answers, Course
  <2> QED
    BY <1>1, <1>2, <2>1, <2>2 DEF Answers, Confirmed
<1>7. ASSUME NEW s \in Symbol, Store(s) PROVE Confirmed'
  <2> DEFINE new == [symbol |-> s, price |-> last_prices[s], age |-> 0, era |-> faults]
  <2>1. rows' = rows \cup {new} /\ UNCHANGED << heard, last_prices >>
    BY <1>7 DEF Store
  <2>2. new.symbol = s /\ new.price = last_prices[s]
    OBVIOUS
  <2> HIDE DEF new
  <2> QED
    BY <1>2, <2>1, <2>2 DEF Confirmed
<1>8. ASSUME NEW days, Prune(days) PROVE Confirmed'
  BY <1>3, <1>8 DEF Prune
<1>9. CASE Restart
  BY <1>1, <1>9 DEF Restart, Confirmed, NoPrices
<1> QED
  BY <1>4, <1>5, <1>6, <1>7, <1>8, <1>9, StepKinds

-----------------------------------------------------------------------------
(* The window is covered. *)

LEMMA SpansInit == Init => Spans /\ LastSnapshot
<1>1. Init => \A s \in Symbol : covered[s] = -1
  BY DEF Init
<1>2. Init => pc = "sleep" /\ since_snapshot = Interval
  BY DEF Init
<1> QED
  BY <1>1, <1>2, Bounds DEF Spans, LastSnapshot

\* Retention keeps what is not older than the window.
LEMMA KeptLong ==
  ASSUME NEW days \in KeepDays
  PROVE  Kept(days) \in Int /\ Kept(days) >= End
<1>1. days \in Int /\ Day \in Nat /\ End <= Day /\ End \in Nat
  BY Bounds
<1>2. ASSUME days >= 1 PROVE days * Day >= Day
  <2>1. (days - 1) * Day >= 0
    BY <1>1, <1>2
  <2>2. (days - 1) * Day = days * Day - Day
    BY <1>1
  <2> QED
    BY <1>1, <2>1, <2>2
<1>3. days * Day \in Int
  BY <1>1
<1> QED
  BY <1>1, <1>2, <1>3 DEF Kept

\* Rows within the window stay, but for their age.
LEMMA RowsStay ==
  ASSUME TypeOK, NEW s, NEW from \in Int, NEW to \in Int, HasRow(s, from, to), to <= End
  PROVE  /\ \A days \in KeepDays : Prune(days) => HasRow(s, from, to)'
         /\ \A x \in Symbol : Store(x) => HasRow(s, from, to)'
         /\ rows' = rows => HasRow(s, from, to)'
<1>1. PICK row \in rows : row.symbol = s /\ row.age \in from .. to
  BY DEF HasRow
<1>2. \A days \in KeepDays : row.age <= Kept(days)
  BY <1>1, KeptLong, Bounds
<1>3. ASSUME NEW days \in KeepDays, Prune(days) PROVE row \in rows'
  BY <1>1, <1>2, <1>3 DEF Prune
<1>4. ASSUME NEW x \in Symbol, Store(x) PROVE row \in rows'
  BY <1>1, <1>4 DEF Store
<1> QED
  BY <1>1, <1>3, <1>4 DEF HasRow

LEMMA RowsAge ==
  ASSUME TypeOK, NEW d \in Nat, Aged(d), NEW s, NEW from \in Int, NEW to \in Int, HasRow(s, from, to),
         to + d <= End
  PROVE  HasRow(s, from + d, to + d)'
<1>1. PICK row \in rows : row.symbol = s /\ row.age \in from .. to
  BY DEF HasRow
<1>2. row.age \in Int /\ row.age + d <= Oldest /\ row.age + d \in from + d .. to + d
  BY <1>1, Bounds
<1>3. PICK old \in rows' : old.symbol = row.symbol /\ old.age = row.age + d
  BY <1>1, <1>2, AgedRows DEF TypeOK
<1> QED
  BY <1>1, <1>2, <1>3 DEF HasRow

LEMMA SpansStep ==
  ASSUME TypeOK, Course, Spans, LastSnapshot, [Next]_allVars
  PROVE  Spans' /\ LastSnapshot'
<1>1. /\ rows \subseteq Row /\ since_snapshot \in 0 .. Interval
      /\ covered \in [Symbol -> -1 .. End]
      /\ \A s \in Symbol : covered[s] \in Int /\ covered[s] <= End
  BY Bounds DEF TypeOK
<1>2. TypeOK'
  BY TypeStep
<1>3. CASE \A s \in Symbol : covered'[s] = -1
  BY <1>2, <1>3, Bounds DEF Spans, LastSnapshot, TypeOK
<1>4. FetchFails \/ StoreFails \/ Restart => \A s \in Symbol : covered'[s] = -1
  BY DEF FetchFails, StoreFails, Restart, Abandon
<1>5. CASE Elsewhere
  BY <1>5 DEF Elsewhere, tickVars, Spans, LastSnapshot, HasRow, Due
\* What the tick starts with, and the last snapshot, are not too far apart for a
\* span to fall between them.
<1>6. ASSUME NEW d \in Nat \ {0}, StartTick(d) PROVE Spans' /\ LastSnapshot'
  <2>1. Aged(d) /\ pc = "sleep" /\ pc' \in {"reply", "store"} /\ todo' = {}
    BY <1>6 DEF StartTick, Aged, Course
  <2>2. ASSUME NEW s \in Symbol, covered'[s] >= 0
        PROVE  /\ covered[s] >= 0 /\ d <= 2 * Slack /\ Interval - 1 + d <= 2 * Slack /\ s \in watched
               /\ covered'[s] <= covered[s] + d /\ covered'[s] >= 1 /\ covered'[s] <= End
    <3>1. OnTime(d) /\ s \in watched /\ covered[s] >= 0 /\ covered'[s] = Capped(covered[s] + d, End)
      BY <1>6, <2>2 DEF StartTick
    <3>2. covered[s] + d \in Nat /\ covered[s] + d >= 1 /\ End \in Nat /\ End >= 1
      BY <1>1, <3>1, Bounds
    <3> QED
      BY <3>1, <3>2 DEF OnTime, Capped
  <2>3. PICK g \in Nat : g = since_snapshot /\ since_snapshot' = Capped(g + d, Interval) /\ g <= Interval
    BY <1>1, <2>1, Bounds DEF Aged
  <2>4. ASSUME NEW s \in Symbol, covered'[s] >= 0, g <= covered[s], g + d <= End
        PROVE  HasRow(s, g + d, g + d)'
    <3>1. HasRow(s, g, g)
      BY <2>1, <2>2, <2>3, <2>4 DEF LastSnapshot
    <3> QED
      BY <2>1, <2>3, <2>4, <3>1, RowsAge
  <2>5. ASSUME NEW s \in Symbol, covered'[s] >= 0 PROVE g + d <= 2 * Slack
    <3>1. g < Interval \/ g = 0
      BY <2>1, <2>2, <2>3, <2>5 DEF LastSnapshot
    <3> QED
      BY <2>2, <2>3, <2>5, <3>1, Bounds
  <2>6. ASSUME NEW s \in Symbol, covered'[s] >= 1, NEW x \in Nat, x + 2 * Slack <= covered'[s]
        PROVE  HasRow(s, x, x + 2 * Slack)'
    <3>1. /\ covered[s] >= 0 /\ covered'[s] <= covered[s] + d /\ covered'[s] <= End
          /\ g + d <= 2 * Slack /\ covered[s] \in Int /\ covered'[s] \in Int /\ Slack \in Nat
      <4>1. covered'[s] \in Int /\ covered[s] \in Int
        BY <1>1, <1>2, Bounds DEF TypeOK
      <4>2. covered'[s] >= 0
        BY <2>6, <4>1
      <4> QED
        BY <2>2, <2>5, <4>1, <4>2, Bounds
    <3>2. CASE x < g + d
      <4>1. g <= covered[s]
        BY <2>3, <2>6, <3>1, <3>2
      <4>2. g + d <= End
        BY <2>3, <2>6, <3>1, Bounds
      <4>3. HasRow(s, g + d, g + d)'
        BY <2>4, <2>6, <3>1, <4>1, <4>2
      <4>4. x <= g + d /\ g + d <= x + 2 * Slack
        BY <2>3, <3>1, <3>2
      <4> QED
        BY <2>3, <3>1, <4>3, <4>4 DEF HasRow
    <3>3. CASE x >= g + d
      <4>1. x - d \in Nat /\ x - d >= g /\ (x - d) + 2 * Slack <= covered[s]
        BY <2>3, <2>6, <3>1, <3>3
      <4>2. CASE covered[s] >= 1
        <5>1. HasRow(s, x - d, (x - d) + 2 * Slack)
          BY <4>1, <4>2 DEF Spans
        <5>2. HasRow(s, (x - d) + d, ((x - d) + 2 * Slack) + d)'
          BY <2>1, <2>6, <3>1, <4>1, <5>1, RowsAge, Bounds
        <5>3. (x - d) + d = x /\ ((x - d) + 2 * Slack) + d = x + 2 * Slack
          BY <3>1
        <5> QED
          BY <5>2, <5>3
      <4>3. CASE covered[s] = 0
        BY <2>2, <2>6, <3>1, <4>1, <4>3
      <4> QED
        BY <3>1, <4>2, <4>3
    <3> QED
      BY <2>3, <3>2, <3>3
  <2>7. Spans'
    BY <2>6 DEF Spans
  <2>8. ASSUME NEW s \in Symbol, ~Due', covered'[s] >= since_snapshot'
        PROVE  HasRow(s, since_snapshot, since_snapshot)'
    <3>1. since_snapshot' = g + d
      BY <2>3, <2>8, Bounds DEF Due, Capped
    <3>2. covered'[s] \in Int /\ covered[s] \in Int
      BY <1>1, <1>2, Bounds DEF TypeOK
    <3>3. covered'[s] >= 0
      BY <2>3, <2>8, <3>1, <3>2
    <3>4. g <= covered[s] /\ g + d <= End
      BY <2>2, <2>3, <2>8, <3>1, <3>2, <3>3, Bounds
    <3> QED
      BY <2>4, <3>1, <3>3, <3>4 DEF HasRow
  <2>9. pc' = "store" => \A s \in Symbol : covered'[s] < 0
    <3>1. pc' = "store" => watched = {}
      BY <1>6 DEF StartTick
    <3>2. \A s \in Symbol : covered'[s] \in Int
      BY <1>2, Bounds DEF TypeOK
    <3> QED
      BY <2>2, <3>1, <3>2
  <2>10. \A s \in Symbol : covered'[s] \in Int
    BY <1>2, Bounds DEF TypeOK
  <2>11. LastSnapshot'
    BY <2>1, <2>8, <2>9, <2>10 DEF LastSnapshot
  <2> QED
    BY <2>7, <2>11
<1>7. CASE FetchSucceeds
  <2>1. Answers
    BY <1>7, FetchAnswers
  <2>2. \A s \in Symbol : (covered'[s] \in Int /\ covered'[s] <= 0) \/ covered'[s] = covered[s]
    BY <1>1, <2>1 DEF Answers
  <2>3. Spans'
    BY <1>1, <2>1, <2>2 DEF Answers, Spans, HasRow
  <2>4. ASSUME NEW s \in Symbol, ~Due', covered'[s] >= since_snapshot'
        PROVE  HasRow(s, since_snapshot, since_snapshot)'
    <3>1. ~Due /\ since_snapshot' = since_snapshot /\ rows' = rows
      BY <2>1, <2>4 DEF Answers, Due
    <3>2. since_snapshot > 0
      BY <2>1, <3>1 DEF Answers, Course
    <3>3. covered'[s] = covered[s]
      BY <1>1, <2>2, <2>4, <3>1, <3>2, Bounds
    <3> QED
      BY <2>4, <3>1, <3>3 DEF LastSnapshot, HasRow
  <2>5. pc' = "store" /\ \A s \in Symbol : Due' /\ covered'[s] >= 0 => s \in todo'
    BY <2>1 DEF Answers, Due
  <2>6. LastSnapshot'
    BY <2>4, <2>5 DEF LastSnapshot
  <2> QED
    BY <2>3, <2>6
<1>8. ASSUME NEW x \in Symbol, Store(x) PROVE Spans' /\ LastSnapshot'
  <2>1. /\ UNCHANGED << covered, since_snapshot, pc >> /\ todo' = todo \ {x}
        /\ pc = "store" /\ Due /\ Due'
    BY <1>8 DEF Store, Course, Due
  <2>2. Spans'
    BY <1>1, <1>8, <2>1, RowsStay, Bounds DEF Spans
  <2>3. HasRow(x, 0, 0)'
    <3> DEFINE new == [symbol |-> x, price |-> last_prices[x], age |-> 0, era |-> faults]
    <3>1. new \in rows' /\ new.symbol = x /\ new.age = 0
      BY <1>8 DEF Store
    <3> QED
      BY <3>1 DEF HasRow
  <2>4. \A s \in Symbol : HasRow(s, 0, 0) => HasRow(s, 0, 0)'
    BY <1>8, RowsStay, Bounds
  <2>5. LastSnapshot'
    BY <2>1, <2>3, <2>4 DEF LastSnapshot
  <2> QED
    BY <2>2, <2>5
<1>9. CASE EndTick
  <2>1. /\ pc = "store" /\ pc' = "sleep" /\ todo = {} /\ UNCHANGED << rows, covered, todo >>
        /\ since_snapshot' = IF Due THEN 0 ELSE since_snapshot
    BY <1>9 DEF EndTick
  <2>2. Spans'
    BY <2>1 DEF Spans, HasRow
  <2>3. \A s \in Symbol : HasRow(s, 0, 0) => HasRow(s, 0, 0)'
    BY <2>1 DEF HasRow
  <2>4. \A s \in Symbol : covered[s] >= since_snapshot => HasRow(s, since_snapshot, since_snapshot)' \/ Due
    BY <2>1 DEF LastSnapshot, HasRow
  <2>5. CASE Due
    <3>1. since_snapshot' = 0
      BY <2>1, <2>5
    <3>2. \A s \in Symbol : covered'[s] >= 0 => HasRow(s, since_snapshot, since_snapshot)'
      BY <2>1, <2>5, <3>1 DEF LastSnapshot, HasRow
    <3> QED
      BY <2>1, <2>2, <3>1, <3>2 DEF LastSnapshot
  <2>6. CASE ~Due
    <3>1. since_snapshot' = since_snapshot /\ since_snapshot < Interval
      BY <1>1, <2>1, <2>6, Bounds DEF Due
    <3>2. \A s \in Symbol : covered'[s] >= since_snapshot' => HasRow(s, since_snapshot, since_snapshot)'
      BY <2>1, <2>6, <3>1 DEF LastSnapshot, HasRow
    <3> QED
      BY <2>1, <2>2, <3>1, <3>2 DEF LastSnapshot
  <2> QED
    BY <2>5, <2>6
<1>10. ASSUME NEW days \in KeepDays, Prune(days) PROVE Spans' /\ LastSnapshot'
  <2>1. UNCHANGED << covered, since_snapshot, pc, todo >>
    BY <1>10 DEF Prune, tickVars
  <2>2. Spans'
    BY <1>1, <1>10, <2>1, RowsStay, Bounds DEF Spans
  <2>3. \A s \in Symbol : HasRow(s, 0, 0) => HasRow(s, 0, 0)'
    BY <1>10, RowsStay, Bounds
  <2>4. ASSUME NEW s \in Symbol, covered[s] >= since_snapshot, HasRow(s, since_snapshot, since_snapshot)
        PROVE  HasRow(s, since_snapshot, since_snapshot)'
    <3>1. since_snapshot \in Int /\ since_snapshot <= End
      BY <1>1, <2>4, Bounds
    <3>2. \A from, to \in Int : to <= End /\ HasRow(s, from, to) => HasRow(s, from, to)'
      BY <1>10, RowsStay
    <3> QED
      BY <2>1, <2>4, <3>1, <3>2 DEF HasRow
  <2>5. LastSnapshot'
    BY <2>1, <2>3, <2>4 DEF LastSnapshot, Due
  <2> QED
    BY <2>2, <2>5
<1> QED
  BY <1>3, <1>4, <1>5, <1>6, <1>7, <1>8, <1>9, <1>10, StepKinds

-----------------------------------------------------------------------------
(* The theorems. *)

PricesInv == TypeOK /\ Course /\ Spaced /\ Confirmed /\ Spans /\ LastSnapshot

LEMMA PricesInvHolds == Spec => []PricesInv
<1>1. Init => PricesInv
  BY TypeInit, CourseInit, SpacedInit, ConfirmedInit, SpansInit DEF PricesInv
<1>2. PricesInv /\ [Next]_allVars => PricesInv'
  BY TypeStep, CourseStep, SpacedStep, ConfirmedStep, SpansStep DEF PricesInv
<1> QED
  BY <1>1, <1>2, PTL DEF Spec

\* Every reachable state of the directory, the tick and the history is well typed.
THEOREM PricesTypes == Spec => []TypeOK
<1>1. PricesInv => TypeOK
  BY DEF PricesInv
<1> QED
  BY <1>1, PricesInvHolds, PTL

\* _maybe_store_snapshots stores a symbol at most once in an interval, unless a commit
\* failed or the process restarted between the two.
THEOREM SnapshotsStaySpaced == Spec => []SnapshotsSpaced
<1>1. TypeOK /\ Spaced => SnapshotsSpaced
  BY DEF Spaced
<1>2. PricesInv => SnapshotsSpaced
  BY <1>1 DEF PricesInv
<1> QED
  BY <1>2, PricesInvHolds, PTL

\* get_price_minutes_ago finds a past price for every symbol that each tick has had a
\* price for, if the interval and the delays fit the window.
THEOREM HourStaysCovered == Spec => []HourIsCovered
<1>1. TypeOK /\ Spans => HourIsCovered
  <2> SUFFICES ASSUME Spans, NEW s \in Symbol, covered[s] = End PROVE Window(s) # {}
    BY DEF HourIsCovered
  <2>1. Hour - Slack \in Nat /\ (Hour - Slack) + 2 * Slack = End /\ Hour + Slack = End /\ End >= 1
    BY Bounds
  <2>2. PICK x \in Nat : x = Hour - Slack /\ x + 2 * Slack = End
    BY <2>1
  <2>3. HasRow(s, x, x + 2 * Slack)
    BY <2>1, <2>2, Bounds DEF Spans
  <2>4. HasRow(s, Hour - Slack, Hour + Slack)
    BY <2>1, <2>2, <2>3
  <2> QED
    BY <2>4 DEF HasRow, Window
<1>2. PricesInv => HourIsCovered
  BY <1>1 DEF PricesInv
<1> QED
  BY <1>2, PricesInvHolds, PTL

\* A set of natural numbers has a least element.
LEMMA LeastNatural ==
  ASSUME NEW T \in SUBSET Nat, T # {}
  PROVE  \E n \in T : \A m \in T : n <= m
<1>1. PICK x \in T : \A y \in T : ~ (<<y, x>> \in OpToRel(<, Nat))
  BY NatLessThanWellFounded, WFMin
<1>2. ASSUME NEW y \in T, y < x PROVE FALSE
  <2>1. << y, x >> \in Nat \X Nat /\ << y, x >>[1] = y /\ << y, x >>[2] = x
    OBVIOUS
  <2>2. << y, x >> \in OpToRel(<, Nat)
    BY <1>2, <2>1 DEF OpToRel
  <2> QED
    BY <1>1, <2>2
<1> QED
  BY <1>2

\* The lookup takes a row of the window.
LEMMA PastInWindow ==
  ASSUME TypeOK, NEW s \in Symbol, Window(s) # {}
  PROVE  Past(s) \in Window(s)
<1> DEFINE ages == {row.age : row \in Window(s)}
<1>1. \A row \in Window(s) : row.age \in Nat
  BY Bounds DEF TypeOK, Window, Row
<1>2. ages \in SUBSET Nat /\ ages # {}
  BY <1>1
<1>3. PICK n \in ages : \A m \in ages : n <= m
  <2> HIDE DEF ages
  <2> QED
    BY <1>2, LeastNatural
<1>4. \E row \in Window(s) : \A other \in Window(s) : row.age <= other.age
  BY <1>3
<1> QED
  BY <1>4 DEF Past

\* _price_move_pts counts no move of a symbol that has had no price for as long as the
\* lookup goes back, whatever answers and restarts there were before.
THEOREM StaleFeedIsSilent == Spec => []StaleFeedScoresNothing
<1>1. ASSUME TypeOK, Confirmed, NEW s \in Symbol, heard[s] = End PROVE MovePoints(s) = 0
  <2> SUFFICES ASSUME last_prices[s] # NoPrice, Window(s) # {}
               PROVE  Score(last_prices[s], Past(s).price, Moves[s]) = 0
    BY DEF MovePoints
  <2>1. /\ Past(s) \in rows /\ Past(s).symbol = s /\ Past(s).age <= End
        /\ Past(s).price \in Nat \ {0} /\ Past(s).age \in Nat
    <3>1. Past(s) \in Window(s)
      BY <1>1, PastInWindow
    <3>2. Past(s) \in rows /\ Past(s).symbol = s /\ Past(s).age \in Hour - Slack .. Hour + Slack
      BY <3>1 DEF Window
    <3>3. Past(s).price \in Price /\ Past(s).age \in 0 .. Oldest
      BY <1>1, <3>2 DEF TypeOK, Row
    <3>4. Past(s).price \in Nat \ {0} /\ Past(s).age \in Nat
      <4>1. \A age \in 0 .. Oldest : age \in Nat
        BY Bounds
      <4> QED
        BY <3>3, <4>1, PriceAssumption
    <3>5. Past(s).age <= End
      BY <3>2, Bounds
    <3> QED
      BY <3>2, <3>4, <3>5
  <2>2. last_prices[s] = Past(s).price
    BY <1>1, <2>1, Bounds DEF Confirmed
  <2> DEFINE price == Past(s).price
             table == Moves[s]
             reached == {i \in DOMAIN table : 100 * 0 >= table[i].percent * price}
  <2>3. \A m, n \in Nat \ {0} : ~(100 * 0 >= m * n)
    OBVIOUS
  <2>4. reached = {}
    BY <2>1, <2>3, MovesAssumption
  <2>5. ~(price > price) /\ price - price = 0
    BY <2>1
  <2> QED
    BY <2>2, <2>4, <2>5 DEF Score
<1>2. PricesInv => StaleFeedScoresNothing
  BY <1>1 DEF PricesInv, StaleFeedScoresNothing
<1> QED
  BY <1>2, PricesInvHolds, PTL

=============================================================================
