---------------------------- MODULE TickerProofs ----------------------------
(***************************************************************************)
(* What holds of the featured markets, a user's ticker and the page, for   *)
(* any symbols, administrators, tabs, readers and bounds.                  *)
(*                                                                         *)
(* ORDER BY returns the one list of a finite set that its order allows:    *)
(* that a list exists, and that no other does, is proved first, from       *)
(* induction over the natural numbers through their least elements.  Then  *)
(* what a commit does to the order of a table, once for both tables; then  *)
(* the parts of the inductive invariant TickerInv, component by component. *)
(***************************************************************************)
EXTENDS Ticker, FiniteSetTheorems, WellFoundedInduction, TLAPS

-----------------------------------------------------------------------------
(* Ordered lists. *)

\* A set of natural numbers has a least element.
LEMMA LeastNatural ==
  ASSUME NEW T \in SUBSET Nat, T # {}
  PROVE  \E n \in T : \A m \in T : n <= m
<1>1. PICK x \in T : \A y \in T : ~ (<<y, x>> \in OpToRel(<, Nat))
  BY NatLessThanWellFounded, WFMin
<1>2. ASSUME NEW y \in T, y < x PROVE FALSE
  <2>1. << y, x >> \in Nat \X Nat /\ << y, x >>[1] = y /\ << y, x >>[2] = x
    OBVIOUS
  <2>2. << y, x >> \in OpToRel(<, Nat)
    BY <1>2, <2>1 DEF OpToRel
  <2> QED
    BY <1>1, <2>2
<1> QED
  BY <1>2

\* A strict total order on S.
StrictOrder(R, S) ==
    /\ \A x \in S : << x, x >> \notin R
    /\ \A x, y \in S : x # y => << x, y >> \in R \/ << y, x >> \in R
    /\ \A x, y, z \in S : << x, y >> \in R /\ << y, z >> \in R => << x, z >> \in R

Lists(list, S, R) ==
    /\ list \in [1 .. Cardinality(S) -> S]
    /\ \A i, j \in 1 .. Cardinality(S) : i < j => << list[i], list[j] >> \in R

\* A finite set has a list in every strict total order.
LEMMA OrderedLists ==
  ASSUME NEW S, IsFiniteSet(S), NEW R, StrictOrder(R, S)
  PROVE  Lists(Ordered(S, R), S, R)
<1> DEFINE n == Cardinality(S)
           Before(x) == {y \in S : << y, x >> \in R}
           rank == [x \in S |-> Cardinality(Before(x)) + 1]
<1>1. n \in Nat
  BY FS_CardinalityType
<1>2. \A x \in S : IsFiniteSet(Before(x)) /\ Cardinality(Before(x)) \in Nat
  BY FS_Subset, FS_CardinalityType
<1>3. ASSUME NEW x \in S PROVE rank[x] \in 1 .. n
  <2>1. Before(x) \subseteq S \ {x}
    BY DEF StrictOrder
  <2>2. IsFiniteSet(S \ {x}) /\ Cardinality(S \ {x}) = n - 1
    BY FS_RemoveElement
  <2>3. Cardinality(Before(x)) <= n - 1
    BY <2>1, <2>2, FS_Subset, ZenonT(60)
  <2> HIDE DEF Before
  <2> QED
    BY <1>1, <1>2, <2>3
<1>4. ASSUME NEW x \in S, NEW y \in S, << x, y >> \in R PROVE rank[x] < rank[y]
  <2>1. x \notin Before(x) /\ Before(x) \cup {x} \subseteq Before(y)
    BY <1>4 DEF StrictOrder
  <2>2. Cardinality(Before(x) \cup {x}) = Cardinality(Before(x)) + 1
    BY <1>2, <2>1, FS_AddElement
  <2>3. Cardinality(Before(x) \cup {x}) <= Cardinality(Before(y))
    BY <1>2, <2>1, FS_Subset
  <2> HIDE DEF Before
  <2> QED
    BY <1>2, <2>2, <2>3
<1> HIDE DEF rank
<1>5. rank \in Injection(S, 1 .. n)
  <2>1. rank \in [S -> 1 .. n]
    BY <1>3 DEF rank
  <2>2. ASSUME NEW x \in S, NEW y \in S, x # y PROVE rank[x] # rank[y]
    <3>1. rank[x] \in Int /\ rank[y] \in Int
      BY <1>1, <1>3
    <3>2. << x, y >> \in R \/ << y, x >> \in R
      BY <2>2 DEF StrictOrder
    <3>3. rank[x] < rank[y] \/ rank[y] < rank[x]
      BY <1>4, <3>2
    <3> QED
      BY <3>1, <3>3
  <2>3. \A x, y \in S : rank[x] = rank[y] => x = y
    BY <2>2
  <2> QED
    BY <2>1, <2>3 DEF Injection, IsInjective
<1>6. rank \in Surjection(S, 1 .. n)
  <2>1. IsFiniteSet(1 .. n) /\ Cardinality(1 .. n) = n
    BY <1>1, FS_Interval
  <2> QED
    BY <1>5, <2>1, FS_Injection
<1>7. \A i \in 1 .. n : \E x \in S : rank[x] = i
  BY <1>6 DEF Surjection
<1> DEFINE list == [i \in 1 .. n |-> CHOOSE x \in S : rank[x] = i]
<1>8. \A i \in 1 .. n : list[i] \in S /\ rank[list[i]] = i
  BY <1>7
<1>9. ASSUME NEW i \in 1 .. n, NEW j \in 1 .. n, i < j PROVE << list[i], list[j] >> \in R
  <2> HIDE DEF list
  <2>1. ~ (rank[list[j]] < rank[list[i]]) /\ list[i] # list[j]
    BY <1>1, <1>8, <1>9
  <2> QED
    BY <1>4, <1>8, <2>1 DEF StrictOrder
<1>10. Lists(list, S, R)
  BY <1>8, <1>9 DEF Lists
<1> HIDE DEF list
<1> QED
  BY <1>10 DEF Ordered, Lists

\* A list names each element of its set once.
LEMMA ListsOnce ==
  ASSUME NEW S, IsFiniteSet(S), NEW R, StrictOrder(R, S), NEW list, Lists(list, S, R)
  PROVE  /\ Cardinality(S) \in Nat
         /\ \A i, j \in 1 .. Cardinality(S) : list[i] = list[j] => i = j
         /\ \A x \in S : \E i \in 1 .. Cardinality(S) : list[i] = x
<1> DEFINE n == Cardinality(S)
<1>1. n \in Nat /\ IsFiniteSet(1 .. n) /\ Cardinality(1 .. n) = n
  BY FS_CardinalityType, FS_Interval
<1>2. \A i, j \in 1 .. n : i # j => list[i] # list[j]
  <2>1. \A i, j \in 1 .. n : i < j => list[i] # list[j]
    BY DEF StrictOrder, Lists
  <2> QED
    BY <1>1, <2>1
<1>3. list \in Injection(1 .. n, S)
  BY <1>2 DEF Lists, Injection, IsInjective
<1>4. list \in Surjection(1 .. n, S)
  BY <1>1, <1>3, FS_Injection
<1> QED
  BY <1>1, <1>2, <1>4 DEF Surjection

\* A set has one list only.
LEMMA ListsUnique ==
  ASSUME NEW S, IsFiniteSet(S), NEW R, StrictOrder(R, S),
         NEW f, Lists(f, S, R), NEW g, Lists(g, S, R)
  PROVE  f = g
<1> DEFINE n == Cardinality(S)
           T == {i \in 1 .. n : f[i] # g[i]}
<1>1. f \in [1 .. n -> S] /\ g \in [1 .. n -> S]
  BY DEF Lists
<1>3. n \in Nat /\ \A x \in S : (\E i \in 1 .. n : f[i] = x) /\ (\E i \in 1 .. n : g[i] = x)
  BY ListsOnce
<1>4. T \in SUBSET Nat
  BY <1>3
<1>2. ASSUME T # {} PROVE FALSE
  <2>1. PICK i \in T : \A j \in T : i <= j
    <3> HIDE DEF T
    <3> QED
      BY <1>2, <1>4, LeastNatural
  <2>2. i \in 1 .. n /\ f[i] # g[i] /\ \A j \in 1 .. n : j < i => f[j] = g[j]
    BY <1>1, <1>3, <2>1
  <2>3. PICK j \in 1 .. n : g[j] = f[i]
    BY <1>1, <1>3, <2>2
  <2>4. PICK k \in 1 .. n : f[k] = g[i]
    BY <1>1, <1>3, <2>2
  <2>5. j > i /\ k > i
    <3>1. \A u, v \in 1 .. n : (f[u] = f[v] => u = v) /\ (g[u] = g[v] => u = v)
      BY ListsOnce
    <3> QED
      BY <1>1, <1>3, <2>2, <2>3, <2>4, <3>1
  <2>6. << g[i], f[i] >> \in R /\ << f[i], g[i] >> \in R
    BY <2>2, <2>3, <2>4, <2>5 DEF Lists
  <2> QED
    BY <1>1, <2>2, <2>6 DEF StrictOrder
<1>5. \A i \in 1 .. n : f[i] = g[i]
  BY <1>2
<1>6. f = [i \in 1 .. n |-> f[i]] /\ g = [i \in 1 .. n |-> g[i]]
  BY <1>1
<1> HIDE DEF n
<1> QED
  BY <1>5, <1>6

LEMMA LargestElement ==
  ASSUME NEW n \in Nat, NEW T \in SUBSET (0 .. n), T # {}
  PROVE  \E x \in T : \A y \in T : x >= y
<1> DEFINE U == {n - x : x \in T}
<1>1. U \in SUBSET Nat /\ U # {}
  <2>1. \A x \in T : x \in 0 .. n
    OBVIOUS
  <2>2. \A x \in T : n - x \in Nat
    BY <2>1
  <2>3. \E x \in T : n - x \in U
    OBVIOUS
  <2> QED
    BY <2>2, <2>3
<1> HIDE DEF U
<1>2. PICK u \in U : \A v \in U : u <= v
  BY <1>1, LeastNatural
<1> USE DEF U
<1>3. PICK x \in T : u = n - x
  BY <1>2
<1>4. ASSUME NEW y \in T PROVE x >= y
  <2>1. n - y \in U
    OBVIOUS
  <2>2. u <= n - y
    BY <1>2, <2>1
  <2> QED
    BY <1>3, <2>2
<1> QED
  BY <1>4

\* The ascending list of a finite set of numbers.
LEMMA AscendingList ==
  ASSUME NEW S \in SUBSET Nat, IsFiniteSet(S)
  PROVE  /\ Cardinality(S) \in Nat
         /\ Ascending(S) \in [1 .. Cardinality(S) -> S]
         /\ \A i, j \in 1 .. Cardinality(S) : Ascending(S)[i] = Ascending(S)[j] => i = j
         /\ \A x \in S : \E i \in 1 .. Cardinality(S) : Ascending(S)[i] = x
<1> DEFINE R == {p \in S \X S : p[1] < p[2]}
<1>0. \A x, y \in S : << x, y >> \in R <=> x < y
  OBVIOUS
<1>1. StrictOrder(R, S)
  <2> HIDE DEF R
  <2> QED
    BY <1>0 DEF StrictOrder
<1>2. Ascending(S) = Ordered(S, R)
  BY DEF Ascending
<1> HIDE DEF R
<1>3. Lists(Ascending(S), S, R)
  BY <1>1, <1>2, OrderedLists
<1>4. Ascending(S) \in [1 .. Cardinality(S) -> S]
  BY <1>3 DEF Lists
<1> QED
  BY <1>1, <1>3, <1>4, ListsOnce

\* A filter keeps each element that it should, once if it was there once.
LEMMA SelectedElements ==
  ASSUME NEW X, NEW list \in Seq(X), NEW keep
  PROVE  /\ Selected(list, keep) \in Seq(X \cap keep)
         /\ ToSet(Selected(list, keep)) = ToSet(list) \cap keep
         /\ IsInjective(list) => IsInjective(Selected(list, keep))
<1> DEFINE S == {i \in DOMAIN list : list[i] \in keep}
           n == Cardinality(S)
           kept == Ascending(S)
<1>1. S \in SUBSET Nat /\ IsFiniteSet(S)
  <2>1. Len(list) \in Nat /\ DOMAIN list = 1 .. Len(list)
    OBVIOUS
  <2>2. IsFiniteSet(1 .. Len(list)) /\ S \subseteq 1 .. Len(list)
    BY <2>1, FS_Interval
  <2> QED
    BY <2>1, <2>2, FS_Subset
<1> HIDE DEF S
<1>2. /\ n \in Nat /\ kept \in [1 .. n -> S]
      /\ \A i, j \in 1 .. n : kept[i] = kept[j] => i = j
      /\ \A x \in S : \E i \in 1 .. n : kept[i] = x
  BY <1>1, AscendingList
<1>3. Selected(list, keep) = [k \in DOMAIN kept |-> list[kept[k]]]
  BY DEF Selected, S
<1> HIDE DEF kept, n
<1>4. DOMAIN kept = 1 .. n
  BY <1>2
<1> DEFINE sel == Selected(list, keep)
<1>5. DOMAIN sel = 1 .. n /\ \A k \in 1 .. n : kept[k] \in S /\ sel[k] = list[kept[k]]
  BY <1>2, <1>3, <1>4
<1>6. \A i \in S : i \in DOMAIN list /\ list[i] \in X \cap keep
  BY DEF S
<1>7. sel \in Seq(X \cap keep)
  <2>1. sel \in [1 .. n -> X \cap keep]
    BY <1>3, <1>4, <1>5, <1>6
  <2> HIDE DEF sel
  <2> QED
    BY <1>2, <2>1
<1> HIDE DEF sel
<1>8. ToSet(sel) = ToSet(list) \cap keep
  <2>1. ASSUME NEW x \in ToSet(sel) PROVE x \in ToSet(list) \cap keep
    BY <1>5, <1>6 DEF ToSet
  <2>2. ASSUME NEW x \in ToSet(list) \cap keep PROVE x \in ToSet(sel)
    <3>1. PICK i \in DOMAIN list : list[i] = x
      BY DEF ToSet
    <3>2. i \in S
      BY <3>1 DEF S
    <3>3. PICK k \in 1 .. n : kept[k] = i
      BY <1>2, <3>2
    <3> QED
      BY <1>5, <3>1, <3>3 DEF ToSet
  <2> QED
    BY <2>1, <2>2
<1>9. IsInjective(list) => IsInjective(sel)
  BY <1>2, <1>5, <1>6 DEF IsInjective
<1> QED
  BY <1>7, <1>8, <1>9 DEF sel

-----------------------------------------------------------------------------
(* The order of a table. *)

\* A table is a function from symbols to rows.
Table(table) == DOMAIN table \subseteq Symbol /\ \A s \in DOMAIN table : table[s] \in Row

LEMMA SymbolFacts ==
  /\ Symbol \subseteq Nat /\ MaxOrder \in Nat
  /\ \A S \in SUBSET Symbol : IsFiniteSet(S) /\ Cardinality(S) \in Nat
BY SymbolAssumption, BoundsAssumption, FS_Subset, FS_CardinalityType

LEMMA PairsOf ==
  ASSUME NEW D, NEW x \in D, NEW y \in D
  PROVE  << x, y >> \in D \X D /\ << x, y >>[1] = x /\ << x, y >>[2] = y
OBVIOUS

LEMMA PrecedencePairs ==
  ASSUME NEW table, NEW x \in DOMAIN table, NEW y \in DOMAIN table
  PROVE  << x, y >> \in Precedence(table) <=> Precedes(table, x, y)
<1> DEFINE D == DOMAIN table
           R == Precedence(table)
           q == << x, y >>
<1>1. \A p : p \in R <=> p \in D \X D /\ Precedes(table, p[1], p[2])
  BY DEF Precedence
<1> HIDE DEF D, R
<1>2. x \in D /\ y \in D
  BY DEF D
<1>3. q \in D \X D /\ q[1] = x /\ q[2] = y
  BY <1>2, PairsOf
<1> HIDE DEF q
<1>4. q \in R <=> Precedes(table, x, y)
  BY <1>1, <1>3
<1> QED
  BY <1>4 DEF q, R

LEMMA PrecedenceOrders ==
  ASSUME NEW table, Table(table), NEW S \in SUBSET DOMAIN table
  PROVE  StrictOrder(Precedence(table), S)
<1> DEFINE R == Precedence(table)
           D == DOMAIN table
<1>1. ASSUME NEW x \in D PROVE x \in Nat /\ table[x].sort_order \in Nat
  <2>1. x \in Nat /\ table[x] \in Row
    BY SymbolFacts DEF Table
  <2>2. table[x].sort_order \in 1 .. MaxOrder
    BY <2>1 DEF Row
  <2> QED
    BY <2>1, <2>2, SymbolFacts
<1> DEFINE Before(x, y) == Precedes(table, x, y)
<1>2. \A x, y \in D : << x, y >> \in R <=> Before(x, y)
  BY PrecedencePairs
<1> HIDE DEF R
<1> USE DEF Precedes
<1>3. \A x \in S : << x, x >> \notin R
  BY <1>1, <1>2
<1>4. \A x, y \in S : x # y => << x, y >> \in R \/ << y, x >> \in R
  BY <1>1, <1>2
<1>5. \A x, y, z \in S : << x, y >> \in R /\ << y, z >> \in R => << x, z >> \in R
  BY <1>1, <1>2
<1> QED
  BY <1>3, <1>4, <1>5 DEF StrictOrder, R

LEMMA ListingLists ==
  ASSUME NEW table, Table(table), NEW S \in SUBSET DOMAIN table
  PROVE  /\ IsFiniteSet(S) /\ Cardinality(S) \in Nat
         /\ StrictOrder(Precedence(table), S)
         /\ Lists(Listing(table, S), S, Precedence(table))
<1>1. IsFiniteSet(S) /\ Cardinality(S) \in Nat
  BY SymbolFacts DEF Table
<1>2. StrictOrder(Precedence(table), S)
  BY PrecedenceOrders
<1> QED
  BY <1>1, <1>2, OrderedLists DEF Listing

\* A listing is a sequence that names each of its symbols once.
LEMMA ListingSequence ==
  ASSUME NEW table, Table(table), NEW S \in SUBSET DOMAIN table
  PROVE  /\ Listing(table, S) \in Seq(S)
         /\ Len(Listing(table, S)) = Cardinality(S)
         /\ DOMAIN Listing(table, S) = 1 .. Cardinality(S)
         /\ ToSet(Listing(table, S)) = S
         /\ IsInjective(Listing(table, S))
<1> DEFINE list == Listing(table, S)
           n == Cardinality(S)
<1>1. Lists(list, S, Precedence(table)) /\ n \in Nat
  BY ListingLists
<1>2. list \in [1 .. n -> S]
  BY <1>1 DEF Lists
<1>3. /\ \A i, j \in 1 .. n : list[i] = list[j] => i = j
      /\ \A x \in S : \E i \in 1 .. n : list[i] = x
  BY <1>1, ListingLists, ListsOnce
<1> HIDE DEF list, n
<1>4. list \in Seq(S) /\ Len(list) = n /\ DOMAIN list = 1 .. n
  BY <1>1, <1>2
<1>5. ToSet(list) = S
  BY <1>2, <1>3, <1>4 DEF ToSet
<1>6. IsInjective(list)
  BY <1>3, <1>4 DEF IsInjective
<1> QED
  BY <1>4, <1>5, <1>6 DEF list, n

-----------------------------------------------------------------------------
(* What a commit does to the order. *)

Accepted(table, p) ==
    IF p.op = "add" THEN ~(DOMAIN p.set \subseteq DOMAIN table)
    ELSE DOMAIN p.set \subseteq DOMAIN table

\* A writer's column values are those of its operation.
Written(p) ==
    /\ DOMAIN p.set \subseteq Symbol
    /\ p.step = "check" => p.op = "add" /\ p.symbol \in Symbol
    /\ p.step = "commit" =>
          /\ p.op \in {"add", "toggle", "move"}
          /\ p.op # "move" => p.symbol \in Symbol /\ DOMAIN p.set = {p.symbol}
          /\ \A s \in DOMAIN p.set :
                IF p.op = "toggle" THEN p.set[s] \in BOOLEAN ELSE p.set[s] \in 1 .. MaxOrder

\* No two rows share a sort_order.
Strict(table) == \A s, t \in DOMAIN table : table[s].sort_order = table[t].sort_order => s = t

Exchange(table, s, t) == [u \in {s, t} |-> table[IF u = s THEN t ELSE s].sort_order]

\* What is about to be written was computed from the table as it is.
Fits(table, p) ==
    /\ p.op = "add" => \A s \in DOMAIN table : table[s].sort_order < p.set[p.symbol]
    /\ p.op = "move" =>
          \E i \in 1 .. Cardinality(DOMAIN table) - 1 :
             p.set = Exchange(table, Listing(table, DOMAIN table)[i],
                                     Listing(table, DOMAIN table)[i + 1])

LEMMA ChangedRows ==
  ASSUME NEW table, Table(table), NEW p, p.step = "commit", Written(p), Accepted(table, p)
  PROVE  /\ DOMAIN Changed(table, p) = DOMAIN p.set \cup DOMAIN table
         /\ \A s \in DOMAIN Changed(table, p) :
               /\ Changed(table, p)[s] \in Row
               /\ Changed(table, p)[s].sort_order =
                     IF p.op # "toggle" /\ s \in DOMAIN p.set THEN p.set[s]
                     ELSE table[s].sort_order
         /\ Table(Changed(table, p))
<1> DEFINE new == Changed(table, p)
<1>1. DOMAIN new = DOMAIN p.set \cup DOMAIN table
  BY DEF Changed
<1>2. ASSUME NEW s \in DOMAIN new
      PROVE  /\ new[s] \in Row
             /\ new[s].sort_order = IF p.op # "toggle" /\ s \in DOMAIN p.set THEN p.set[s]
                                    ELSE table[s].sort_order
  <2>1. CASE s \notin DOMAIN p.set
    BY <1>1, <2>1 DEF Changed, Table
  <2>2. CASE s \in DOMAIN p.set /\ p.op = "add"
    <3>1. new[s] = [sort_order |-> p.set[s], enabled |-> TRUE]
      BY <1>1, <2>2 DEF Changed
    <3>2. p.set[s] \in 1 .. MaxOrder
      BY <2>2 DEF Written
    <3> QED
      BY <2>2, <3>1, <3>2 DEF Row
  <2>3. CASE s \in DOMAIN p.set /\ p.op = "toggle"
    <3>1. new[s] = [table[s] EXCEPT !.enabled = p.set[s]]
      BY <1>1, <2>3 DEF Changed
    <3>2. p.set[s] \in BOOLEAN /\ table[s] \in Row
      BY <2>3 DEF Written, Accepted, Table
    <3> QED
      BY <2>3, <3>1, <3>2 DEF Row
  <2>4. CASE s \in DOMAIN p.set /\ p.op = "move"
    <3>1. new[s] = [table[s] EXCEPT !.sort_order = p.set[s]]
      BY <1>1, <2>4 DEF Changed
    <3>2. p.set[s] \in 1 .. MaxOrder /\ table[s] \in Row
      BY <2>4 DEF Written, Accepted, Table
    <3> QED
      BY <2>4, <3>1, <3>2 DEF Row
  <2> QED
    BY <2>1, <2>2, <2>3, <2>4 DEF Written
<1> HIDE DEF new
<1>3. Table(new)
  BY <1>1, <1>2 DEF Table, Written
<1> QED
  BY <1>1, <1>2, <1>3 DEF new

\* Of a strict table: precedence is the order of sort_order alone.
LEMMA StrictPrecedence ==
  ASSUME NEW table, Table(table), Strict(table),
         NEW i \in 1 .. Cardinality(DOMAIN table), NEW j \in 1 .. Cardinality(DOMAIN table), i < j
  PROVE  table[Listing(table, DOMAIN table)[i]].sort_order
             < table[Listing(table, DOMAIN table)[j]].sort_order
<1> DEFINE D == DOMAIN table
           list == Listing(table, D)
<1>1. Lists(list, D, Precedence(table)) /\ StrictOrder(Precedence(table), D)
  BY ListingLists
<1>2. list[i] \in D /\ list[j] \in D /\ << list[i], list[j] >> \in Precedence(table)
  BY <1>1 DEF Lists
<1> HIDE DEF list, D
<1>3. Precedes(table, list[i], list[j])
  BY <1>2, PrecedencePairs DEF D
<1>4. list[i] # list[j]
  BY <1>1, <1>2 DEF StrictOrder
<1>5. table[list[i]].sort_order # table[list[j]].sort_order
  BY <1>2, <1>4 DEF Strict, D
<1> QED
  BY <1>3, <1>5 DEF Precedes, list, D

\* A strict list by sort_order is the listing.
LEMMA ListedBySortOrder ==
  ASSUME NEW table, Table(table), NEW list \in [1 .. Cardinality(DOMAIN table) -> DOMAIN table],
         \A i, j \in 1 .. Cardinality(DOMAIN table) :
             i < j => table[list[i]].sort_order < table[list[j]].sort_order
  PROVE  Listing(table, DOMAIN table) = list /\ Strict(table)
<1> DEFINE D == DOMAIN table
           n == Cardinality(D)
<1>1. ASSUME NEW i \in 1 .. n, NEW j \in 1 .. n, i < j
      PROVE  << list[i], list[j] >> \in Precedence(table)
  <2>1. Precedes(table, list[i], list[j])
    BY <1>1 DEF Precedes
  <2> QED
    BY <2>1, PrecedencePairs
<1>2. Lists(list, D, Precedence(table))
  BY <1>1 DEF Lists
<1>3. IsFiniteSet(D) /\ n \in Nat /\ StrictOrder(Precedence(table), D)
      /\ Lists(Listing(table, D), D, Precedence(table))
  BY ListingLists
<1>4. Listing(table, D) = list
  BY <1>2, <1>3, ListsUnique
<1>5. \A x \in D : \E i \in 1 .. n : list[i] = x
  BY <1>2, <1>3, ListsOnce
<1>6. \A x \in D : table[x].sort_order \in Int
  BY DEF Table, Row
<1>7. ASSUME NEW x \in D, NEW y \in D, table[x].sort_order = table[y].sort_order PROVE x = y
  <2>1. PICK i \in 1 .. n : list[i] = x
    BY <1>5
  <2>2. PICK j \in 1 .. n : list[j] = y
    BY <1>5
  <2>3. ~ (i < j) /\ ~ (j < i)
    BY <1>6, <1>7, <2>1, <2>2
  <2> QED
    BY <1>3, <2>1, <2>2, <2>3
<1> QED
  BY <1>4, <1>7 DEF Strict

\* Committing a move exchanges two neighbours.
LEMMA MoveExchanges ==
  ASSUME NEW table, Table(table), Strict(table),
         NEW p, p.step = "commit", Written(p), Accepted(table, p), p.op = "move", Fits(table, p)
  PROVE  /\ Strict(Changed(table, p))
         /\ DOMAIN Changed(table, p) = DOMAIN table
         /\ \E i \in 1 .. Cardinality(DOMAIN table) - 1 :
               Listing(Changed(table, p), DOMAIN table) =
                  Exchanged(Listing(table, DOMAIN table), i)
<1> DEFINE D == DOMAIN table
           n == Cardinality(D)
           list == Listing(table, D)
           new == Changed(table, p)
<1>1. n \in Nat /\ list \in [1 .. n -> D] /\ list \in Seq(D) /\ DOMAIN list = 1 .. n
      /\ \A i, j \in 1 .. n : list[i] = list[j] => i = j
  <2>1. n \in Nat /\ list \in [1 .. n -> D]
    BY ListingLists DEF Lists
  <2>2. list \in Seq(D) /\ DOMAIN list = 1 .. n /\ IsInjective(list)
    BY ListingSequence
  <2> HIDE DEF list, n
  <2> QED
    BY <2>1, <2>2 DEF IsInjective
<1>2. PICK i \in 1 .. n - 1 : p.set = Exchange(table, list[i], list[i + 1])
  BY DEF Fits
<1>3. \A a, b \in 1 .. n : a < b => table[list[a]].sort_order < table[list[b]].sort_order
  BY StrictPrecedence
<1>4. /\ DOMAIN new = DOMAIN p.set \cup D /\ Table(new)
      /\ \A s \in DOMAIN new : new[s].sort_order = IF s \in DOMAIN p.set THEN p.set[s]
                                                   ELSE table[s].sort_order
  BY ChangedRows
<1> HIDE DEF list, new, n
<1> DEFINE s == list[i]
           t == list[i + 1]
           moved == Exchanged(list, i)
<1>5. i \in 1 .. n /\ i + 1 \in 1 .. n /\ s \in D /\ t \in D /\ s # t
  BY <1>1
<1>6. DOMAIN p.set = {s, t} /\ p.set[s] = table[t].sort_order /\ p.set[t] = table[s].sort_order
  BY <1>2, <1>5 DEF Exchange
<1>7. DOMAIN new = D
  BY <1>4, <1>5, <1>6
<1>8. moved = [a \in 1 .. n |-> IF a = i THEN t ELSE IF a = i + 1 THEN s ELSE list[a]]
  BY <1>1, <1>5 DEF Exchanged
<1>9. moved \in [1 .. n -> D]
  BY <1>1, <1>5, <1>8
<1>10. ASSUME NEW a \in 1 .. n PROVE new[moved[a]].sort_order = table[list[a]].sort_order
  <2>1. list[a] \in D /\ (a # i => list[a] # s) /\ (a # i + 1 => list[a] # t)
    BY <1>1, <1>5
  <2> QED
    BY <1>4, <1>5, <1>6, <1>7, <1>8, <2>1
<1> HIDE DEF s, t, moved
<1>11. \A a, b \in 1 .. n : a < b => new[moved[a]].sort_order < new[moved[b]].sort_order
  BY <1>3, <1>10
<1>12. Listing(new, D) = moved /\ Strict(new)
  <2>1. Cardinality(DOMAIN new) = n
    BY <1>7 DEF n
  <2> QED
    BY <1>4, <1>7, <1>9, <1>11, <2>1, ListedBySortOrder
<1> QED
  BY <1>2, <1>7, <1>12 DEF moved, list, new, n

\* Committing an addition appends the symbol.
LEMMA AddAppends ==
  ASSUME NEW table, Table(table), Strict(table),
         NEW p, p.step = "commit", Written(p), Accepted(table, p), p.op = "add", Fits(table, p)
  PROVE  /\ Strict(Changed(table, p))
         /\ DOMAIN Changed(table, p) = DOMAIN table \cup {p.symbol}
         /\ Listing(Changed(table, p), DOMAIN Changed(table, p)) =
               Append(Listing(table, DOMAIN table), p.symbol)
<1> DEFINE D == DOMAIN table
           n == Cardinality(D)
           list == Listing(table, D)
           new == Changed(table, p)
           longer == Append(list, p.symbol)
<1>1. n \in Nat /\ list \in [1 .. n -> D] /\ list \in Seq(D) /\ Len(list) = n /\ IsFiniteSet(D)
  BY ListingLists, ListingSequence DEF Lists
<1>2. DOMAIN p.set = {p.symbol} /\ p.symbol \notin D
  BY DEF Written, Accepted
<1>3. \A a, b \in 1 .. n : a < b => table[list[a]].sort_order < table[list[b]].sort_order
  BY StrictPrecedence
<1>4. /\ DOMAIN new = D \cup {p.symbol} /\ Table(new)
      /\ \A s \in DOMAIN new : new[s].sort_order = IF s = p.symbol THEN p.set[s]
                                                   ELSE table[s].sort_order
  BY <1>2, ChangedRows
<1>5. \A s \in D : table[s].sort_order < p.set[p.symbol]
  BY DEF Fits
<1>6. Cardinality(DOMAIN new) = n + 1
  BY <1>1, <1>2, <1>4, FS_AddElement
<1> HIDE DEF list, new, n
<1>7. longer = [a \in 1 .. n + 1 |-> IF a = n + 1 THEN p.symbol ELSE list[a]]
  BY <1>1
<1>8. longer \in [1 .. n + 1 -> DOMAIN new]
  BY <1>1, <1>4, <1>7
<1>9. ASSUME NEW a \in 1 .. n + 1, NEW b \in 1 .. n + 1, a < b
      PROVE  new[longer[a]].sort_order < new[longer[b]].sort_order
  <2>1. a \in 1 .. n /\ longer[a] = list[a] /\ list[a] \in D
    BY <1>1, <1>7, <1>9
  <2>2. new[longer[a]].sort_order = table[list[a]].sort_order
    BY <1>2, <1>4, <2>1
  <2>3. CASE b = n + 1
    <3>1. longer[b] = p.symbol /\ new[longer[b]].sort_order = p.set[p.symbol]
      BY <1>4, <1>7, <2>3
    <3> QED
      BY <1>5, <2>1, <2>2, <3>1
  <2>4. CASE b # n + 1
    <3>1. b \in 1 .. n /\ longer[b] = list[b] /\ list[b] \in D
      BY <1>1, <1>7, <2>4
    <3>2. new[longer[b]].sort_order = table[list[b]].sort_order
      BY <1>2, <1>4, <3>1
    <3> QED
      BY <1>3, <1>9, <2>1, <2>2, <3>1, <3>2
  <2> QED
    BY <2>3, <2>4
<1> HIDE DEF longer
<1>10. Listing(new, DOMAIN new) = longer /\ Strict(new)
  BY <1>4, <1>6, <1>8, <1>9, ListedBySortOrder
<1> QED
  BY <1>4, <1>10 DEF new, longer, list

\* Committing a toggle leaves the order alone.
LEMMA ToggleKeeps ==
  ASSUME NEW table, Table(table),
         NEW p, p.step = "commit", Written(p), Accepted(table, p), p.op = "toggle"
  PROVE  /\ Strict(table) => Strict(Changed(table, p))
         /\ DOMAIN Changed(table, p) = DOMAIN table
         /\ Precedence(Changed(table, p)) = Precedence(table)
<1> DEFINE D == DOMAIN table
           new == Changed(table, p)
<1>1. DOMAIN new = D /\ \A s \in D : new[s].sort_order = table[s].sort_order
  <2>1. /\ DOMAIN new = DOMAIN p.set \cup D
        /\ \A s \in DOMAIN new : new[s].sort_order = table[s].sort_order
    BY ChangedRows
  <2>2. DOMAIN p.set \subseteq D
    BY DEF Accepted
  <2> QED
    BY <2>1, <2>2
<1> HIDE DEF new
<1>2. \A s, t \in D : Precedes(new, s, t) <=> Precedes(table, s, t)
  BY <1>1 DEF Precedes
<1>3. \A q \in D \X D : q[1] \in D /\ q[2] \in D
  OBVIOUS
<1>4. Precedence(new) = Precedence(table)
  BY <1>1, <1>2, <1>3 DEF Precedence
<1> QED
  BY <1>1, <1>4 DEF Strict, new

-----------------------------------------------------------------------------
(* The steps, by the component that takes them. *)

\* A tab's request on the personal list.
MineStep(t) ==
    \/ \E s \in Symbol : Mine!AddCheck(t, s) \/ Mine!LoadToggle(t, s) \/ Mine!RemoveAsset(t, s)
    \/ \E s \in Symbol, offset \in {-1, 1} : Mine!LoadMove(t, s, offset)
    \/ Mine!AddPlace(t) \/ Mine!Commit(t) \/ Mine!CommitRefused(t) \/ Mine!Refresh(t) \/ Mine!Bust(t)

PageStep ==
    /\ ReadFeatured \/ ReadPersonal \/ ReadRules \/ \E s \in Symbol : RulesChange(s)
    /\ UNCHANGED << vars, mine, job, mix, my_overlap >>

LEMMA StepsOf ==
  ASSUME TickerNext
  PROVE  \/ Next /\ UNCHANGED << mine, job, alert_pairs, page, mix, my_overlap >>
         \/ (\E t \in Tab : MineStep(t)) /\ UNCHANGED << vars, alert_pairs, page, mix >>
         \/ PageStep
         \/ Restarted
<1>1. One(Writer) \in Writer /\ One(Tab) \in Tab /\ One(Symbol) \in Symbol
  BY ActorsAssumption DEF One
<1>2. CASE Administration /\ UNCHANGED << mine, job, alert_pairs, page, mix, my_overlap >>
  <2>1. Next
    <3>1. CASE Next
      BY <3>1
    <3>2. CASE \/ \E s \in Symbol : LoadToggle(One(Writer), s)
               \/ Commit(One(Writer)) \/ Refresh(One(Writer)) \/ Bust(One(Writer))
      BY <1>1, <3>2 DEF Next, Write
    <3> QED
      BY <1>2, <3>1, <3>2 DEF Administration
  <2> QED
    BY <1>2, <2>1
<1>3. ASSUME NEW t \in Tab, Personal(t)
      PROVE  MineStep(t) /\ UNCHANGED << vars, alert_pairs, page, mix >>
  BY <1>3 DEF Personal, Switching, AddTicker, RemoveTicker, MoveTicker, PlaceTicker, ToggleTicker,
              CommitTicker, AnswerTicker, MineStep, TabOnly
<1>4. CASE Switching(One(Tab))
  BY <1>1, <1>3, <1>4 DEF Personal
<1>5. CASE Page
  BY <1>1, <1>5 DEF Page, PageStep, ReadFeatured, ReadPersonal, ReadRules, RulesChange, PageOnly
<1>6. CASE Restarted
  BY <1>6
<1> QED
  BY <1>2, <1>3, <1>4, <1>5, <1>6 DEF TickerNext

-----------------------------------------------------------------------------
(* Types. *)

FeaturedType == TypeOK /\ \A w \in Writer : Written(writer[w])
MineType     == Mine!TypeOK /\ \A t \in Tab : Written(job[t])

\* What get_enabled returns is a list of symbols, each once.
LEMMA EnabledList ==
  ASSUME NEW table, Table(table)
  PROVE  /\ Listing(table, {s \in DOMAIN table : table[s].enabled}) \in Seq(Symbol)
         /\ IsInjective(Listing(table, {s \in DOMAIN table : table[s].enabled}))
<1> DEFINE S == {s \in DOMAIN table : table[s].enabled}
<1>1. Listing(table, S) \in Seq(S) /\ IsInjective(Listing(table, S)) /\ S \subseteq Symbol
  BY ListingSequence DEF Table
<1> HIDE DEF S
<1>2. Listing(table, S) \in Seq(Symbol)
  BY <1>1
<1> QED
  BY <1>1, <1>2 DEF S

\* The greatest sort_order of a table, 0 for an empty one.
LEMMA GreatestOrder ==
  ASSUME NEW table, Table(table),
         NEW T, T = {0} \cup {table[s].sort_order : s \in DOMAIN table},
         NEW last, last = CHOOSE x \in T : \A y \in T : x >= y
  PROVE  last \in 0 .. MaxOrder /\ \A s \in DOMAIN table : table[s].sort_order <= last
<1>1. \A s \in DOMAIN table : table[s].sort_order \in 1 .. MaxOrder
  BY DEF Table, Row
<1>2. MaxOrder \in Nat /\ T \in SUBSET (0 .. MaxOrder) /\ T # {}
  BY <1>1, BoundsAssumption
<1>3. \A s \in DOMAIN table : table[s].sort_order \in T
  OBVIOUS
<1>4. \E x \in T : \A y \in T : x >= y
  BY <1>2, LargestElement
<1>5. last \in T /\ \A y \in T : last >= y
  BY <1>4
<1> QED
  BY <1>2, <1>3, <1>5

LEMMA FeaturedFacts ==
  ASSUME TypeOK
  PROVE  /\ Table(rows) /\ EnabledSymbols \in Seq(Symbol) /\ IsInjective(EnabledSymbols)
         /\ LastOrder \in 0 .. MaxOrder /\ \A s \in DOMAIN rows : rows[s].sort_order <= LastOrder
<1>1. Table(rows)
  BY DEF TypeOK, Table
<1>2. LastOrder \in 0 .. MaxOrder /\ \A s \in DOMAIN rows : rows[s].sort_order <= LastOrder
  BY <1>1, GreatestOrder DEF LastOrder, Max
<1> QED
  BY <1>1, <1>2, EnabledList DEF EnabledSymbols

LEMMA MineFacts ==
  ASSUME Mine!TypeOK
  PROVE  /\ Table(mine) /\ Mine!EnabledSymbols \in Seq(Symbol) /\ IsInjective(Mine!EnabledSymbols)
         /\ Mine!AllSymbols = Listing(mine, DOMAIN mine)
         /\ Mine!LastOrder \in 0 .. MaxOrder
         /\ \A s \in DOMAIN mine : mine[s].sort_order <= Mine!LastOrder
<1>1. Table(mine)
  BY DEF Mine!TypeOK, Table, Mine!Row, Row
<1>2. \A S : Mine!Listing(mine, S) = Listing(mine, S)
  <2>1. Mine!Precedence(mine) = Precedence(mine)
    BY DEF Mine!Precedence, Precedence, Mine!Precedes, Precedes
  <2>2. \A S : Mine!Cardinality(S) = Cardinality(S)
    BY DEF Mine!Cardinality, Cardinality
  <2>3. \A S, R : Mine!Ordered(S, R) = Ordered(S, R)
    BY <2>2 DEF Mine!Ordered, Ordered
  <2> QED
    BY <2>1, <2>3 DEF Mine!Listing, Listing
<1>3. /\ Mine!LastOrder \in 0 .. MaxOrder
      /\ \A s \in DOMAIN mine : mine[s].sort_order <= Mine!LastOrder
  BY <1>1, GreatestOrder DEF Mine!LastOrder, Mine!Max
<1>4. Mine!EnabledSymbols \in Seq(Symbol) /\ IsInjective(Mine!EnabledSymbols)
  BY <1>1, <1>2, EnabledList DEF Mine!EnabledSymbols
<1> QED
  BY <1>1, <1>2, <1>3, <1>4 DEF Mine!AllSymbols

LEMMA SeededTable == Table(Seeded) /\ Strict(Seeded)
<1>1. ASSUME NEW s \in DOMAIN Defaults
      PROVE  s \in Symbol /\ Seeded[s] \in Row /\ Seeded[s].sort_order = Defaults[s]
  <2>1. Seeded[s] = [sort_order |-> Defaults[s], enabled |-> TRUE]
    BY DEF Seeded
  <2>2. s \in Symbol /\ Defaults[s] \in 1 .. MaxOrder
    BY DefaultsAssumption
  <2> QED
    BY <2>1, <2>2 DEF Row
<1>2. DOMAIN Seeded = DOMAIN Defaults
  BY DEF Seeded
<1>3. \A s, t \in DOMAIN Defaults : Defaults[s] = Defaults[t] => s = t
  BY DefaultsAssumption DEF IsInjective
<1> QED
  BY <1>1, <1>2, <1>3 DEF Table, Strict

LEMMA FeaturedStarts == Init => FeaturedType
<1> SUFFICES ASSUME Init PROVE FeaturedType
  OBVIOUS
<1>1. Table(rows)
  BY SeededTable DEF Init
<1>2. /\ DOMAIN writer = Writer
      /\ \A w \in Writer : writer[w] = Idle
  BY DEF Init
<1>3. Written(Idle) /\ Idle.step \in Steps /\ Idle.op \in Ops /\ Idle.symbol \in Symbol \cup {0}
  BY DEF Written, Idle, NoUpdate, Steps, Ops
<1>4. reader \in [Reader -> [waiting : BOOLEAN, list : Seq(Symbol), old : BOOLEAN]]
  <2>1. Away \in [waiting : BOOLEAN, list : Seq(Symbol), old : BOOLEAN]
    BY DEF Away
  <2> QED
    BY <2>1 DEF Init
<1>5. cached_symbols \in Seq(Symbol)
  BY DEF Init
<1>6. age \in 0 .. TTL /\ faults \in 0 .. MaxFaults
  BY TTLAssumption, BoundsAssumption DEF Init
<1>7. overtaken \in BOOLEAN /\ overlapped \in BOOLEAN
  BY DEF Init
<1> QED
  BY <1>1, <1>2, <1>3, <1>4, <1>5, <1>6, <1>7 DEF FeaturedType, TypeOK, Table, Written

LEMMA FeaturedTypeStep ==
  ASSUME FeaturedType, Next
  PROVE  FeaturedType'
<1>1. /\ Table(rows) /\ EnabledSymbols \in Seq(Symbol)
      /\ LastOrder \in 0 .. MaxOrder
      /\ \A s \in DOMAIN rows : s \in Symbol /\ rows[s] \in Row /\ rows[s].enabled \in BOOLEAN
  BY FeaturedFacts DEF FeaturedType, Table, Row
<1> DEFINE Job(p) == /\ p.step \in Steps /\ p.op \in Ops /\ p.symbol \in Symbol \cup {0}
                     /\ Written(p)
           Rest == /\ cached_symbols' \in Seq(Symbol) /\ age' \in 0 .. TTL
                   /\ reader' \in [Reader -> [waiting : BOOLEAN, list : Seq(Symbol), old : BOOLEAN]]
                   /\ faults' \in 0 .. MaxFaults
                   /\ overtaken' \in BOOLEAN /\ overlapped' \in BOOLEAN
<1>2. ASSUME NEW w \in Writer, NEW p, Job(p), Goto(w, p), Table(rows'), Rest
      PROVE  FeaturedType'
  <2>1. DOMAIN writer' = Writer /\ \A v \in Writer : Job(writer'[v])
    BY <1>2 DEF Goto, FeaturedType, TypeOK
  <2> QED
    BY <1>2, <2>1 DEF FeaturedType, TypeOK, Table, Written
<1>3. Job(Idle)
  BY DEF Idle, NoUpdate, Steps, Ops, Written
<1> HIDE DEF Job
<1>4. UNCHANGED << cached_symbols, age, reader, faults, overtaken, overlapped >> => Rest
  BY DEF FeaturedType, TypeOK
<1>5. OnlyWriter => Table(rows') /\ Rest
  BY <1>1, <1>4 DEF OnlyWriter
<1>6. ASSUME NEW w \in Writer, Observe(w), UNCHANGED << cached_symbols, age, faults >> PROVE Rest
  BY <1>6 DEF Observe, FeaturedType, TypeOK
<1>7. UNCHANGED writer /\ UNCHANGED rows /\ Rest => FeaturedType'
  BY DEF FeaturedType, TypeOK
<1> HIDE DEF Rest
<1>8. ASSUME NEW w \in Writer, NEW s \in Symbol, AddCheck(w, s) PROVE FeaturedType'
  <2>1. Job([Idle EXCEPT !.step = "check", !.op = "add", !.symbol = s])
    BY DEF Job, Idle, NoUpdate, Steps, Ops, Written
  <2> QED
    BY <1>2, <1>5, <1>8, <2>1 DEF AddCheck
<1>9. ASSUME NEW w \in Writer, AddPlace(w) PROVE FeaturedType'
  <2> DEFINE p == [step |-> "commit", op |-> "add", symbol |-> writer[w].symbol,
                   set |-> [t \in {writer[w].symbol} |-> LastOrder + 1]]
  <2>1. writer[w].symbol \in Symbol /\ LastOrder + 1 \in 1 .. MaxOrder
    BY <1>1, <1>9, BoundsAssumption DEF AddPlace, At, FeaturedType, Written
  <2>2. Job(p)
    BY <2>1 DEF Job, Steps, Ops, Written
  <2> QED
    BY <1>2, <1>5, <1>9, <2>2 DEF AddPlace
<1>10. ASSUME NEW w \in Writer, NEW s \in Symbol, LoadToggle(w, s) PROVE FeaturedType'
  <2> DEFINE p == [step |-> "commit", op |-> "toggle", symbol |-> s,
                   set |-> [t \in {s} |-> ~rows[s].enabled]]
  <2>1. Job(p)
    BY DEF Job, Steps, Ops, Written
  <2> QED
    BY <1>2, <1>5, <1>10, <2>1 DEF LoadToggle
<1>11. ASSUME NEW w \in Writer, NEW s \in Symbol, NEW offset \in {-1, 1}, LoadMove(w, s, offset)
       PROVE  FeaturedType'
  <2>1. PICK i \in DOMAIN AllSymbols :
           /\ AllSymbols[i] = s /\ i + offset \in DOMAIN AllSymbols
           /\ Goto(w, [step |-> "commit", op |-> "move", symbol |-> 0,
                       set |-> Swapped(s, AllSymbols[i + offset])])
    BY <1>11 DEF LoadMove
  <2> DEFINE t == AllSymbols[i + offset]
             p == [step |-> "commit", op |-> "move", symbol |-> 0, set |-> Swapped(s, t)]
  <2>2. s \in DOMAIN rows /\ t \in DOMAIN rows
    <3>1. AllSymbols \in Seq(DOMAIN rows)
      BY <1>1, ListingSequence DEF AllSymbols
    <3> QED
      BY <2>1, <3>1
  <2> HIDE DEF t
  <2>3. DOMAIN Swapped(s, t) \subseteq Symbol /\ \A u \in DOMAIN Swapped(s, t) : Swapped(s, t)[u] \in 1 .. MaxOrder
    BY <1>1, <2>2 DEF Swapped, NoUpdate, Row
  <2>4. Job(p)
    BY <2>3 DEF Job, Steps, Ops, Written
  <2> QED
    BY <1>2, <1>5, <1>11, <2>1, <2>4 DEF LoadMove, t
<1>12. ASSUME NEW w \in Writer, Commit(w) PROVE FeaturedType'
  <2>1. Table(rows')
    <3>1. Accepted(rows, writer[w]) /\ Written(writer[w]) /\ writer[w].step = "commit"
      BY <1>12 DEF Commit, Refused, Accepted, FeaturedType
    <3> QED
      BY <1>1, <1>12, <3>1, ChangedRows DEF Commit
  <2> DEFINE p == [Idle EXCEPT !.step = IF writer[w].op = "move" THEN "bust" ELSE "refresh",
                               !.op = writer[w].op, !.symbol = writer[w].symbol]
  <2>2. Job(p)
    BY DEF Job, Idle, NoUpdate, Steps, Ops, Written, FeaturedType, TypeOK
  <2> QED
    BY <1>2, <1>6, <1>12, <2>1, <2>2 DEF Commit
<1>13. ASSUME NEW w \in Writer, NEW s \in Symbol, RemoveAsset(w, s) PROVE FeaturedType'
  <2>1. Table(rows')
    BY <1>1, <1>13 DEF RemoveAsset, Table
  <2>2. Job([Idle EXCEPT !.step = "bust", !.op = "remove"])
    BY DEF Job, Idle, NoUpdate, Steps, Ops, Written
  <2> QED
    BY <1>2, <1>6, <1>13, <2>1, <2>2 DEF RemoveAsset
<1>14. ASSUME NEW w \in Writer, CommitRefused(w) PROVE FeaturedType'
  BY <1>2, <1>3, <1>5, <1>14 DEF CommitRefused
<1>15. ASSUME NEW w \in Writer, Refresh(w) PROVE FeaturedType'
  <2>1. Job([Idle EXCEPT !.step = "bust", !.op = writer[w].op])
    BY DEF Job, Idle, NoUpdate, Steps, Ops, Written, FeaturedType, TypeOK
  <2> QED
    BY <1>2, <1>3, <1>5, <1>15, <2>1 DEF Refresh
<1>16. ASSUME NEW w \in Writer, RefreshFails(w) PROVE FeaturedType'
  <2>1. Rest
    BY <1>16, BoundsAssumption DEF Rest, RefreshFails, FeaturedType, TypeOK
  <2> QED
    BY <1>1, <1>2, <1>3, <1>16, <2>1 DEF RefreshFails
<1>17. ASSUME NEW w \in Writer, Bust(w) PROVE FeaturedType'
  <2>1. Rest
    BY <1>17, TTLAssumption DEF Rest, Bust, FeaturedType, TypeOK
  <2> QED
    BY <1>1, <1>2, <1>3, <1>17, <2>1 DEF Bust
<1>18. ASSUME NEW r \in Reader, StartRead(r) PROVE FeaturedType'
  <2>1. Rest
    BY <1>1, <1>18 DEF Rest, StartRead, FeaturedType, TypeOK
  <2> QED
    BY <1>7, <1>18, <2>1 DEF StartRead
<1>19. ASSUME NEW r \in Reader, Install(r) PROVE FeaturedType'
  <2>1. Rest
    BY <1>19, TTLAssumption DEF Rest, Install, Away, FeaturedType, TypeOK
  <2> QED
    BY <1>7, <1>19, <2>1 DEF Install
<1>20. CASE ClockTick
  <2>1. Rest
    BY <1>20, TTLAssumption DEF Rest, ClockTick, Fresh, FeaturedType, TypeOK
  <2> QED
    BY <1>7, <1>20, <2>1 DEF ClockTick
<1>21. CASE Restart
  <2>1. Rest
    <3>1. Away \in [waiting : BOOLEAN, list : Seq(Symbol), old : BOOLEAN]
      BY DEF Away
    <3>2. reader' \in [Reader -> [waiting : BOOLEAN, list : Seq(Symbol), old : BOOLEAN]]
      BY <1>21, <3>1 DEF Restart
    <3>3. age' \in 0 .. TTL /\ cached_symbols' \in Seq(Symbol)
      BY <1>21, TTLAssumption DEF Restart
    <3> QED
      BY <1>21, <3>2, <3>3 DEF Rest, Restart, FeaturedType, TypeOK
  <2>3. Table(rows')
    BY <1>1, <1>21, SeededTable DEF Restart
  <2>4. DOMAIN writer' = Writer /\ \A w \in Writer : writer'[w] = Idle
    BY <1>21 DEF Restart
  <2> QED
    BY <1>3, <2>1, <2>3, <2>4 DEF Rest, Job, FeaturedType, TypeOK, Table, Written
<1> QED
  BY <1>8, <1>9, <1>10, <1>11, <1>12, <1>13, <1>14, <1>15, <1>16, <1>17, <1>18, <1>19, <1>20, <1>21
     DEF Next, Write, Read

-----------------------------------------------------------------------------
(* The order is strict until two requests overlap. *)

\* The table is strict, and what each writer is about to commit fits it.
Settled(table, jobs, actors) ==
    /\ Strict(table)
    /\ \A w \in actors : jobs[w].step = "commit" => Fits(table, jobs[w])

FeaturedOrder == overlapped \/ Settled(rows, writer, Writer)
MineOrder     == my_overlap \/ Settled(mine, job, Tab)

\* What a move is about to commit fits the table it was read from.
LEMMA MoveFits ==
  ASSUME NEW table, Table(table), Strict(table), NEW i \in Int, NEW j \in Int,
         i \in DOMAIN Listing(table, DOMAIN table), j \in DOMAIN Listing(table, DOMAIN table),
         j = i + 1 \/ j = i - 1,
         NEW s, s = Listing(table, DOMAIN table)[i], NEW t, t = Listing(table, DOMAIN table)[j],
         NEW p, p.op = "move",
         p.set = IF table[s].sort_order = table[t].sort_order THEN NoUpdate ELSE Exchange(table, s, t)
  PROVE  Fits(table, p)
<1> DEFINE n == Cardinality(DOMAIN table)
           list == Listing(table, DOMAIN table)
<1>1. /\ n \in Nat /\ list \in Seq(DOMAIN table) /\ DOMAIN list = 1 .. n
      /\ IsInjective(list)
  BY ListingSequence, SymbolFacts DEF Table
<1>2. s = list[i] /\ t = list[j] /\ i \in 1 .. n /\ j \in 1 .. n
  BY <1>1
<1>3. Exchange(table, s, t) = Exchange(table, t, s)
  BY DEF Exchange
<1> HIDE DEF list
<1>4. s \in DOMAIN table /\ t \in DOMAIN table /\ s # t
  BY <1>1, <1>2 DEF IsInjective
<1>5. p.set = Exchange(table, s, t)
  BY <1>4 DEF Strict
<1>6. CASE j = i + 1
  <2>1. i \in 1 .. n - 1 /\ p.set = Exchange(table, list[i], list[i + 1])
    BY <1>1, <1>2, <1>5, <1>6
  <2> QED
    BY <2>1 DEF Fits, list
<1>7. CASE j = i - 1
  <2>1. j \in 1 .. n - 1 /\ i = j + 1 /\ p.set = Exchange(table, list[j], list[j + 1])
    BY <1>1, <1>2, <1>3, <1>5, <1>7
  <2> QED
    BY <2>1 DEF Fits, list
<1> QED
  BY <1>6, <1>7

\* A commit that fits keeps the order strict.
LEMMA CommitStrict ==
  ASSUME NEW table, Table(table), Strict(table),
         NEW p, p.step = "commit", Written(p), Accepted(table, p), Fits(table, p)
  PROVE  Strict(Changed(table, p))
<1>1. p.op \in {"add", "toggle", "move"}
  BY DEF Written
<1> QED
  BY <1>1, MoveExchanges, AddAppends, ToggleKeeps

LEMMA FeaturedOrderStep ==
  ASSUME FeaturedType, FeaturedOrder, Next
  PROVE  FeaturedOrder'
<1>1. /\ Table(rows) /\ DOMAIN writer = Writer /\ AllSymbols = Listing(rows, DOMAIN rows)
      /\ \A s \in DOMAIN rows : rows[s].sort_order \in Int /\ rows[s].sort_order <= LastOrder
      /\ LastOrder \in Int
  BY FeaturedFacts DEF FeaturedType, TypeOK, Table, Row, AllSymbols
<1>2. ASSUME NEW w \in Writer, NEW p, Goto(w, p), UNCHANGED << rows, overlapped >>,
             p.step = "commit" /\ Strict(rows) => Fits(rows, p)
      PROVE  FeaturedOrder'
  <2>1. \A v \in Writer : writer'[v] = IF v = w THEN p ELSE writer[v]
    BY <1>1, <1>2 DEF Goto
  <2> QED
    BY <1>2, <2>1 DEF FeaturedOrder, Settled
<1>3. ASSUME NEW w \in Writer, NEW p, Goto(w, p), p.step # "commit", Observe(w),
             ~overlapped => Strict(rows')
      PROVE  FeaturedOrder'
  <2>1. \A v \in Writer : writer'[v] = IF v = w THEN p ELSE writer[v]
    BY <1>1, <1>3 DEF Goto
  <2>2. overlapped' = (overlapped \/ \E v \in Writer \ {w} : writer[v].step = "commit")
    BY <1>3 DEF Observe
  <2> QED
    BY <1>3, <2>1, <2>2 DEF FeaturedOrder, Settled
<1>4. UNCHANGED << rows, writer, overlapped >> => FeaturedOrder'
  BY DEF FeaturedOrder, Settled
<1>5. ASSUME NEW w \in Writer, NEW s \in Symbol, AddCheck(w, s) PROVE FeaturedOrder'
  <2>1. [Idle EXCEPT !.step = "check", !.op = "add", !.symbol = s].step = "check"
    BY DEF Idle
  <2> QED
    BY <1>2, <1>5, <2>1 DEF AddCheck, OnlyWriter
<1>6. ASSUME NEW w \in Writer, AddPlace(w) PROVE FeaturedOrder'
  <2> DEFINE p == [step |-> "commit", op |-> "add", symbol |-> writer[w].symbol,
                   set |-> [t \in {writer[w].symbol} |-> LastOrder + 1]]
  <2>1. Fits(rows, p)
    BY <1>1 DEF Fits
  <2> QED
    BY <1>2, <1>6, <2>1 DEF AddPlace, OnlyWriter
<1>7. ASSUME NEW w \in Writer, NEW s \in Symbol, LoadToggle(w, s) PROVE FeaturedOrder'
  <2> DEFINE p == [step |-> "commit", op |-> "toggle", symbol |-> s,
                   set |-> [t \in {s} |-> ~rows[s].enabled]]
  <2>1. Fits(rows, p)
    BY DEF Fits
  <2> QED
    BY <1>2, <1>7, <2>1 DEF LoadToggle, OnlyWriter
<1>8. ASSUME NEW w \in Writer, NEW s \in Symbol, NEW offset \in {-1, 1}, LoadMove(w, s, offset)
      PROVE  FeaturedOrder'
  <2>1. PICK i \in DOMAIN AllSymbols :
           /\ AllSymbols[i] = s /\ i + offset \in DOMAIN AllSymbols
           /\ Goto(w, [step |-> "commit", op |-> "move", symbol |-> 0,
                       set |-> Swapped(s, AllSymbols[i + offset])])
    BY <1>8 DEF LoadMove
  <2> DEFINE t == AllSymbols[i + offset]
             p == [step |-> "commit", op |-> "move", symbol |-> 0, set |-> Swapped(s, t)]
  <2>2. i \in Int /\ i + offset \in Int
    <3>1. AllSymbols \in Seq(DOMAIN rows)
      BY <1>1, ListingSequence
    <3> QED
      BY <3>1
  <2>3. Swapped(s, t) = IF rows[s].sort_order = rows[t].sort_order THEN NoUpdate
                        ELSE Exchange(rows, s, t)
    BY DEF Swapped, Exchange
  <2> HIDE DEF t
  <2>4. Strict(rows) => Fits(rows, p)
    BY <1>1, <2>1, <2>2, <2>3, MoveFits DEF t
  <2> QED
    BY <1>2, <1>8, <2>1, <2>4 DEF LoadMove, OnlyWriter, t
<1>9. ASSUME NEW w \in Writer, Commit(w) PROVE FeaturedOrder'
  <2>1. Accepted(rows, writer[w]) /\ Written(writer[w]) /\ writer[w].step = "commit"
    BY <1>9 DEF Commit, Refused, Accepted, FeaturedType
  <2>2. ~overlapped => Strict(rows')
    BY <1>1, <1>9, <2>1, CommitStrict DEF Commit, FeaturedOrder, Settled
  <2> DEFINE p == [Idle EXCEPT !.step = IF writer[w].op = "move" THEN "bust" ELSE "refresh",
                               !.op = writer[w].op, !.symbol = writer[w].symbol]
  <2>3. p.step # "commit"
    BY DEF Idle
  <2> QED
    BY <1>3, <1>9, <2>2, <2>3 DEF Commit
<1>10. ASSUME NEW w \in Writer, NEW s \in Symbol, RemoveAsset(w, s) PROVE FeaturedOrder'
  <2>1. ~overlapped => Strict(rows')
    BY <1>10 DEF RemoveAsset, FeaturedOrder, Settled, Strict
  <2>2. [Idle EXCEPT !.step = "bust", !.op = "remove"].step # "commit"
    BY DEF Idle
  <2> QED
    BY <1>3, <1>10, <2>1, <2>2 DEF RemoveAsset
<1>11. Idle.step # "commit"
  BY DEF Idle
<1>12. ASSUME NEW w \in Writer, CommitRefused(w) PROVE FeaturedOrder'
  BY <1>2, <1>11, <1>12 DEF CommitRefused, OnlyWriter
<1>13. ASSUME NEW w \in Writer, Refresh(w) PROVE FeaturedOrder'
  <2>1. [Idle EXCEPT !.step = "bust", !.op = writer[w].op].step # "commit"
    BY DEF Idle
  <2> QED
    BY <1>2, <1>11, <1>13, <2>1 DEF Refresh, OnlyWriter
<1>14. ASSUME NEW w \in Writer, RefreshFails(w) PROVE FeaturedOrder'
  BY <1>2, <1>11, <1>14 DEF RefreshFails
<1>15. ASSUME NEW w \in Writer, Bust(w) PROVE FeaturedOrder'
  BY <1>2, <1>11, <1>15 DEF Bust
<1>16. ASSUME NEW r \in Reader, Read(r) PROVE FeaturedOrder'
  BY <1>4, <1>16 DEF Read, StartRead, Install
<1>17. CASE ClockTick
  BY <1>4, <1>17 DEF ClockTick
<1>18. CASE Restart
  <2>1. \A w \in Writer : writer'[w].step # "commit"
    BY <1>11, <1>18 DEF Restart
  <2>2. overlapped' = overlapped /\ (rows' = Seeded \/ rows' = rows)
    BY <1>18 DEF Restart
  <2> QED
    BY <2>1, <2>2, SeededTable DEF FeaturedOrder, Settled
<1> QED
  BY <1>5, <1>6, <1>7, <1>8, <1>9, <1>10, <1>12, <1>13, <1>14, <1>15, <1>16, <1>17, <1>18
     DEF Next, Write

-----------------------------------------------------------------------------
(* The same of the personal list. *)

LEMMA MineStarts == TickerInit => MineType /\ MineOrder
<1> SUFFICES ASSUME TickerInit PROVE MineType /\ MineOrder
  OBVIOUS
<1>1. Table(mine) /\ Strict(mine)
  BY SeededTable DEF TickerInit, Table, Strict
<1>2. DOMAIN job = Tab /\ \A t \in Tab : job[t] = Idle
  BY DEF TickerInit
<1>3. Written(Idle) /\ Idle.step = "idle" /\ Idle.op = "none" /\ Idle.symbol = 0
  BY DEF Written, Idle, NoUpdate
<1>4. Mine!TypeOK
  <2>1. DOMAIN mine \subseteq Symbol /\ \A s \in DOMAIN mine : mine[s] \in Mine!Row
    BY <1>1 DEF Table, Mine!Row, Row
  <2>2. \A t \in Tab : /\ job[t].step \in Mine!Steps /\ job[t].op \in Mine!Ops
                       /\ job[t].symbol \in Symbol \cup {0} /\ DOMAIN job[t].set \subseteq Symbol
    BY <1>2, <1>3 DEF Mine!Steps, Mine!Ops, Written
  <2>3. my_overlap \in BOOLEAN /\ (~TRUE) \in BOOLEAN
    BY DEF TickerInit
  <2>4. 1 \in 0 .. 1 /\ 0 \in 0 .. 0
    OBVIOUS
  <2>5. [r \in {} |-> Away] \in [{} -> [waiting : BOOLEAN, list : Seq(Symbol), old : BOOLEAN]]
    OBVIOUS
  <2>6. << >> \in Seq(Symbol)
    OBVIOUS
  <2> QED
    BY <1>2, <2>1, <2>2, <2>3, <2>4, <2>5, <2>6 DEF Mine!TypeOK
<1> QED
  BY <1>1, <1>2, <1>3, <1>4 DEF MineType, MineOrder, Settled

LEMMA MineKept ==
  ASSUME MineType, MineOrder, NEW t \in Tab, MineStep(t)
  PROVE  MineType' /\ MineOrder'
<1>1. /\ Table(mine) /\ DOMAIN job = Tab /\ Mine!AllSymbols = Listing(mine, DOMAIN mine)
      /\ \A s \in DOMAIN mine : /\ mine[s].sort_order \in Int /\ mine[s].sort_order <= Mine!LastOrder
                                /\ mine[s].enabled \in BOOLEAN
      /\ Mine!LastOrder \in 0 .. MaxOrder /\ MaxOrder \in Nat
  BY MineFacts, BoundsAssumption DEF MineType, Mine!TypeOK, Table, Row
<1> DEFINE Job(p) == /\ p.step \in Steps /\ p.op \in Ops /\ p.symbol \in Symbol \cup {0}
                     /\ Written(p)
<1>2. ASSUME NEW p, Job(p), Mine!Goto(t, p), Table(mine'), my_overlap' \in BOOLEAN
      PROVE  MineType'
  <2>1. DOMAIN job' = Tab /\ \A u \in Tab : Job(job'[u])
    <3>1. \A u \in Tab : Job(job[u])
      BY DEF MineType, Mine!TypeOK, Mine!Steps, Mine!Ops, Steps, Ops
    <3>2. \A u \in Tab : job'[u] = IF u = t THEN p ELSE job[u]
      BY <1>1, <1>2 DEF Mine!Goto
    <3>3. DOMAIN job' = Tab
      BY <1>1, <1>2 DEF Mine!Goto
    <3> HIDE DEF Job
    <3> QED
      BY <1>2, <3>1, <3>2, <3>3
  <2>2. DOMAIN mine' \subseteq Symbol /\ \A s \in DOMAIN mine' : mine'[s] \in Mine!Row
    BY <1>2 DEF Table, Mine!Row, Row
  <2> QED
    BY <1>2, <2>1, <2>2 DEF MineType, Mine!TypeOK, Mine!Steps, Mine!Ops, Steps, Ops, Written
<1>3. ASSUME NEW p, Job(p), Mine!Goto(t, p), UNCHANGED << mine, my_overlap >>,
             p.step = "commit" /\ Strict(mine) => Fits(mine, p)
      PROVE  MineType' /\ MineOrder'
  <2>1. \A u \in Tab : job'[u] = IF u = t THEN p ELSE job[u]
    BY <1>1, <1>3 DEF Mine!Goto
  <2>2. MineOrder'
    BY <1>3, <2>1 DEF MineOrder, Settled
  <2>3. my_overlap' \in BOOLEAN
    BY <1>3 DEF MineType, Mine!TypeOK
  <2> QED
    BY <1>1, <1>2, <1>3, <2>2, <2>3
<1>4. ASSUME NEW p, Job(p), Mine!Goto(t, p), p.step # "commit", Mine!Observe(t), Table(mine'),
             ~my_overlap => Strict(mine')
      PROVE  MineType' /\ MineOrder'
  <2>1. \A u \in Tab : job'[u] = IF u = t THEN p ELSE job[u]
    BY <1>1, <1>4 DEF Mine!Goto
  <2>2. my_overlap' = (my_overlap \/ \E u \in Tab \ {t} : job[u].step = "commit")
    BY <1>4 DEF Mine!Observe
  <2>3. MineOrder'
    BY <1>4, <2>1, <2>2 DEF MineOrder, Settled
  <2>4. my_overlap' \in BOOLEAN
    BY <2>2 DEF MineType, Mine!TypeOK
  <2> QED
    BY <1>2, <1>4, <2>3, <2>4
<1>5. Job(Mine!Idle) /\ Mine!Idle.step # "commit"
  BY DEF Mine!Idle, Mine!NoUpdate, Steps, Ops, Written
<1>6. Job(job[t])
  BY DEF MineType, Mine!TypeOK, Mine!Steps, Mine!Ops, Steps, Ops
<1> HIDE DEF Job
<1>7. Mine!OnlyWriter => UNCHANGED << mine, my_overlap >>
  BY DEF Mine!OnlyWriter
<1>8. ASSUME NEW s \in Symbol, Mine!AddCheck(t, s) PROVE MineType' /\ MineOrder'
  <2> DEFINE p == [Mine!Idle EXCEPT !.step = "check", !.op = "add", !.symbol = s]
  <2>1. Job(p) /\ p.step # "commit"
    BY DEF Job, Mine!Idle, Mine!NoUpdate, Steps, Ops, Written
  <2> QED
    BY <1>3, <1>7, <1>8, <2>1 DEF Mine!AddCheck
<1>9. ASSUME Mine!AddPlace(t) PROVE MineType' /\ MineOrder'
  <2> DEFINE p == [step |-> "commit", op |-> "add", symbol |-> job[t].symbol,
                   set |-> [u \in {job[t].symbol} |-> Mine!LastOrder + 1]]
  <2>1. job[t].symbol \in Symbol /\ Mine!LastOrder + 1 \in 1 .. MaxOrder
    BY <1>1, <1>9 DEF Mine!AddPlace, Mine!At, MineType, Written
  <2>2. Job(p)
    BY <2>1 DEF Job, Steps, Ops, Written
  <2>3. Fits(mine, p)
    BY <1>1 DEF Fits
  <2> QED
    BY <1>3, <1>7, <1>9, <2>2, <2>3 DEF Mine!AddPlace
<1>10. ASSUME NEW s \in Symbol, Mine!LoadToggle(t, s) PROVE MineType' /\ MineOrder'
  <2> DEFINE p == [step |-> "commit", op |-> "toggle", symbol |-> s,
                   set |-> [u \in {s} |-> ~mine[s].enabled]]
  <2>1. Job(p)
    BY DEF Job, Steps, Ops, Written
  <2>2. Fits(mine, p)
    BY DEF Fits
  <2> QED
    BY <1>3, <1>7, <1>10, <2>1, <2>2 DEF Mine!LoadToggle
<1>11. ASSUME NEW s \in Symbol, NEW offset \in {-1, 1}, Mine!LoadMove(t, s, offset)
       PROVE  MineType' /\ MineOrder'
  <2> DEFINE list == Listing(mine, DOMAIN mine)
  <2>1. PICK i \in DOMAIN list :
           /\ list[i] = s /\ i + offset \in DOMAIN list
           /\ Mine!Goto(t, [step |-> "commit", op |-> "move", symbol |-> 0,
                            set |-> Mine!Swapped(s, list[i + offset])])
    BY <1>1, <1>11 DEF Mine!LoadMove
  <2> DEFINE v == list[i + offset]
             p == [step |-> "commit", op |-> "move", symbol |-> 0, set |-> Mine!Swapped(s, v)]
  <2>2. i \in Int /\ i + offset \in Int /\ s \in DOMAIN mine /\ v \in DOMAIN mine
    <3>1. list \in Seq(DOMAIN mine)
      BY <1>1, ListingSequence
    <3> HIDE DEF list
    <3> QED
      BY <2>1, <3>1
  <2>3. Mine!Swapped(s, v) = IF mine[s].sort_order = mine[v].sort_order THEN NoUpdate
                             ELSE Exchange(mine, s, v)
    BY DEF Mine!Swapped, Exchange, Mine!NoUpdate, NoUpdate
  <2> HIDE DEF v
  <2>4. Strict(mine) => Fits(mine, p)
    BY <1>1, <2>1, <2>2, <2>3, MoveFits DEF v
  <2>5. /\ DOMAIN Mine!Swapped(s, v) \subseteq Symbol
        /\ \A u \in DOMAIN Mine!Swapped(s, v) : Mine!Swapped(s, v)[u] \in 1 .. MaxOrder
    BY <1>1, <2>2, <2>3 DEF Exchange, NoUpdate, Table, Row
  <2>6. Job(p)
    BY <2>5 DEF Job, Steps, Ops, Written
  <2> QED
    BY <1>3, <1>7, <1>11, <2>1, <2>4, <2>6 DEF Mine!LoadMove, v
<1>12. ASSUME Mine!Commit(t) PROVE MineType' /\ MineOrder'
  <2>1. Accepted(mine, job[t]) /\ Written(job[t]) /\ job[t].step = "commit"
    BY <1>12 DEF Mine!Commit, Mine!Refused, Accepted, MineType
  <2>2. mine' = Changed(mine, job[t])
    BY <1>12 DEF Mine!Commit, Mine!Changed, Changed
  <2>3. Table(mine') /\ (~my_overlap => Strict(mine'))
    BY <1>1, <2>1, <2>2, ChangedRows, CommitStrict DEF MineOrder, Settled
  <2> DEFINE p == [Mine!Idle EXCEPT !.step = IF job[t].op = "move" THEN "bust" ELSE "refresh",
                                    !.op = job[t].op, !.symbol = job[t].symbol]
  <2>4. Job(p) /\ p.step # "commit"
    BY <1>6 DEF Job, Mine!Idle, Mine!NoUpdate, Steps, Ops, Written
  <2> QED
    BY <1>4, <1>12, <2>3, <2>4 DEF Mine!Commit
<1>13. ASSUME NEW s \in Symbol, Mine!RemoveAsset(t, s) PROVE MineType' /\ MineOrder'
  <2>1. Table(mine') /\ (~my_overlap => Strict(mine'))
    BY <1>1, <1>13 DEF Mine!RemoveAsset, MineOrder, Settled, Strict, Table
  <2> DEFINE p == [Mine!Idle EXCEPT !.step = "bust", !.op = "remove"]
  <2>2. Job(p) /\ p.step # "commit"
    BY DEF Job, Mine!Idle, Mine!NoUpdate, Steps, Ops, Written
  <2> QED
    BY <1>4, <1>13, <2>1, <2>2 DEF Mine!RemoveAsset
<1>14. ASSUME Mine!CommitRefused(t) PROVE MineType' /\ MineOrder'
  BY <1>3, <1>5, <1>7, <1>14 DEF Mine!CommitRefused
<1>15. ASSUME Mine!Refresh(t) PROVE MineType' /\ MineOrder'
  <2> DEFINE p == [Mine!Idle EXCEPT !.step = "bust", !.op = job[t].op]
  <2>1. Job(p) /\ p.step # "commit"
    BY <1>6 DEF Job, Mine!Idle, Mine!NoUpdate, Steps, Ops, Written
  <2> QED
    BY <1>3, <1>5, <1>7, <1>15, <2>1 DEF Mine!Refresh
<1>16. ASSUME Mine!Bust(t) PROVE MineType' /\ MineOrder'
  BY <1>3, <1>5, <1>16 DEF Mine!Bust
<1> QED
  BY <1>8, <1>9, <1>10, <1>11, <1>12, <1>13, <1>14, <1>15, <1>16 DEF MineStep

-----------------------------------------------------------------------------
(* The cached list. *)

\* A read that no commit has overtaken brings the committed list.
ReaderCurrent ==
    \A r \in Reader : reader[r].waiting /\ ~reader[r].old => reader[r].list = EnabledSymbols

\* This writer will empty the cache, unless its refresh fails.
WillBust(w) ==
    \/ writer[w].step = "bust"
    \/ writer[w].step = "refresh" /\ writer[w].symbol \in DOMAIN rows

CacheCurrent ==
    Fresh /\ cached_symbols # EnabledSymbols =>
        (\E w \in Writer : WillBust(w)) \/ faults > 0 \/ overtaken

LEMMA CacheStarts == Init => ReaderCurrent /\ CacheCurrent
BY TTLAssumption DEF Init, ReaderCurrent, Away, CacheCurrent, Fresh

LEMMA CacheStep ==
  ASSUME FeaturedType, ReaderCurrent, CacheCurrent, Next
  PROVE  ReaderCurrent' /\ CacheCurrent'
<1>1. /\ DOMAIN writer = Writer /\ age \in 0 .. TTL /\ TTL \in Nat \ {0} /\ faults \in Nat
      /\ reader \in [Reader -> [waiting : BOOLEAN, list : Seq(Symbol), old : BOOLEAN]]
  BY TTLAssumption, BoundsAssumption DEF FeaturedType, TypeOK
<1>2. rows' = rows => EnabledSymbols' = EnabledSymbols
  BY DEF EnabledSymbols
<1>3. ASSUME UNCHANGED << rows, reader >> PROVE ReaderCurrent'
  BY <1>2, <1>3 DEF ReaderCurrent
<1>4. ASSUME NEW w \in Writer, NEW p, Goto(w, p), ~WillBust(w), OnlyWriter
      PROVE  ReaderCurrent' /\ CacheCurrent'
  <2>1. UNCHANGED << rows, cached_symbols, age, reader, faults, overtaken >>
    BY <1>4 DEF OnlyWriter
  <2>2. \A v \in Writer : v # w => writer'[v] = writer[v]
    BY <1>1, <1>4 DEF Goto
  <2>3. \A v \in Writer : WillBust(v) => WillBust(v)'
    BY <1>4, <2>1, <2>2 DEF WillBust
  <2> HIDE DEF WillBust
  <2> QED
    BY <1>2, <1>3, <2>1, <2>3 DEF CacheCurrent, Fresh
<1>5. ASSUME NEW w \in Writer, WillBust(w)', Observe(w) PROVE ReaderCurrent' /\ CacheCurrent'
  <2>1. \A r \in Reader : reader'[r].waiting = reader[r].waiting /\ reader'[r].old = reader[r].waiting
    BY <1>1, <1>5 DEF Observe
  <2>2. ReaderCurrent'
    BY <2>1 DEF ReaderCurrent
  <2> QED
    BY <1>5, <2>2 DEF CacheCurrent
<1>6. ASSUME NEW w \in Writer, NEW s \in Symbol, AddCheck(w, s) \/ LoadToggle(w, s)
      PROVE  ReaderCurrent' /\ CacheCurrent'
  <2>1. ~WillBust(w)
    BY <1>6 DEF AddCheck, LoadToggle, Idling, Idle, WillBust
  <2> QED
    BY <1>4, <1>6, <2>1 DEF AddCheck, LoadToggle
<1>7. ASSUME NEW w \in Writer, AddPlace(w) PROVE ReaderCurrent' /\ CacheCurrent'
  <2>1. ~WillBust(w)
    BY <1>7 DEF AddPlace, At, WillBust
  <2> QED
    BY <1>4, <1>7, <2>1 DEF AddPlace
<1>8. ASSUME NEW w \in Writer, NEW s \in Symbol, NEW offset \in {-1, 1}, LoadMove(w, s, offset)
      PROVE  ReaderCurrent' /\ CacheCurrent'
  <2>1. ~WillBust(w)
    BY <1>8 DEF LoadMove, Idling, Idle, WillBust
  <2> QED
    BY <1>4, <1>8, <2>1 DEF LoadMove
<1>9. ASSUME NEW w \in Writer, CommitRefused(w) PROVE ReaderCurrent' /\ CacheCurrent'
  <2>1. ~WillBust(w)
    BY <1>9 DEF CommitRefused, WillBust
  <2> QED
    BY <1>4, <1>9, <2>1 DEF CommitRefused
<1>10. ASSUME NEW w \in Writer, Commit(w) PROVE ReaderCurrent' /\ CacheCurrent'
  <2>1. Written(writer[w]) /\ writer[w].step = "commit"
    BY <1>10 DEF Commit, FeaturedType
  <2>2. writer[w].op # "move" => writer[w].symbol \in DOMAIN rows'
    BY <1>10, <2>1 DEF Commit, Changed, Written
  <2>3. /\ writer'[w].step = IF writer[w].op = "move" THEN "bust" ELSE "refresh"
        /\ writer'[w].symbol = writer[w].symbol
    BY <1>1, <1>10 DEF Commit, Goto, Idle
  <2>4. WillBust(w)'
    BY <2>2, <2>3 DEF WillBust
  <2> QED
    BY <1>5, <1>10, <2>4 DEF Commit
<1>11. ASSUME NEW w \in Writer, NEW s \in Symbol, RemoveAsset(w, s)
       PROVE  ReaderCurrent' /\ CacheCurrent'
  <2>1. WillBust(w)'
    BY <1>1, <1>11 DEF RemoveAsset, Goto, Idle, WillBust
  <2> QED
    BY <1>5, <1>11, <2>1 DEF RemoveAsset
<1>12. ASSUME NEW w \in Writer, Refresh(w) PROVE ReaderCurrent' /\ CacheCurrent'
  <2>1. CASE writer[w].symbol \in DOMAIN rows
    <3>1. WillBust(w)'
      BY <1>1, <1>12, <2>1 DEF Refresh, Goto, Idle, WillBust
    <3> QED
      BY <1>3, <1>12, <3>1 DEF Refresh, OnlyWriter, CacheCurrent
  <2>2. CASE writer[w].symbol \notin DOMAIN rows
    <3>1. ~WillBust(w)
      BY <1>12, <2>2 DEF Refresh, WillBust
    <3> QED
      BY <1>4, <1>12, <2>2, <3>1 DEF Refresh
  <2> QED
    BY <2>1, <2>2
<1>13. ASSUME NEW w \in Writer, RefreshFails(w) PROVE ReaderCurrent' /\ CacheCurrent'
  <2>1. faults' > 0
    BY <1>1, <1>13 DEF RefreshFails
  <2> QED
    BY <1>3, <1>13, <2>1 DEF RefreshFails, CacheCurrent
<1>14. ASSUME NEW w \in Writer, Bust(w) PROVE ReaderCurrent' /\ CacheCurrent'
  <2>1. ~Fresh'
    BY <1>1, <1>14 DEF Bust, Fresh
  <2> QED
    BY <1>3, <1>14, <2>1 DEF Bust, CacheCurrent
<1>15. ASSUME NEW r \in Reader, StartRead(r) PROVE ReaderCurrent' /\ CacheCurrent'
  <2>1. ~Fresh'
    BY <1>15 DEF StartRead, Fresh
  <2>2. \A q \in Reader : IF q = r THEN reader'[q].list = EnabledSymbols ELSE reader'[q] = reader[q]
    BY <1>1, <1>15 DEF StartRead
  <2> QED
    BY <1>2, <1>15, <2>1, <2>2 DEF StartRead, ReaderCurrent, CacheCurrent
<1>16. ASSUME NEW r \in Reader, Install(r) PROVE ReaderCurrent' /\ CacheCurrent'
  <2>1. \A q \in Reader : IF q = r THEN reader'[q] = Away ELSE reader'[q] = reader[q]
    BY <1>1, <1>16 DEF Install
  <2>2. ReaderCurrent'
    BY <1>2, <1>16, <2>1 DEF Install, ReaderCurrent, Away
  <2>3. overtaken' \/ cached_symbols' = EnabledSymbols'
    BY <1>2, <1>16 DEF Install, ReaderCurrent
  <2> QED
    BY <2>2, <2>3 DEF CacheCurrent
<1>17. CASE ClockTick
  <2>1. Fresh
    BY <1>17 DEF ClockTick
  <2>2. UNCHANGED << rows, cached_symbols, writer, reader, faults, overtaken >>
    BY <1>17 DEF ClockTick
  <2> QED
    BY <1>2, <1>3, <2>1, <2>2 DEF CacheCurrent, WillBust
<1>18. CASE Restart
  <2>1. ~Fresh' /\ \A r \in Reader : reader'[r] = Away
    BY <1>1, <1>18 DEF Restart, Fresh
  <2> QED
    BY <2>1 DEF ReaderCurrent, Away, CacheCurrent
<1> QED
  BY <1>6, <1>7, <1>8, <1>9, <1>10, <1>11, <1>12, <1>13, <1>14, <1>15, <1>16, <1>17, <1>18
     DEF Next, Write, Read

-----------------------------------------------------------------------------
(* The page. *)

LEMMA JoinedLists ==
  ASSUME NEW X, NEW f \in Seq(X), NEW g \in Seq(X), IsInjective(f), IsInjective(g),
         ToSet(f) \cap ToSet(g) = {}
  PROVE  /\ f \o g \in Seq(X) /\ IsInjective(f \o g)
         /\ ToSet(f \o g) = ToSet(f) \cup ToSet(g)
<1> DEFINE m == Len(f)
           n == Len(g)
           h == f \o g
<1>1. /\ m \in Nat /\ n \in Nat /\ DOMAIN f = 1 .. m /\ DOMAIN g = 1 .. n
      /\ h \in Seq(X) /\ Len(h) = m + n /\ DOMAIN h = 1 .. m + n
      /\ \A i \in 1 .. m + n : h[i] = IF i <= m THEN f[i] ELSE g[i - m]
  OBVIOUS
<1> HIDE DEF m, n, h
<1>2. \A i \in 1 .. m : i \in 1 .. m + n /\ h[i] = f[i] /\ f[i] \in ToSet(f)
  <2> TAKE i \in 1 .. m
  <2>1. i \in 1 .. m + n /\ i <= m
    BY <1>1
  <2> QED
    BY <1>1, <2>1 DEF ToSet
<1>3. \A i \in 1 .. n : i + m \in 1 .. m + n /\ h[i + m] = g[i] /\ g[i] \in ToSet(g)
  <2> TAKE i \in 1 .. n
  <2>1. i + m \in 1 .. m + n /\ ~ (i + m <= m) /\ (i + m) - m = i
    BY <1>1
  <2> QED
    BY <1>1, <2>1 DEF ToSet
<1>4. \A i \in 1 .. m + n : i \in 1 .. m \/ \E k \in 1 .. n : i = k + m
  <2> TAKE i \in 1 .. m + n
  <2>1. CASE i <= m
    BY <1>1, <2>1
  <2>2. CASE ~ (i <= m)
    <3>1. i - m \in 1 .. n /\ i = (i - m) + m
      BY <1>1, <2>2
    <3> QED
      BY <3>1
  <2> QED
    BY <2>1, <2>2
<1>5. ASSUME NEW i \in 1 .. m + n, NEW j \in 1 .. m + n, h[i] = h[j] PROVE i = j
  <2>1. CASE i \in 1 .. m /\ j \in 1 .. m
    BY <1>1, <1>2, <1>5, <2>1 DEF IsInjective
  <2>2. CASE \E k, l \in 1 .. n : i = k + m /\ j = l + m
    <3>1. PICK k \in 1 .. n, l \in 1 .. n : i = k + m /\ j = l + m
      BY <2>2
    <3>2. g[k] = g[l]
      BY <1>3, <1>5, <3>1
    <3>3. k = l
      BY <1>1, <3>2 DEF IsInjective
    <3> QED
      BY <3>1, <3>3
  <2>3. CASE i \in 1 .. m /\ \E k \in 1 .. n : j = k + m
    BY <1>2, <1>3, <1>5, <2>3
  <2>4. CASE j \in 1 .. m /\ \E k \in 1 .. n : i = k + m
    BY <1>2, <1>3, <1>5, <2>4
  <2> QED
    BY <1>4, <2>1, <2>2, <2>3, <2>4
<1>6. IsInjective(h)
  BY <1>1, <1>5 DEF IsInjective
<1>7. ASSUME NEW x \in ToSet(h) PROVE x \in ToSet(f) \cup ToSet(g)
  <2>1. PICK i \in 1 .. m + n : h[i] = x
    BY <1>1 DEF ToSet
  <2> QED
    BY <1>2, <1>3, <1>4, <2>1
<1>8. ASSUME NEW x \in ToSet(f) \cup ToSet(g) PROVE x \in ToSet(h)
  <2>1. CASE x \in ToSet(f)
    <3>1. PICK i \in 1 .. m : f[i] = x
      BY <1>1, <2>1 DEF ToSet
    <3> QED
      BY <1>1, <1>2, <3>1 DEF ToSet
  <2>2. CASE x \in ToSet(g)
    <3>1. PICK i \in 1 .. n : g[i] = x
      BY <1>1, <2>2 DEF ToSet
    <3> QED
      BY <1>1, <1>3, <3>1 DEF ToSet
  <2> QED
    BY <1>8, <2>1, <2>2
<1> QED
  BY <1>1, <1>6, <1>7, <1>8 DEF h

\* The merged list names each symbol once, and misses none of its sources.
LEMMA MergedList ==
  ASSUME NEW featured \in Seq(Symbol), IsInjective(featured),
         NEW personal \in Seq(Symbol), IsInjective(personal), NEW pairs \in SUBSET Symbol
  PROVE  /\ Merged(featured, personal, pairs) \in Seq(Symbol)
         /\ IsInjective(Merged(featured, personal, pairs))
         /\ ToSet(Merged(featured, personal, pairs)) = ToSet(featured) \cup ToSet(personal) \cup pairs
<1> DEFINE own == ToSet(personal) \ ToSet(featured)
           second == Selected(personal, own)
           listed == featured \o second
           others == pairs \ ToSet(listed)
           third == Ascending(others)
<1>1. /\ second \in Seq(Symbol \cap own) /\ IsInjective(second)
      /\ ToSet(second) = ToSet(personal) \cap own
  BY SelectedElements
<1>2. Merged(featured, personal, pairs) = listed \o third
  BY DEF Merged
<1> HIDE DEF second
<1>3. second \in Seq(Symbol) /\ ToSet(second) = own
  BY <1>1
<1>4. /\ listed \in Seq(Symbol) /\ IsInjective(listed)
      /\ ToSet(listed) = ToSet(featured) \cup own
  BY <1>1, <1>3, JoinedLists
<1> HIDE DEF listed
<1>5. others \in SUBSET Symbol /\ others \in SUBSET Nat /\ IsFiniteSet(others)
  BY SymbolFacts
<1> HIDE DEF others
<1>6. /\ Cardinality(others) \in Nat /\ third \in [1 .. Cardinality(others) -> others]
      /\ \A i, j \in 1 .. Cardinality(others) : third[i] = third[j] => i = j
      /\ \A x \in others : \E i \in 1 .. Cardinality(others) : third[i] = x
  BY <1>5, AscendingList
<1> HIDE DEF third
<1>7. third \in Seq(Symbol) /\ DOMAIN third = 1 .. Cardinality(others)
  <2> DEFINE n == Cardinality(others)
  <2>1. third \in [1 .. n -> Symbol] /\ n \in Nat
    BY <1>5, <1>6
  <2> HIDE DEF n
  <2>2. third \in Seq(Symbol) /\ DOMAIN third = 1 .. n
    BY <2>1
  <2> QED
    BY <2>2 DEF n
<1>8. IsInjective(third) /\ ToSet(third) = others
  BY <1>6, <1>7 DEF IsInjective, ToSet
<1>9. /\ listed \o third \in Seq(Symbol) /\ IsInjective(listed \o third)
      /\ ToSet(listed \o third) = ToSet(listed) \cup others
  BY <1>4, <1>7, <1>8, JoinedLists DEF others
<1> QED
  BY <1>2, <1>4, <1>9 DEF others

PageType ==
    /\ alert_pairs \subseteq Symbol
    /\ page \in [step : {"none", "personal", "rules", "shown"},
                featured : Seq(Symbol), personal : Seq(Symbol), items : Seq(Symbol)]
    /\ stayed \in [{"featured", "personal", "rules"} -> SUBSET Symbol]

\* What has been read so far holds all that its source has offered since.
PageKept ==
    /\ page.step \in {"personal", "rules"} =>
           IsInjective(page.featured) /\ stayed["featured"] \subseteq ToSet(page.featured)
    /\ page.step = "rules" =>
           IsInjective(page.personal) /\ stayed["personal"] \subseteq ToSet(page.personal)
    /\ PageShowsWhatStayed

LEMMA SourcesNow ==
  ASSUME FeaturedType, MineType, alert_pairs \subseteq Symbol
  PROVE  /\ DOMAIN Sources = {"featured", "personal", "rules"}
         /\ Sources \in [{"featured", "personal", "rules"} -> SUBSET Symbol]
         /\ Sources["featured"] = ToSet(EnabledSymbols)
         /\ Sources["personal"] = ToSet(Mine!EnabledSymbols)
         /\ Sources["rules"] = alert_pairs
<1>1. EnabledSymbols \in Seq(Symbol) /\ Mine!EnabledSymbols \in Seq(Symbol)
  BY FeaturedFacts, MineFacts DEF FeaturedType, MineType
<1>2. \A list \in Seq(Symbol) : ToSet(list) \in SUBSET Symbol
  BY DEF ToSet
<1>3. ToSet(EnabledSymbols) \in SUBSET Symbol /\ ToSet(Mine!EnabledSymbols) \in SUBSET Symbol
  BY <1>1, <1>2
<1> QED
  BY <1>3 DEF Sources

LEMMA PageStarts == TickerInit => PageType /\ PageKept
<1> SUFFICES ASSUME TickerInit PROVE PageType /\ PageKept
  OBVIOUS
<1>1. FeaturedType /\ MineType
  BY FeaturedStarts, MineStarts DEF TickerInit
<1>2. alert_pairs = {} /\ stayed = Sources /\ page = Blank
  BY DEF TickerInit
<1>3. /\ page.step = "none"
      /\ page \in [step : {"none", "personal", "rules", "shown"}, featured : Seq(Symbol), personal : Seq(Symbol), items : Seq(Symbol)]
  BY <1>2 DEF Blank
<1> QED
  BY <1>1, <1>2, <1>3, SourcesNow DEF PageType, PageKept, PageShowsWhatStayed

\* What has stayed only shrinks while the page is being read.
LEMMA StayedShrinks ==
  ASSUME PageType, TickerNext, page.step \in {"personal", "rules"}, DOMAIN Sources = {"featured", "personal", "rules"}
  PROVE  /\ stayed' \in [{"featured", "personal", "rules"} -> SUBSET Symbol]
         /\ \A k \in {"featured", "personal", "rules"} :
               stayed'[k] \subseteq stayed[k] /\ stayed'[k] \subseteq Sources'[k]
<1> DEFINE shrunk == [k \in DOMAIN Sources |-> stayed[k] \cap Sources'[k]]
<1>1. stayed' = shrunk
  <2> HIDE DEF shrunk
  <2>1. stayed' = IF page.step \in {"personal", "rules"} THEN shrunk
                  ELSE IF page'.step = "personal" THEN Sources ELSE stayed
    BY DEF TickerNext, shrunk
  <2> QED
    BY <2>1
<1> QED
  BY <1>1 DEF PageType

LEMMA PageKeptStep ==
  ASSUME FeaturedType, MineType, PageType, PageKept, TickerNext
  PROVE  PageType' /\ PageKept'
<1> DEFINE K == {"featured", "personal", "rules"}
           Form == [step : {"none", "personal", "rules", "shown"},
                    featured : Seq(Symbol), personal : Seq(Symbol), items : Seq(Symbol)]
           Reading == page.step \in {"personal", "rules"}
<1>1. /\ DOMAIN Sources = K /\ Sources \in [K -> SUBSET Symbol]
      /\ Sources["featured"] = ToSet(EnabledSymbols)
      /\ Sources["personal"] = ToSet(Mine!EnabledSymbols)
      /\ Sources["rules"] = alert_pairs
  BY SourcesNow DEF PageType
<1>2. /\ EnabledSymbols \in Seq(Symbol) /\ IsInjective(EnabledSymbols)
      /\ Mine!EnabledSymbols \in Seq(Symbol) /\ IsInjective(Mine!EnabledSymbols)
  BY FeaturedFacts, MineFacts DEF FeaturedType, MineType
<1>3. Reading => /\ stayed' \in [K -> SUBSET Symbol]
                 /\ \A k \in K : stayed'[k] \subseteq stayed[k] /\ stayed'[k] \subseteq Sources'[k]
  BY <1>1, StayedShrinks
<1>4. ~Reading => stayed' = IF page'.step = "personal" THEN Sources ELSE stayed
  BY DEF TickerNext
<1>5. stayed' \in [K -> SUBSET Symbol]
  BY <1>1, <1>3, <1>4 DEF PageType
<1> HIDE DEF K
<1>6. CASE page' = page /\ alert_pairs' \subseteq Symbol
  <2>1. PageType'
    BY <1>5, <1>6 DEF PageType, K
  <2>2. CASE Reading
    <3>1. stayed'["featured"] \subseteq stayed["featured"] /\ stayed'["personal"] \subseteq stayed["personal"]
      BY <1>3, <2>2 DEF K
    <3> QED
      BY <1>6, <2>1, <2>2, <3>1 DEF PageKept, PageShowsWhatStayed
  <2>3. CASE ~Reading
    <3>1. stayed' = stayed
      BY <1>4, <1>6, <2>3
    <3> QED
      BY <1>6, <2>1, <2>3, <3>1 DEF PageKept, PageShowsWhatStayed
  <2> QED
    BY <2>2, <2>3
<1>7. CASE ReadFeatured
  <2>1. /\ page'.step = "personal" /\ page'.featured = EnabledSymbols
        /\ page' \in Form /\ alert_pairs' = alert_pairs /\ ~Reading
    <3>1. page' = [step |-> "personal", featured |-> EnabledSymbols, personal |-> << >>, items |-> << >>]
      BY <1>7 DEF ReadFeatured, Blank
    <3>2. alert_pairs' = alert_pairs /\ ~Reading
      BY <1>7 DEF ReadFeatured, PageOnly
    <3>3. page' \in Form
      BY <1>2, <3>1
    <3> QED
      BY <3>1, <3>2, <3>3
  <2>2. stayed' = Sources
    BY <1>4, <2>1
  <2> QED
    BY <1>1, <1>2, <1>5, <2>1, <2>2 DEF PageType, PageKept, PageShowsWhatStayed, K
<1>8. CASE ReadPersonal
  <2>1. /\ page.step = "personal" /\ page'.step = "rules" /\ page'.featured = page.featured
        /\ page'.personal = Mine!EnabledSymbols /\ page' \in Form /\ alert_pairs' = alert_pairs
    BY <1>2, <1>8 DEF ReadPersonal, PageOnly, PageType
  <2>2. Sources' = Sources
    BY <1>8 DEF ReadPersonal, PageOnly, vars, Sources, EnabledSymbols, Mine!EnabledSymbols
  <2>3. stayed'["featured"] \subseteq stayed["featured"] /\ stayed'["personal"] \subseteq Sources["personal"]
    BY <1>3, <2>1, <2>2 DEF K
  <2> QED
    BY <1>1, <1>2, <1>5, <2>1, <2>3 DEF PageType, PageKept, PageShowsWhatStayed, K
<1>9. CASE ReadRules
  <2> DEFINE merged == Merged(page.featured, page.personal, alert_pairs)
  <2>1. /\ page.step = "rules" /\ page' = [Blank EXCEPT !.step = "shown", !.items = merged]
        /\ alert_pairs' = alert_pairs
    BY <1>9 DEF ReadRules, PageOnly
  <2>2. /\ merged \in Seq(Symbol) /\ IsInjective(merged)
        /\ ToSet(merged) = ToSet(page.featured) \cup ToSet(page.personal) \cup alert_pairs
    BY <2>1, MergedList DEF PageType, PageKept
  <2> HIDE DEF merged
  <2>3. page'.step = "shown" /\ page'.items = merged /\ page' \in Form
    <3>1. page' = [step |-> "shown", featured |-> << >>, personal |-> << >>, items |-> merged]
      BY <2>1 DEF Blank
    <3> QED
      BY <2>2, <3>1
  <2>4. Sources' = Sources
    BY <1>9 DEF ReadRules, PageOnly, vars, Sources, EnabledSymbols, Mine!EnabledSymbols
  <2>5. /\ stayed'["featured"] \subseteq stayed["featured"] /\ stayed'["personal"] \subseteq stayed["personal"]
        /\ stayed'["rules"] \subseteq Sources["rules"]
    BY <1>3, <2>1, <2>4 DEF K
  <2>6. \A k \in DOMAIN stayed' : stayed'[k] \subseteq ToSet(merged)
    BY <1>1, <1>5, <2>1, <2>2, <2>5 DEF PageKept, K
  <2>7. PageShowsWhatStayed'
    BY <2>2, <2>3, <2>6 DEF PageShowsWhatStayed
  <2> QED
    BY <1>5, <2>1, <2>3, <2>7 DEF PageType, PageKept, K
<1>10. CASE page' = Blank /\ alert_pairs' = alert_pairs
  <2>1. page'.step = "none" /\ page' \in Form
    BY <1>10 DEF Blank
  <2> QED
    BY <1>5, <1>10, <2>1 DEF PageType, PageKept, PageShowsWhatStayed, K
<1>11. CASE PageStep
  <2>1. ASSUME NEW s \in Symbol, RulesChange(s) PROVE page' = page /\ alert_pairs' \subseteq Symbol
    BY <2>1 DEF RulesChange, PageType
  <2> QED
    BY <1>6, <1>7, <1>8, <1>9, <1>11, <2>1 DEF PageStep
<1>12. CASE Restarted
  BY <1>10, <1>12 DEF Restarted
<1>13. UNCHANGED << alert_pairs, page >> => page' = page /\ alert_pairs' \subseteq Symbol
  BY DEF PageType
<1> QED
  BY <1>6, <1>11, <1>12, <1>13, StepsOf

-----------------------------------------------------------------------------
(* The inductive invariant, and what follows from it. *)

TickerInv ==
    /\ FeaturedType /\ MineType /\ PageType /\ mix \in Mixes
    /\ FeaturedOrder /\ MineOrder
    /\ ReaderCurrent /\ CacheCurrent
    /\ PageKept

LEMMA TickerInvStarts == TickerInit => TickerInv
<1> SUFFICES ASSUME TickerInit PROVE TickerInv
  OBVIOUS
<1>1. Init /\ mix \in Mixes
  BY DEF TickerInit
<1>2. FeaturedOrder
  <2>1. rows = Seeded /\ \A w \in Writer : writer[w].step = "idle"
    BY <1>1 DEF Init, Idle
  <2> QED
    BY <2>1, SeededTable DEF FeaturedOrder, Settled
<1> QED
  BY <1>1, <1>2, FeaturedStarts, MineStarts, CacheStarts, PageStarts DEF TickerInv

LEMMA FeaturedSame ==
  ASSUME TickerInv, UNCHANGED vars
  PROVE  FeaturedType' /\ FeaturedOrder' /\ ReaderCurrent' /\ CacheCurrent'
BY DEF TickerInv, vars, FeaturedType, TypeOK, FeaturedOrder, Settled, ReaderCurrent, CacheCurrent,
       EnabledSymbols, Fresh, WillBust

LEMMA MineSame ==
  ASSUME TickerInv, UNCHANGED << mine, job, my_overlap >>
  PROVE  MineType' /\ MineOrder'
BY DEF TickerInv, MineType, Mine!TypeOK, MineOrder, Settled

LEMMA TickerInvStep ==
  ASSUME TickerInv, [TickerNext]_all
  PROVE  TickerInv'
<1>1. CASE TickerNext
  <2>1. PageType' /\ PageKept'
    BY <1>1, PageKeptStep DEF TickerInv
  <2>2. ASSUME Next PROVE FeaturedType' /\ FeaturedOrder' /\ ReaderCurrent' /\ CacheCurrent'
    BY <2>2, FeaturedTypeStep, FeaturedOrderStep, CacheStep DEF TickerInv
  <2>3. CASE Next /\ UNCHANGED << mine, job, alert_pairs, page, mix, my_overlap >>
    BY <2>1, <2>2, <2>3, MineSame DEF TickerInv
  <2>4. CASE (\E t \in Tab : MineStep(t)) /\ UNCHANGED << vars, alert_pairs, page, mix >>
    <3>1. MineType' /\ MineOrder'
      BY <2>4, MineKept DEF TickerInv
    <3> QED
      BY <2>1, <2>4, <3>1, FeaturedSame DEF TickerInv
  <2>5. CASE PageStep
    <3>1. UNCHANGED << vars, mine, job, mix, my_overlap >>
      BY <2>5 DEF PageStep
    <3> QED
      BY <2>1, <3>1, FeaturedSame, MineSame DEF TickerInv
  <2>6. CASE Restarted
    <3>1. Next /\ UNCHANGED << mine, mix, my_overlap >> /\ job' = [t \in Tab |-> Idle]
      BY <2>6 DEF Restarted, Next
    <3>2. /\ Written(Idle) /\ Idle.step = "idle" /\ Idle.op = "none" /\ Idle.symbol = 0
          /\ DOMAIN Idle.set = {}
      BY DEF Written, Idle, NoUpdate
    <3>3. DOMAIN job' = Tab /\ \A t \in Tab : job'[t] = Idle
      BY <3>1
    <3>4. MineType'
      BY <3>1, <3>2, <3>3 DEF TickerInv, MineType, Mine!TypeOK, Mine!Steps, Mine!Ops
    <3>5. MineOrder'
      BY <3>1, <3>2, <3>3 DEF TickerInv, MineOrder, Settled
    <3> QED
      BY <2>1, <2>2, <3>1, <3>4, <3>5 DEF TickerInv
  <2> QED
    BY <1>1, <2>3, <2>4, <2>5, <2>6, StepsOf
<1>2. CASE UNCHANGED all
  <2>1. UNCHANGED vars /\ UNCHANGED << mine, job, my_overlap >> /\ UNCHANGED << alert_pairs, page, mix, stayed >>
    BY <1>2 DEF all, ticker
  <2>2. PageType' /\ PageKept'
    BY <2>1 DEF TickerInv, PageType, PageKept, PageShowsWhatStayed
  <2> QED
    BY <2>1, <2>2, FeaturedSame, MineSame DEF TickerInv
<1> QED
  BY <1>1, <1>2

LEMMA TickerInvariant == TickerSpec => []TickerInv
<1>1. TickerInit => TickerInv
  BY TickerInvStarts
<1>2. TickerInv /\ [TickerNext]_all => TickerInv'
  BY TickerInvStep
<1> QED
  BY <1>1, <1>2, PTL DEF TickerSpec

LEMMA InvariantTypes == TickerInv => TickerTypeOK
<1> SUFFICES ASSUME TickerInv PROVE TickerTypeOK
  OBVIOUS
<1>1. DOMAIN Sources = {"featured", "personal", "rules"}
  BY SourcesNow DEF TickerInv, PageType
<1>2. my_overlap \in BOOLEAN
  BY DEF TickerInv, MineType, Mine!TypeOK
<1> QED
  BY <1>1, <1>2 DEF TickerInv, TickerTypeOK, FeaturedType, MineType, PageType

LEMMA InvariantOrder == TickerInv => OrderIsStrict
<1>1. \A table : Strict(table) => IsInjective([s \in DOMAIN table |-> table[s].sort_order])
  BY DEF Strict, IsInjective
<1>2. \A f : IsInjective(f) => Mine!IsInjective(f)
  BY DEF IsInjective, Mine!IsInjective
<1> QED
  BY <1>1, <1>2 DEF TickerInv, FeaturedOrder, MineOrder, Settled, OrderIsStrict, TiesNeedOverlap,
     Mine!TiesNeedOverlap

LEMMA InvariantCache == TickerInv => StaleNeedsOvertaking
BY DEF TickerInv, CacheCurrent, StaleNeedsOvertaking, WillBust

\* The ticker, the featured markets and the page keep their types.
THEOREM TickerTypes == TickerSpec => []TickerTypeOK
BY TickerInvariant, InvariantTypes, PTL

\* In the featured list and in a user's, whatever is added, removed, toggled
\* and moved, no two rows share a sort_order unless a commit fell between
\* another writer's SELECT and its commit.
THEOREM OrderStaysStrict == TickerSpec => []OrderIsStrict
BY TickerInvariant, InvariantOrder, PTL

\* A fresh cached list is the committed one, unless a writer is about to empty
\* the cache, a statement failed, or a commit overtook the read it came from.
THEOREM CacheIsCurrent == TickerSpec => []StaleNeedsOvertaking
BY TickerInvariant, InvariantCache, PTL

\* The page, read in three SELECTs from sources that change meanwhile, shows
\* each symbol once, and every symbol that a source kept offering.
THEOREM PageMissesNothing == TickerSpec => []PageShowsWhatStayed
<1>1. TickerInv => PageShowsWhatStayed
  BY DEF TickerInv, PageKept
<1> QED
  BY <1>1, TickerInvariant, PTL

LEMMA CommitMoves ==
  ASSUME TickerInv, NEW w \in Writer, Commit(w), ~overlapped
  PROVE  CASE writer[w].op = "add"    -> AllSymbols' = Append(AllSymbols, writer[w].symbol)
           [] writer[w].op = "toggle" -> AllSymbols' = AllSymbols
           [] writer[w].op = "move"   -> \E i \in 1 .. Len(AllSymbols) - 1 :
                                            AllSymbols' = Exchanged(AllSymbols, i)
<1> DEFINE p == writer[w]
<1>1. /\ Table(rows) /\ Strict(rows) /\ AllSymbols = Listing(rows, DOMAIN rows)
      /\ AllSymbols' = Listing(rows', DOMAIN rows')
  BY FeaturedFacts DEF TickerInv, FeaturedType, FeaturedOrder, Settled, AllSymbols
<1>2. /\ Accepted(rows, p) /\ Written(p) /\ p.step = "commit" /\ rows' = Changed(rows, p)
      /\ Fits(rows, p)
  BY DEF Commit, Refused, Accepted, TickerInv, FeaturedType, FeaturedOrder, Settled
<1>3. p.op \in {"add", "toggle", "move"}
  BY <1>2 DEF Written
<1> HIDE DEF p
<1>4. CASE p.op = "add"
  <2>1. AllSymbols' = Append(AllSymbols, p.symbol)
    BY <1>1, <1>2, <1>4, AddAppends
  <2> QED
    BY <1>4, <2>1 DEF p
<1>5. CASE p.op = "toggle"
  <2>1. AllSymbols' = AllSymbols
    BY <1>1, <1>2, <1>5, ToggleKeeps DEF Listing
  <2> QED
    BY <1>5, <2>1 DEF p
<1>6. CASE p.op = "move"
  <2>1. Len(AllSymbols) = Cardinality(DOMAIN rows)
    BY <1>1, ListingSequence
  <2>2. \E i \in 1 .. Len(AllSymbols) - 1 : AllSymbols' = Exchanged(AllSymbols, i)
    BY <1>1, <1>2, <1>6, <2>1, MoveExchanges
  <2> QED
    BY <1>6, <2>2 DEF p
<1> QED
  BY <1>3, <1>4, <1>5, <1>6

\* Without overlap a committed move exchanges two neighbours of the list as it
\* is shown, a toggle leaves the order alone, and an addition goes to the end.
THEOREM MovesExchangeNeighbours == TickerSpec => CommitMovesNeighbours
<1>1. TickerInv /\ [TickerNext]_all =>
        [\A w \in Writer :
            Commit(w) /\ ~overlapped =>
               CASE writer[w].op = "add"    -> AllSymbols' = Append(AllSymbols, writer[w].symbol)
                 [] writer[w].op = "toggle" -> AllSymbols' = AllSymbols
                 [] writer[w].op = "move"   -> \E i \in 1 .. Len(AllSymbols) - 1 :
                                                  AllSymbols' = Exchanged(AllSymbols, i)]_vars
  BY CommitMoves
<1> QED
  BY <1>1, TickerInvariant, PTL DEF TickerSpec, CommitMovesNeighbours

=============================================================================
