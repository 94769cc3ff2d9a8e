-------------------------- MODULE HousekeepingProofs --------------------------
(***************************************************************************)
(* Proofs about Housekeeping, for any rules, settings, windows and delays. *)
(*                                                                         *)
(* The inductive invariant adds three facts to the types. The history is   *)
(* finite, so that counting it makes sense. A tick that is about to save a *)
(* market state has recorded its event, unless there is no change. And     *)
(* CutOff: a tick that has begun is paid for by the counter, one that will *)
(* not reach its retention by the failure or the deleted rule to blame.    *)
(***************************************************************************)
EXTENDS Housekeeping, FiniteSetTheorems, TLAPS

Cuts == faults + Cardinality(Rule \ rules)

\* The tick cannot reach its retention.
Doomed ==
    \/ pc = "poisoned"
    \/ pc = "record" /\ cur \notin rules
    \/ ~(todo \subseteq rules)

\* The ticks the counter accounts for.
Counted ==
    IF pc = "idle" \/ Doomed \/ cycle_count # 0 THEN cycle_count ELSE PerDay

CutOff == ticks_since <= PerDay * Cuts + Counted

EventFirst == pc = "upsert" => \/ new_state = market
                               \/ event = [from |-> market, to |-> new_state]

IInv ==
    /\ TypeOK
    /\ IsFiniteSet(alert_rows)
    /\ WindowsIntact
    /\ EventFirst
    /\ CutOff

-----------------------------------------------------------------------------
(* Counting. *)

LEMMA CutsAreCounted == ASSUME rules \subseteq Rule, faults \in Nat
                        PROVE  /\ Cardinality(Rule \ rules) \in Nat
                               /\ Cuts \in Nat
  <1>1. IsFiniteSet(Rule \ rules)  BY RuleAssumption, FS_Subset
  <1> QED  BY <1>1, FS_CardinalityType DEF Cuts

\* One fault, or one rule deleted, pays for one more round of the counter.
LEMMA OneMoreCut == ASSUME NEW n \in Nat  PROVE  /\ PerDay * n \in Nat
                                                 /\ PerDay * (n + 1) = PerDay * n + PerDay
  BY PerDayAssumption

-----------------------------------------------------------------------------
(* Types. *)

LEMMA FloorIsADay == ASSUME NEW days \in KeepDays
                     PROVE  Floor(days) \in KeepDays /\ Floor(days) \in Int /\ Floor(days) >= MinDays
  BY DaysAssumption DEF Floor

LEMMA AgesAreAges == ASSUME NEW rows, rows \subseteq AlertRow, NEW d \in Nat
                     PROVE  Aged(rows, d) \subseteq AlertRow
  <1> SUFFICES ASSUME NEW x \in rows  PROVE Older(x, d) \in AlertRow  BY DEF Aged
  <1>1. x \in AlertRow  OBVIOUS
  <1>2. x.rule \in Rule /\ x.pair \in Pair /\ x.age \in 0 .. Oldest  BY <1>1 DEF AlertRow
  <1>3. Older(x, d) = [rule |-> x.rule, pair |-> x.pair,
                       age |-> IF x.age + d > Oldest THEN Oldest ELSE x.age + d]
    BY <1>1 DEF Older, AlertRow
  <1>4. (IF x.age + d > Oldest THEN Oldest ELSE x.age + d) \in 0 .. Oldest
    BY <1>2, WindowAssumption
  <1> QED  BY <1>2, <1>3, <1>4 DEF AlertRow

LEMMA NewRow == ASSUME NEW r \in Rule  PROVE Triggered(r) \in AlertRow
  BY WindowAssumption DEF AlertRow, Triggered, Pair

LEMMA NotCleaningTyped == NotCleaning \in Cleaning
  BY DaysAssumption DEF NotCleaning, Cleaning, Keep

\* A step of one retention leaves the settings it has read alone.
LEMMA CleaningStep == ASSUME NEW c \in Cleaner, cleaning \in [Cleaner -> Cleaning],
                             NEW step \in {"idle", "read", "prune", "stamp"}
                      PROVE  [cleaning EXCEPT ![c].step = step] \in [Cleaner -> Cleaning]
  <1>1. cleaning[c] \in Cleaning  OBVIOUS
  <1>2. [cleaning[c] EXCEPT !.step = step] \in Cleaning  BY <1>1 DEF Cleaning
  <1> QED  BY <1>2

LEMMA TypeInit == Init => TypeOK
  <1>1. NotCleaning \in Cleaning  BY NotCleaningTyped
  <1> QED
    BY <1>1, PerDayAssumption, FaultAssumption
       DEF Init, TypeOK, Steps, Levels, States, Change, Keep

LEMMA TypeStep == TypeOK /\ [Next]_vars => TypeOK'
  <1> SUFFICES ASSUME TypeOK, [Next]_vars  PROVE TypeOK'  OBVIOUS
  <1> USE DEF TypeOK
  <1>1. ASSUME NEW d \in Delays, NEW crossed \in SUBSET Rule, StartTick(d, crossed)  PROVE TypeOK'
    <2>1. d \in Nat  BY <1>1, DelaysAssumption
    <2>2. alert_rows' \subseteq AlertRow  BY <1>1, <2>1, AgesAreAges DEF StartTick
    <2>3. Aged(fired, d) \subseteq AlertRow  BY <2>1, AgesAreAges
    <2>4. fired' \subseteq AlertRow  BY <1>1, <2>3 DEF StartTick, Recent
    <2>5. cycle_count' \in 0 .. PerDay - 1
      BY <1>1, PerDayAssumption DEF StartTick, NextCount
    <2>6. ticks_since' \in Nat  BY <1>1 DEF StartTick
    <2>7. todo' \subseteq Rule /\ pc' \in Steps  BY <1>1 DEF StartTick, Steps
    <2> QED  BY <1>1, <2>2, <2>4, <2>5, <2>6, <2>7 DEF StartTick
  <1>2. ASSUME NEW r \in Rule, Fire(r)  PROVE TypeOK'
    <2>1. severity' \in Levels  BY <1>2 DEF Fire, ComputeSeverity, Level, Levels
    <2> QED  BY <1>2, <2>1 DEF Fire, Steps, tables
  <1>3. CASE RecordHistory
    <2>1. cur \in Rule  BY <1>3 DEF RecordHistory
    <2>2. alert_rows' \subseteq AlertRow /\ fired' \subseteq AlertRow
      BY <1>3, <2>1, NewRow DEF RecordHistory
    <2> QED  BY <1>3, <2>2 DEF RecordHistory, Steps, Levels
  <1>4. CASE RecordRefused  BY <1>4 DEF RecordRefused, Steps, Levels, tables
  <1>5. CASE EvaluationDone  BY <1>5 DEF EvaluationDone, Steps, tables
  <1>6. ASSUME NEW points \in MovePoints, Evaluate(points)  PROVE TypeOK'
    <2>1. new_state' \in States
      BY <1>6 DEF Evaluate, ScoreToState, States
    <2> QED  BY <1>6, <2>1 DEF Evaluate, Steps, tables
  <1>7. CASE MarketEvent  BY <1>7 DEF MarketEvent, Steps, Change
  <1>8. CASE EventLost
    <2>1. faults' \in 0 .. MaxFaults  BY <1>8, FaultAssumption DEF EventLost, Fault
    <2> QED  BY <1>8, <2>1 DEF EventLost, Steps, tables
  <1>9. CASE SessionBroken  BY <1>9 DEF SessionBroken, Steps, States, tables
  <1>10. CASE Upsert
    <2>1. cleaning' \in [Cleaner -> Cleaning]
      BY <1>10, CleaningStep DEF Upsert, Cleaner
    <2> QED  BY <1>10, <2>1 DEF Upsert, Steps, States
  <1>11. ASSUME NEW c \in Cleaner, ReadKeep(c)  PROVE TypeOK'
    <2>1. [step |-> "prune", keep |-> keep] \in Cleaning  BY DEF Cleaning
    <2>2. cleaning' \in [Cleaner -> Cleaning]  BY <1>11, <2>1 DEF ReadKeep
    <2> QED  BY <1>11, <2>2 DEF ReadKeep, ticker, tables
  <1>12. ASSUME NEW c \in Cleaner, Prune(c)  PROVE TypeOK'
    <2>1. cleaning' \in [Cleaner -> Cleaning]  BY <1>12, CleaningStep DEF Prune
    <2> QED  BY <1>12, <2>1 DEF Prune, ticker
  <1>13. ASSUME NEW c \in Cleaner, Stamp(c)  PROVE TypeOK'
    <2>1. cleaning' \in [Cleaner -> Cleaning]  BY <1>13, NotCleaningTyped DEF Stamp
    <2>2. pc' \in Steps /\ ticks_since' \in Nat  BY <1>13 DEF Stamp, Steps
    <2> QED  BY <1>13, <2>1, <2>2 DEF Stamp, tables
  <1>14. CASE RunRetentionNow
    <2>1. cleaning' \in [Cleaner -> Cleaning]
      BY <1>14, CleaningStep DEF RunRetentionNow, Cleaner
    <2> QED  BY <1>14, <2>1 DEF RunRetentionNow, ticker, tables
  <1>15. CASE CleanFails
    <2>1. cleaning' \in [Cleaner -> Cleaning]  BY <1>15, NotCleaningTyped DEF CleanFails
    <2>2. faults' \in 0 .. MaxFaults  BY <1>15, FaultAssumption DEF CleanFails, Fault
    <2> QED  BY <1>15, <2>1, <2>2 DEF CleanFails, ticker, tables
  <1>16. ASSUME NEW enabled \in BOOLEAN, SaveEnabled(enabled)  PROVE TypeOK'
    <2>1. keep' \in Keep  BY <1>16 DEF SaveEnabled, Keep
    <2> QED  BY <1>16, <2>1 DEF SaveEnabled, ticker
  <1>17. ASSUME NEW days \in KeepDays, SaveDays(days)  PROVE TypeOK'
    <2>1. keep' \in Keep  BY <1>17, FloorIsADay DEF SaveDays, Keep
    <2> QED  BY <1>17, <2>1 DEF SaveDays, ticker
  <1>18. ASSUME NEW r \in Rule, DeleteRule(r)  PROVE TypeOK'
    BY <1>18 DEF DeleteRule, ticker
  <1>19. CASE TickFails
    <2>1. cleaning' \in [Cleaner -> Cleaning]  BY <1>19, NotCleaningTyped DEF TickFails
    <2>2. faults' \in 0 .. MaxFaults  BY <1>19, FaultAssumption DEF TickFails, Fault
    <2> QED  BY <1>19, <2>1, <2>2 DEF TickFails, Steps, Levels, States, tables
  <1>20. CASE Crash
    <2>1. cleaning' \in [Cleaner -> Cleaning]  BY <1>20, NotCleaningTyped DEF Crash
    <2>2. faults' \in 0 .. MaxFaults  BY <1>20, FaultAssumption DEF Crash, Fault
    <2>3. 0 \in 0 .. PerDay - 1  BY PerDayAssumption
    <2> QED  BY <1>20, <2>1, <2>2, <2>3 DEF Crash, Steps, Levels, States, tables
  <1>21. CASE UNCHANGED vars  BY <1>21 DEF vars, ticker, tables
  <1> QED
    BY <1>1, <1>2, <1>3, <1>4, <1>5, <1>6, <1>7, <1>8, <1>9, <1>10, <1>11, <1>12, <1>13,
       <1>14, <1>15, <1>16, <1>17, <1>18, <1>19, <1>20, <1>21
       DEF Next, TickStep, AdminStep, Cleaner

\* Every reachable state is well typed.
THEOREM TypeCorrect == Spec => []TypeOK
  <1>1. Init => TypeOK  BY TypeInit
  <1>2. TypeOK /\ [Next]_vars => TypeOK'  BY TypeStep
  <1> QED  BY <1>1, <1>2, PTL DEF Spec

-----------------------------------------------------------------------------
(* The history and its window. *)

LEMMA HistoryFinite == TypeOK /\ IsFiniteSet(alert_rows) /\ [Next]_vars => IsFiniteSet(alert_rows)'
  <1> SUFFICES ASSUME TypeOK, IsFiniteSet(alert_rows), [Next]_vars
               PROVE  IsFiniteSet(alert_rows')
    OBVIOUS
  <1>1. ASSUME NEW d \in Delays, NEW crossed \in SUBSET Rule, StartTick(d, crossed)
        PROVE  IsFiniteSet(alert_rows')
    <2> DEFINE aging == [x \in alert_rows |-> Older(x, d)]
    <2>1. aging \in Surjection(alert_rows, Aged(alert_rows, d))  BY DEF Surjection, Aged
    <2>2. IsFiniteSet(Aged(alert_rows, d))  BY <2>1, FS_Surjection
    <2> QED  BY <1>1, <2>2 DEF StartTick
  <1>2. CASE RecordHistory  BY <1>2, FS_AddElement DEF RecordHistory
  <1>3. ASSUME NEW c \in Cleaner, Prune(c)  PROVE IsFiniteSet(alert_rows')
    <2>1. alert_rows' \subseteq alert_rows  BY <1>3 DEF Prune
    <2> QED  BY <2>1, FS_Subset
  <1>4. ASSUME NEW r \in Rule, DeleteRule(r)  PROVE IsFiniteSet(alert_rows')
    <2>1. alert_rows' \subseteq alert_rows  BY <1>4 DEF DeleteRule
    <2> QED  BY <2>1, FS_Subset
  <1>5. CASE UNCHANGED alert_rows  BY <1>5
  <1> QED
    BY <1>1, <1>2, <1>3, <1>4, <1>5
       DEF Next, TickStep, AdminStep, Cleaner, Fire, RecordRefused, EvaluationDone, Evaluate,
           MarketEvent, EventLost, SessionBroken, Upsert, ReadKeep, Stamp, RunRetentionNow,
           CleanFails, SaveEnabled, SaveDays, TickFails, Crash, vars, tables

\* Aging commutes with the window: what is inside after d was inside before.
LEMMA AgingTheWindow ==
  ASSUME NEW rows, rows \subseteq AlertRow, NEW d \in Nat
  PROVE  Recent(Aged(rows, d), RecurrenceWindow)
           = Recent(Aged(Recent(rows, RecurrenceWindow), d), RecurrenceWindow)
  <1>1. ASSUME NEW x \in rows, Older(x, d).age <= RecurrenceWindow
        PROVE  x.age <= RecurrenceWindow
    <2>1. x.age \in 0 .. Oldest  BY DEF AlertRow
    <2>2. Older(x, d).age = IF x.age + d > Oldest THEN Oldest ELSE x.age + d
      BY DEF Older, AlertRow
    <2> QED  BY <1>1, <2>1, <2>2, WindowAssumption
  <1> QED  BY <1>1 DEF Recent, Aged

\* What the retention deletes is outside the window, whatever the settings say.
LEMMA ExpiredIsOutside ==
  ASSUME NEW x \in AlertRow, NEW k \in Keep, Expired(x, k)
  PROVE  ~(x.age <= RecurrenceWindow)
  <1>1. k.days \in KeepDays  BY DEF Keep
  <1>2. Floor(k.days) \in Int /\ Floor(k.days) >= MinDays  BY <1>1, FloorIsADay
  <1>3. MinDays \in Int /\ Day \in Nat  BY DaysAssumption, WindowAssumption
  <1>4. ASSUME NEW a \in Int, NEW b \in Int, NEW n \in Nat, a >= b  PROVE a * n >= b * n
    BY <1>4
  <1>5. Floor(k.days) * Day >= MinDays * Day  BY <1>2, <1>3, <1>4
  <1>6. Floor(k.days) * Day \in Int /\ MinDays * Day \in Int  BY <1>2, <1>3
  <1>7. x.age > Floor(k.days) * Day /\ x.age \in Int  BY DEF Expired, AlertRow
  <1> QED  BY <1>5, <1>6, <1>7, WindowAssumption

LEMMA WindowsStep == TypeOK /\ WindowsIntact /\ [Next]_vars => WindowsIntact'
  <1> SUFFICES ASSUME TypeOK, WindowsIntact, [Next]_vars
               PROVE  Recent(alert_rows', RecurrenceWindow) = fired'
    BY DEF WindowsIntact, Recent
  <1>0. Recent(alert_rows, RecurrenceWindow) = fired  BY DEF WindowsIntact
  <1>1. ASSUME NEW d \in Delays, NEW crossed \in SUBSET Rule, StartTick(d, crossed)
        PROVE  Recent(alert_rows', RecurrenceWindow) = fired'
    <2>1. d \in Nat /\ alert_rows \subseteq AlertRow  BY DelaysAssumption DEF TypeOK
    <2>2. alert_rows' = Aged(alert_rows, d) /\ fired' = Recent(Aged(fired, d), RecurrenceWindow)
      BY <1>1 DEF StartTick
    <2> QED  BY <1>0, <2>1, <2>2, AgingTheWindow
  <1>2. CASE RecordHistory
    <2> DEFINE row == Triggered(cur)
    <2>1. alert_rows' = alert_rows \cup {row} /\ fired' = fired \cup {row}
      BY <1>2 DEF RecordHistory
    <2>2. row.age <= RecurrenceWindow  BY WindowAssumption DEF Triggered
    <2> HIDE DEF row
    <2> QED  BY <1>0, <2>1, <2>2 DEF Recent
  <1>3. ASSUME NEW c \in Cleaner, Prune(c)
        PROVE  Recent(alert_rows', RecurrenceWindow) = fired'
    <2>1. cleaning[c].keep \in Keep  BY DEF TypeOK, Cleaning
    <2>2. alert_rows' = {x \in alert_rows : ~Expired(x, cleaning[c].keep)} /\ fired' = fired
      BY <1>3 DEF Prune
    <2>3. ASSUME NEW x \in alert_rows, x.age <= RecurrenceWindow
          PROVE  ~Expired(x, cleaning[c].keep)
      <3>1. x \in AlertRow  BY DEF TypeOK
      <3> QED  BY <2>1, <2>3, <3>1, ExpiredIsOutside
    <2> QED  BY <1>0, <2>2, <2>3 DEF Recent
  <1>4. ASSUME NEW r \in Rule, DeleteRule(r)
        PROVE  Recent(alert_rows', RecurrenceWindow) = fired'
    BY <1>0, <1>4 DEF DeleteRule, Recent
  <1>5. CASE UNCHANGED << alert_rows, fired >>  BY <1>0, <1>5
  <1> QED
    BY <1>1, <1>2, <1>3, <1>4, <1>5
       DEF Next, TickStep, AdminStep, Cleaner, Fire, RecordRefused, EvaluationDone, Evaluate,
           MarketEvent, EventLost, SessionBroken, Upsert, ReadKeep, Stamp, RunRetentionNow,
           CleanFails, SaveEnabled, SaveDays, TickFails, Crash, vars, tables

-----------------------------------------------------------------------------
(* The market state and its event. *)

LEMMA EventStep == EventFirst /\ [Next]_vars => EventFirst'
  <1> SUFFICES ASSUME EventFirst, [Next]_vars  PROVE EventFirst'  OBVIOUS
  <1>1. ASSUME NEW points \in MovePoints, Evaluate(points)  PROVE EventFirst'
    BY <1>1 DEF Evaluate, EventFirst, tables
  <1>2. CASE MarketEvent  BY <1>2 DEF MarketEvent, EventFirst
  <1>3. CASE UNCHANGED << pc, new_state, market, event >>  BY <1>3 DEF EventFirst
  <1>4. CASE pc' # "upsert"  BY <1>4 DEF EventFirst
  <1> QED
    BY <1>1, <1>2, <1>3, <1>4
       DEF Next, TickStep, AdminStep, StartTick, Fire, RecordHistory, RecordRefused,
           EvaluationDone, EventLost, SessionBroken, Upsert, ReadKeep, Prune, Stamp,
           RunRetentionNow, CleanFails, SaveEnabled, SaveDays, DeleteRule, TickFails, Crash,
           vars, ticker, tables

-----------------------------------------------------------------------------
(* The ticks since the last retention. *)

LEMMA CutOffStep == TypeOK /\ CutOff /\ [Next]_vars => CutOff'
  <1> SUFFICES ASSUME TypeOK, CutOff, [Next]_vars  PROVE CutOff'  OBVIOUS
  <1>a. /\ rules \subseteq Rule /\ faults \in Nat
        /\ cycle_count \in 0 .. PerDay - 1 /\ cycle_count \in Nat /\ ticks_since \in Nat
    BY FaultAssumption, PerDayAssumption DEF TypeOK
  <1>b. Cuts \in Nat /\ Cardinality(Rule \ rules) \in Nat  BY <1>a, CutsAreCounted
  <1>c. PerDay * Cuts \in Nat /\ PerDay * (Cuts + 1) = PerDay * Cuts + PerDay
    BY <1>b, OneMoreCut
  <1>d. ticks_since <= PerDay * Cuts + Counted  BY DEF CutOff
  <1>e. Counted \in Nat /\ Counted <= PerDay /\ cycle_count <= Counted
    BY <1>a, PerDayAssumption DEF Counted
  <1>f. ASSUME cycle_count' \in Nat  PROVE Counted' \in Nat /\ cycle_count' <= Counted'
    BY <1>f, PerDayAssumption DEF Counted
  <1>1. ASSUME NEW d \in Delays, NEW crossed \in SUBSET Rule, StartTick(d, crossed)  PROVE CutOff'
    <2>1. /\ Cuts' = Cuts /\ ticks_since' = ticks_since + 1 /\ pc = "idle"
          /\ pc' = "fire" /\ todo' \subseteq rules'
          /\ cycle_count' = (cycle_count + 1) % PerDay
      BY <1>1 DEF StartTick, Cuts, NextCount
    <2>2. Counted = cycle_count  BY <2>1 DEF Counted
    <2>3. ~Doomed'  BY <2>1 DEF Doomed
    <2>4. Counted' = cycle_count + 1
      <3>1. CASE cycle_count + 1 = PerDay
        <4>1. cycle_count' = 0  BY <2>1, <3>1, PerDayAssumption
        <4> QED  BY <2>1, <2>3, <3>1, <4>1 DEF Counted
      <3>2. CASE cycle_count + 1 < PerDay
        <4>1. cycle_count' = cycle_count + 1  BY <1>a, <2>1, <3>2, PerDayAssumption
        <4>2. cycle_count' # 0  BY <1>a, <4>1
        <4>3. Counted' = cycle_count'  BY <4>2 DEF Counted
        <4> QED  BY <4>1, <4>3
      <3> QED  BY <1>a, <3>1, <3>2, PerDayAssumption
    <2> QED  BY <1>a, <1>c, <1>d, <2>1, <2>2, <2>4 DEF CutOff
  <1>2. CASE /\ UNCHANGED << cycle_count, ticks_since, rules, faults >>
             /\ Counted' >= Counted
    <2>1. Cuts' = Cuts  BY <1>2 DEF Cuts
    <2>2. Counted' \in Nat  BY <1>a, <1>2, <1>f
    <2> QED  BY <1>a, <1>c, <1>d, <1>e, <1>2, <2>1, <2>2 DEF CutOff
  <1>3. CASE /\ UNCHANGED << rules, ticks_since >>
             /\ cycle_count' \in Nat /\ faults' = faults + 1
    <2>1. Cuts' = Cuts + 1  BY <1>a, <1>b, <1>3 DEF Cuts
    <2>2. Counted' \in Nat  BY <1>3, <1>f
    <2>3. ticks_since <= PerDay * (Cuts + 1)  BY <1>a, <1>c, <1>d, <1>e, PerDayAssumption
    <2>4. PerDay * Cuts' = PerDay * (Cuts + 1) /\ PerDay * (Cuts + 1) \in Nat
      BY <1>c, <2>1, PerDayAssumption
    <2> QED  BY <1>a, <1>3, <2>2, <2>3, <2>4 DEF CutOff
  <1>4. ASSUME NEW r \in Rule, DeleteRule(r)  PROVE CutOff'
    <2>1. /\ r \in rules /\ rules' = rules \ {r}
          /\ UNCHANGED << cycle_count, ticks_since, faults >>
      BY <1>4 DEF DeleteRule, ticker
    <2>2. Rule \ rules' = (Rule \ rules) \cup {r} /\ r \notin Rule \ rules  BY <2>1
    <2>3. IsFiniteSet(Rule \ rules)  BY RuleAssumption, FS_Subset
    <2>4. Cardinality(Rule \ rules') = Cardinality(Rule \ rules) + 1
      BY <2>2, <2>3, FS_AddElement
    <2>5. Cuts' = Cuts + 1  BY <1>a, <1>b, <2>1, <2>4 DEF Cuts
    <2>6. Counted' \in Nat  BY <1>a, <1>f, <2>1
    <2>7. ticks_since <= PerDay * (Cuts + 1)  BY <1>a, <1>c, <1>d, <1>e, PerDayAssumption
    <2>8. PerDay * Cuts' = PerDay * (Cuts + 1) /\ PerDay * (Cuts + 1) \in Nat
      BY <1>c, <2>5, PerDayAssumption
    <2> QED  BY <1>a, <2>1, <2>6, <2>7, <2>8 DEF CutOff
  <1>5. ASSUME NEW c \in Cleaner, Stamp(c)  PROVE CutOff'
    <2>1. CASE c = "tick"
      <3>1. ticks_since' = 0 /\ Cuts' = Cuts /\ cycle_count' = cycle_count
        BY <1>5, <2>1 DEF Stamp, Cuts, tables
      <3>2. Counted' \in Nat  BY <1>a, <1>f, <3>1
      <3> QED  BY <1>c, <3>1, <3>2 DEF CutOff
    <2>2. CASE c # "tick"
      <3>1. UNCHANGED << pc, cur, todo, cycle_count, ticks_since, rules, faults >>
        BY <1>5, <2>2 DEF Stamp, tables
      <3>2. Counted' = Counted  BY <3>1 DEF Counted, Doomed
      <3> QED  BY <1>2, <1>e, <3>1, <3>2
    <2> QED  BY <2>1, <2>2
  <1>6. CASE UNCHANGED << pc, cur, todo, cycle_count, ticks_since, rules, faults >>
    <2>1. Counted' = Counted  BY <1>6 DEF Counted, Doomed
    <2> QED  BY <1>2, <1>e, <1>6, <2>1
  <1>7. ASSUME NEW r \in Rule, Fire(r)  PROVE CutOff'
    <2>1. UNCHANGED << cycle_count, ticks_since, rules, faults >> /\ pc' # "idle"
      BY <1>7 DEF Fire, tables
    <2>2. Doomed' => Doomed  BY <1>7 DEF Fire, Doomed, tables
    <2>3. Counted' >= Counted  BY <1>a, <2>1, <2>2, PerDayAssumption DEF Counted
    <2> QED  BY <1>2, <2>1, <2>3
  <1>8. CASE RecordHistory
    <2>1. UNCHANGED << cycle_count, ticks_since, rules, faults >> /\ pc' # "idle"
      BY <1>8 DEF RecordHistory
    <2>2. Doomed' => Doomed  BY <1>8 DEF RecordHistory, Doomed
    <2>3. Counted' >= Counted  BY <1>a, <2>1, <2>2, PerDayAssumption DEF Counted
    <2> QED  BY <1>2, <2>1, <2>3
  <1>9. CASE RecordRefused
    <2>1. UNCHANGED << cycle_count, ticks_since, rules, faults >> /\ pc' = "idle" /\ Doomed
      BY <1>9 DEF RecordRefused, tables, Doomed
    <2>2. Counted' >= Counted  BY <1>a, <2>1 DEF Counted
    <2> QED  BY <1>2, <2>1, <2>2
  <1>10. CASE EvaluationDone
    <2>1. UNCHANGED << cycle_count, ticks_since, rules, faults >> /\ pc' # "idle" /\ ~Doomed'
      BY <1>10 DEF EvaluationDone, tables, Doomed
    <2>2. Counted' >= Counted  BY <1>a, <2>1, PerDayAssumption DEF Counted
    <2> QED  BY <1>2, <2>1, <2>2
  <1>11. ASSUME NEW points \in MovePoints, Evaluate(points)  PROVE CutOff'
    <2>1. UNCHANGED << cycle_count, ticks_since, rules, faults, todo >> /\ pc' # "idle"
      BY <1>11 DEF Evaluate, tables
    <2>2. Doomed' => Doomed  BY <1>11 DEF Evaluate, Doomed, tables
    <2>3. Counted' >= Counted  BY <1>a, <2>1, <2>2, PerDayAssumption DEF Counted
    <2> QED  BY <1>2, <2>1, <2>3
  <1>12. CASE MarketEvent
    <2>1. UNCHANGED << cycle_count, ticks_since, rules, faults, todo >> /\ pc' # "idle"
      BY <1>12 DEF MarketEvent
    <2>2. Doomed' => Doomed  BY <1>12 DEF MarketEvent, Doomed
    <2>3. Counted' >= Counted  BY <1>a, <2>1, <2>2, PerDayAssumption DEF Counted
    <2> QED  BY <1>2, <2>1, <2>3
  <1>13. CASE SessionBroken
    <2>1. UNCHANGED << cycle_count, ticks_since, rules, faults >> /\ pc' = "idle" /\ Doomed
      BY <1>13 DEF SessionBroken, tables, Doomed
    <2>2. Counted' >= Counted  BY <1>a, <2>1 DEF Counted
    <2> QED  BY <1>2, <2>1, <2>2
  <1>14. CASE Upsert
    <2>1. UNCHANGED << cycle_count, ticks_since, rules, faults, todo, cur >> /\ pc = "upsert"
      BY <1>14 DEF Upsert
    <2>2. CASE cycle_count = 0
      <3>1. pc' = "retention"  BY <1>14, <2>2 DEF Upsert, RetentionDue
      <3>2. Doomed' => Doomed  BY <2>1, <3>1 DEF Doomed
      <3>3. Counted' >= Counted  BY <1>a, <2>1, <3>1, <3>2, PerDayAssumption DEF Counted
      <3> QED  BY <1>2, <2>1, <3>3
    <2>3. CASE cycle_count # 0
      <3>1. Counted' >= Counted  BY <1>a, <2>1, <2>3 DEF Counted
      <3> QED  BY <1>2, <2>1, <3>1
    <2> QED  BY <2>2, <2>3
  <1>15. CASE EventLost \/ TickFails \/ CleanFails
    BY <1>3, <1>15, <1>a DEF EventLost, TickFails, CleanFails, Fault, tables, ticker
  <1>16. CASE Crash
    BY <1>3, <1>16 DEF Crash, Fault, tables
  <1> QED
    BY <1>1, <1>4, <1>5, <1>6, <1>7, <1>8, <1>9, <1>10, <1>11, <1>12, <1>13, <1>14, <1>15, <1>16
       DEF Next, TickStep, AdminStep, Cleaner, ReadKeep, Prune, RunRetentionNow, SaveEnabled,
           SaveDays, vars, ticker, tables

-----------------------------------------------------------------------------
(* The theorems. *)

\* The invariant is inductive.
THEOREM Invariant == Spec => []IInv
  <1>1. Init => IInv
    <2> SUFFICES ASSUME Init  PROVE IInv  OBVIOUS
    <2>1. TypeOK  BY TypeInit
    <2>2. IsFiniteSet(alert_rows)  BY FS_EmptySet DEF Init
    <2>3. WindowsIntact /\ EventFirst  BY DEF Init, WindowsIntact, Recent, EventFirst
    <2>4. CutOff
      <3>1. PerDay * Cuts \in Nat
        BY CutsAreCounted, OneMoreCut, <2>1, FaultAssumption DEF TypeOK
      <3>2. Counted = 0 /\ ticks_since = 0  BY DEF Init, Counted
      <3> QED  BY <3>1, <3>2 DEF CutOff
    <2> QED  BY <2>1, <2>2, <2>3, <2>4 DEF IInv
  <1>2. IInv /\ [Next]_vars => IInv'
    BY TypeStep, HistoryFinite, WindowsStep, EventStep, CutOffStep DEF IInv
  <1> QED  BY <1>1, <1>2, PTL DEF Spec

\* Severity and market state are computed from rows the retention cannot delete,
\* whatever the settings say.
THEOREM NoWindowIsPruned == Spec => []WindowsIntact
  <1>1. IInv => WindowsIntact  BY DEF IInv
  <1> QED  BY <1>1, Invariant, PTL

\* Every PerDay-th tick runs the retention, but for failures and deleted rules.
THEOREM RetentionComes == Spec => []RetentionIsDaily
  <1>1. IInv => RetentionIsDaily
    <2> SUFFICES ASSUME IInv  PROVE RetentionIsDaily  OBVIOUS
    <2>1. /\ rules \subseteq Rule /\ faults \in Nat
          /\ cycle_count \in 0 .. PerDay - 1 /\ ticks_since \in Nat
      BY FaultAssumption DEF IInv, TypeOK
    <2>2. Cuts \in Nat /\ Cardinality(Rule \ rules) \in Nat  BY <2>1, CutsAreCounted
    <2>3. PerDay * Cuts \in Nat /\ PerDay * (Cuts + 1) = PerDay * Cuts + PerDay
      BY <2>2, OneMoreCut
    <2>4. Counted \in Nat /\ Counted <= PerDay  BY <2>1, PerDayAssumption DEF Counted
    <2>5. ticks_since <= PerDay * (Cuts + 1)
      BY <2>1, <2>3, <2>4, PerDayAssumption DEF IInv, CutOff
    <2>6. Cuts + 1 = 1 + faults + Cardinality(Rule \ rules)  BY <2>1, <2>2 DEF Cuts
    <2> QED  BY <2>5, <2>6 DEF RetentionIsDaily
  <1> QED  BY <1>1, Invariant, PTL

\* An alert of a rule that fired within a day is at least elevated.
THEOREM RepetitionIsLoud == Spec => RepeatEscalates
  <1>1. IInv /\ [Next]_vars =>
          [\A r \in Rule :
              (/\ pc = "fire" /\ pc' = "record" /\ cur' = r
               /\ \E x \in fired : x.rule = r)
                  => severity' \in {"elevated", "critical"}]_vars
    <2> SUFFICES ASSUME IInv, [Next]_vars, NEW r \in Rule,
                        pc = "fire", pc' = "record", cur' = r,
                        NEW x \in fired, x.rule = r
                 PROVE  severity' \in {"elevated", "critical"}
      OBVIOUS
    <2>1. Fire(r)
      <3>1. ASSUME NEW c \in Cleaner, Stamp(c)  PROVE FALSE  BY <3>1 DEF Stamp
      <3> QED
        BY <3>1 DEF Next, TickStep, AdminStep, Cleaner, StartTick, Fire, RecordHistory,
           RecordRefused, EvaluationDone, Evaluate, MarketEvent, EventLost, SessionBroken,
           Upsert, ReadKeep, Prune, RunRetentionNow, CleanFails, SaveEnabled, SaveDays,
           DeleteRule, TickFails, Crash, vars, ticker
    <2>2. Recurrence(r) \in Nat /\ Recurrence(r) >= 1
      <3> DEFINE Prior == {y \in Recent(alert_rows, RecurrenceWindow) : y.rule = r}
      <3>1. IsFiniteSet(Prior)
        <4>1. IsFiniteSet(alert_rows) /\ Prior \subseteq alert_rows  BY DEF IInv, Recent
        <4> QED  BY <4>1, FS_Subset
      <3>2. x \in Prior  BY DEF IInv, WindowsIntact
      <3>3. Cardinality(Prior) \in Nat /\ Cardinality(Prior) # 0
        BY <3>1, <3>2, FS_CardinalityType, FS_EmptySet
      <3> QED  BY <3>3 DEF Recurrence
    <2>3. RecurrenceScore(r) \in Nat /\ RecurrenceScore(r) >= 15
      BY <2>2 DEF RecurrenceScore
    <2>4. MultiScore \in Nat /\ ImportanceScore(r) \in Nat
      BY DEF MultiScore, ImportanceScore
    <2>5. RecurrenceScore(r) + MultiScore + ImportanceScore(r) \in Nat
      BY <2>3, <2>4
    <2>6. RecurrenceScore(r) + MultiScore + ImportanceScore(r) >= 15
      BY <2>3, <2>4
    <2>7. ComputeSeverity(r) \in {"elevated", "critical"}
      BY <2>5, <2>6 DEF ComputeSeverity, Level
    <2> QED  BY <2>1, <2>7 DEF Fire
  <1> QED  BY <1>1, Invariant, PTL DEF Spec, RepeatEscalates

\* A market state is saved only after its event has been.
THEOREM ChangesAreAnnounced == Spec => NoSilentChange
  <1>1. IInv /\ [Next]_vars =>
          [market' # market => event = [from |-> market, to |-> market']]_vars
    <2> SUFFICES ASSUME IInv, [Next]_vars, market' # market
                 PROVE  event = [from |-> market, to |-> market']
      OBVIOUS
    <2>1. Upsert
      BY DEF Next, TickStep, AdminStep, StartTick, Fire, RecordHistory, RecordRefused,
         EvaluationDone, Evaluate, MarketEvent, EventLost, SessionBroken, Upsert, ReadKeep,
         Prune, Stamp, RunRetentionNow, CleanFails, SaveEnabled, SaveDays, DeleteRule,
         TickFails, Crash, vars, tables
    <2> QED  BY <2>1 DEF Upsert, IInv, EventFirst
  <1> QED  BY <1>1, Invariant, PTL DEF Spec, NoSilentChange
===============================================================================
