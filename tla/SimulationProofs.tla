--------------------------- MODULE SimulationProofs ---------------------------
(***************************************************************************)
(* For every set of rules and every series of prices, the replay fires     *)
(* where the engine's evaluation does, and its triggers make sense.        *)
(***************************************************************************)
EXTENDS Simulation, TLAPS

\* A side is one of the two recorded states.
LEMMA SideType == \A price : Side(price) \in LastStates \ {"none"}
BY DEF Side, CurrentState, LastStates, Sides

\* Type correctness of the replay.
THEOREM TypeCorrect == Spec => []TypeOK
<1>1. Init => TypeOK
  BY BoundsAssumption DEF Init, TypeOK, Times, LastStates
<1>2. TypeOK /\ [Next]_vars => TypeOK'
  <2> SUFFICES ASSUME TypeOK, [Next]_vars PROVE TypeOK'
    OBVIOUS
  <2>1. ASSUME NEW t \in Times, Disarmed(t) PROVE TypeOK'
    BY <2>1, BoundsAssumption DEF Disarmed, Point, TypeOK, state, result
  <2>2. ASSUME NEW t \in Times, NEW price, Quiet(t, price),
               skipped_cooldown' \in Nat, skipped_time_filter' \in Nat
        PROVE  TypeOK'
    BY <2>2, SideType, BoundsAssumption DEF Quiet, Point, TypeOK
  <2>3. ASSUME NEW t \in Times, NEW price \in Price, WouldTrigger(t, price) PROVE TypeOK'
    <3>1. [triggered_at |-> t, previous_state |-> last_state] \in Trigger
      BY DEF TypeOK, Trigger
    <3>2. triggers' \in Seq(Trigger)
      BY <2>3, <3>1 DEF WouldTrigger, TypeOK
    <3>3. active' \in BOOLEAN
      BY <2>3 DEF WouldTrigger, TypeOK
    <3> QED
      BY <2>3, <3>2, <3>3, SideType, BoundsAssumption DEF WouldTrigger, Point, TypeOK
  <2>4. CASE UNCHANGED vars
    BY <2>4 DEF vars, state, result, TypeOK
  <2> QED
    BY <2>1, <2>2, <2>3, <2>4 DEF Next, OutsideWindow, NoCrossing, CooldownSkip, TypeOK
<1> QED
  BY <1>1, <1>2, PTL DEF Spec

\* The instance evaluates rules by the very operators of the replay.
LEMMA SameOperators ==
  /\ Engine!Never = Never /\ Engine!Unset = Unset
  /\ \A p, th : Engine!CurrentState(p, th) = CurrentState(p, th)
  /\ \A row, p, t : Engine!ShouldTrigger(row, p, t) <=> ShouldTrigger(row, p, t)
  /\ \A c, t : Engine!PassesWindow(c, t) <=> PassesWindow(c, t)
BY DEF Engine!Never, Never, Engine!Unset, Unset, Engine!CurrentState, CurrentState,
       Engine!ShouldTrigger, ShouldTrigger, Engine!Crossing, Crossing,
       Engine!CooledDown, CooledDown, Engine!PassesWindow, PassesWindow,
       Engine!InActiveWindow, InActiveWindow, Engine!InHours, InHours,
       Engine!LocalTime, LocalTime

\* The replay asks the engine's questions in another order; the answers agree.
LEMMA SameAnswer ==
  ASSUME TypeOK, NEW t \in Times, NEW price
  PROVE  Engine!Fires(t, price)
            <=> SimInWindow(t) /\ SimCrossing(Side(price)) /\ ~InCooldown(t)
<1>1. PassesWindow(config, t) <=> SimInWindow(t)
  BY DEF PassesWindow, InActiveWindow, SimInWindow
<1>2. Crossing(config.condition, last_state, Side(price)) <=> SimCrossing(Side(price))
  BY SideType DEF Crossing, SimCrossing
<1>3. CooledDown(config.cooldown_minutes, last_triggered_at, t) <=> ~InCooldown(t)
  <2>1. t \in Int /\ last_triggered_at \in Int /\ config.cooldown_minutes \in Int
    BY FormsAssumption, BoundsAssumption DEF TypeOK, Times, Never
  <2> QED
    BY <2>1 DEF CooledDown, InCooldown
<1> QED
  BY <1>1, <1>2, <1>3, SameOperators DEF Engine!Fires, ShouldTrigger, Side

\* "mirrors alert_engine.py exactly": the replay implements OneRule.
THEOREM Mirrors == Spec => MirrorsEngine
<1>1. Init => Engine!Init
  BY SameOperators DEF Init, Engine!Init
<1>2. TypeOK /\ [Next]_vars => [Engine!Next]_(Engine!vars)
  <2> SUFFICES ASSUME TypeOK, [Next]_vars PROVE Engine!Next \/ UNCHANGED Engine!vars
    OBVIOUS
  <2>1. ASSUME NEW t \in Times, Disarmed(t) PROVE Engine!Next
    BY <2>1 DEF Disarmed, Point, state, Engine!Next, Engine!Rest
  <2>2. ASSUME NEW t \in Times, NEW price \in Price, Quiet(t, price), ~Engine!Fires(t, price)
        PROVE  Engine!Next
    BY <2>2, SameOperators DEF Quiet, Point, Side, Engine!Next, Engine!Look, Engine!Record
  <2>3. ASSUME NEW t \in Times, NEW price \in Price, WouldTrigger(t, price)
        PROVE  Engine!Next
    <3>1. Engine!Fires(t, price)
      BY <2>3, SameAnswer DEF WouldTrigger
    <3> QED
      BY <2>3, <3>1, SameOperators DEF WouldTrigger, Point, Side, Engine!Next, Engine!Fire, Engine!Record
  <2>4. CASE UNCHANGED vars
    BY <2>4 DEF vars, state, Engine!vars
  <2> QED
    BY <2>1, <2>2, <2>3, <2>4, SameAnswer DEF Next, OutsideWindow, NoCrossing, CooldownSkip
<1> QED
  BY <1>1, <1>2, TypeCorrect, PTL DEF Spec, MirrorsEngine, Engine!Spec

-----------------------------------------------------------------------------
(* The reported triggers. *)

\* What the replay remembers of the triggers it has reported.
Remembered ==
    /\ triggers = << >> <=> last_triggered_at = Never
    /\ \A i \in DOMAIN triggers : triggers[i].triggered_at <= last_triggered_at
    /\ triggers # << >> => last_state # "none"
    /\ config.send_once => Len(triggers) = (IF active THEN 0 ELSE 1)

LEMMA TriggerAppended ==
  ASSUME TypeOK, Remembered, TriggersMakeSense,
         NEW t \in Times, NEW price \in Price, WouldTrigger(t, price)
  PROVE  Remembered' /\ TriggersMakeSense'
<1> DEFINE e == [triggered_at |-> t, previous_state |-> last_state]
           n == Len(triggers)
<1>1. /\ t \in Int /\ last_triggered_at \in Int /\ config.cooldown_minutes \in Nat
      /\ config' = config
  BY FormsAssumption, BoundsAssumption DEF TypeOK, Times, Never, WouldTrigger, Point
<1>2. /\ n \in Nat /\ DOMAIN triggers = 1 .. n /\ Len(triggers') = n + 1
      /\ DOMAIN triggers' = 1 .. n + 1 /\ triggers'[n + 1] = e
      /\ \A i \in 1 .. n : triggers'[i] = triggers[i] /\ triggers[i].triggered_at \in Int
  <2>1. triggers \in Seq(Trigger) /\ e \in Trigger /\ triggers' = Append(triggers, e)
    BY DEF TypeOK, Trigger, WouldTrigger
  <2>2. \A i \in 1 .. n : triggers[i] \in Trigger
    BY <2>1
  <2>3. \A i \in 1 .. n : triggers[i].triggered_at \in Int
    BY <2>2, BoundsAssumption DEF Trigger, Times
  <2> HIDE DEF e
  <2> QED
    BY <2>1, <2>3
<1>3. /\ n = 0 \/ t - last_triggered_at >= config.cooldown_minutes
      /\ n > 0 => last_state # "none"
      /\ n = 0 <=> triggers = << >>
  BY <1>1, <1>2 DEF WouldTrigger, InCooldown, Remembered
<1>4. \A i \in 1 .. n : t - triggers[i].triggered_at >= config.cooldown_minutes
  BY <1>1, <1>2, <1>3 DEF Remembered
<1>5. last_state # config.condition /\ Side(price) # "none" /\ active
      /\ active' = ~config.send_once /\ last_state' = Side(price) /\ last_triggered_at' = t
  BY SideType DEF WouldTrigger, SimCrossing
<1>6. config.send_once => n = 0
  BY <1>2, <1>5 DEF Remembered
<1>7. Remembered'
  <2>1. triggers' # << >> /\ last_triggered_at' # Never
    BY <1>1, <1>2, <1>5, BoundsAssumption DEF Times, Never
  <2>2. \A i \in DOMAIN triggers' : triggers'[i].triggered_at <= last_triggered_at'
    BY <1>1, <1>2, <1>4, <1>5
  <2>3. config'.send_once => Len(triggers') = (IF active' THEN 0 ELSE 1)
    <3>1. config.send_once => ~active'
      BY <1>5 DEF TypeOK
    <3> QED
      BY <1>1, <1>2, <1>6, <3>1
  <2> QED
    BY <1>5, <2>1, <2>2, <2>3 DEF Remembered
<1>8. TriggersMakeSense'
  <2>1. \A i, j \in DOMAIN triggers' :
            i < j => triggers'[j].triggered_at - triggers'[i].triggered_at
                        >= config'.cooldown_minutes
    BY <1>1, <1>2, <1>4 DEF TriggersMakeSense
  <2>2. \A i \in DOMAIN triggers' : /\ triggers'[i].previous_state # config'.condition
                                    /\ i > 1 => triggers'[i].previous_state # "none"
    BY <1>1, <1>2, <1>3, <1>5 DEF TriggersMakeSense
  <2>3. config'.send_once => Len(triggers') <= 1
    BY <1>1, <1>2, <1>6
  <2> QED
    BY <2>1, <2>2, <2>3 DEF TriggersMakeSense
<1> QED
  BY <1>7, <1>8

\* A rule's reported triggers are a cooldown apart, are crossings, and are one
\* at most with send_once.
THEOREM TriggersAlwaysMakeSense == Spec => []TriggersMakeSense
<1>1. Init => Remembered /\ TriggersMakeSense
  BY DEF Init, Remembered, TriggersMakeSense
<1>2. TypeOK /\ Remembered /\ TriggersMakeSense /\ [Next]_vars
        => Remembered' /\ TriggersMakeSense'
  <2> SUFFICES ASSUME TypeOK, Remembered, TriggersMakeSense, [Next]_vars
               PROVE  Remembered' /\ TriggersMakeSense'
    OBVIOUS
  <2>1. ASSUME UNCHANGED << triggers, last_triggered_at, active, config >>,
               last_state' = last_state \/ last_state' # "none"
        PROVE  Remembered' /\ TriggersMakeSense'
    BY <2>1 DEF Remembered, TriggersMakeSense
  <2>2. ASSUME NEW t \in Times, Disarmed(t) PROVE Remembered' /\ TriggersMakeSense'
    BY <2>1, <2>2 DEF Disarmed, Point, state, result
  <2>3. ASSUME NEW t \in Times, NEW price \in Price, Quiet(t, price)
        PROVE  Remembered' /\ TriggersMakeSense'
    BY <2>1, <2>3, SideType DEF Quiet, Point
  <2>4. CASE UNCHANGED vars
    BY <2>1, <2>4 DEF vars, state, result
  <2> QED
    BY <2>2, <2>3, <2>4, TriggerAppended DEF Next, OutsideWindow, NoCrossing, CooldownSkip
<1> QED
  BY <1>1, <1>2, TypeCorrect, PTL DEF Spec

=============================================================================
