-------------------------- MODULE AlertEngineProofs --------------------------
(***************************************************************************)
(* What TLAPS proves of AlertEngine, for every set of rules, clients,      *)
(* pairs, prices and forms and for every bound.                            *)
(***************************************************************************)
EXTENDS AlertEngineImplements, SequenceTheorems, TLAPS

-----------------------------------------------------------------------------
(* The types of the operators the actions are built from. *)

\* A row made from a form is a row.
LEMMA NewRowType == ASSUME NEW form \in Config PROVE NewRow(form) \in Row
BY DEF NewRow, Row, LastStates, Never

\* The placeholders of an idle session and an idle client are well typed.
LEMMA Placeholders == BlankRow \in Row /\ AnyRule \in RuleId /\ NoRequest \in Request
<1>1. (CHOOSE f \in Forms : TRUE) \in Config
  BY FormsAssumption
<1>2. BlankRow \in Row
  BY <1>1, NewRowType DEF BlankRow
<1>3. AnyRule \in RuleId
  BY RuleAssumption DEF AnyRule
<1> QED
  BY <1>2, <1>3 DEF NoRequest, Request

\* A flush of well-typed rows stores a well-typed row.
LEMMA MergeConfigType ==
  ASSUME NEW a \in Config, NEW b \in Config, NEW c \in Config
  PROVE  MergeConfig(a, b, c) \in Config
BY DEF MergeConfig, Written, Config

LEMMA FlushType ==
  ASSUME NEW a \in Row, NEW b \in Row, NEW c \in Row
  PROVE  Flush(a, b, c) \in Row
<1>1. a.config \in Config /\ b.config \in Config /\ c.config \in Config
  BY DEF Row
<1>2. MergeConfig(a.config, b.config, c.config) \in Config
  BY <1>1, MergeConfigType
<1> QED
  BY <1>2 DEF Flush, Written, Row

\* What an edit and a clone make of a configuration is one.
LEMMA EditedConfigType ==
  ASSUME NEW a \in Config, NEW form \in Config
  PROVE  EditedConfig(a, form) \in Config
BY DEF EditedConfig, Config

LEMMA CloneConfigType ==
  ASSUME NEW a \in Config PROVE CloneConfig(a) \in Config
BY ZoneAssumption DEF CloneConfig, Config

LEMMA SideType == \A p, t \in Int : CurrentState(p, t) \in LastStates
BY DEF CurrentState, LastStates, Sides

\* Marking one row of a history leaves a history.
LEMMA PatchType ==
  ASSUME NEW s \in Seq(HistoryRow), NEW i \in Nat
  PROVE  [s EXCEPT ![i].status = "patched"] \in Seq(HistoryRow)
<1> DEFINE t == [s EXCEPT ![i].status = "patched"]
<1>1. s \in [1 .. Len(s) -> HistoryRow] /\ Len(s) \in Nat
  OBVIOUS
<1>2. t \in [1 .. Len(s) -> HistoryRow]
  BY <1>1 DEF HistoryRow
<1> QED
  BY <1>1, <1>2, SeqDef

\* So does pruning some of its rows: the rows keep their places.
LEMMA PrunedRows ==
  ASSUME NEW s \in Seq(HistoryRow), NEW cutoff, NEW t,
         t = [i \in DOMAIN s |-> IF s[i].at < cutoff THEN Pruned ELSE s[i]]
  PROVE  t \in Seq(HistoryRow) /\ Len(t) = Len(s) /\ DOMAIN t = DOMAIN s
<1>1. s \in [1 .. Len(s) -> HistoryRow] /\ Len(s) \in Nat /\ DOMAIN s = 1 .. Len(s)
  OBVIOUS
<1>2. Pruned \in HistoryRow
  BY DEF Pruned, HistoryRow
<1>3. t \in [1 .. Len(s) -> HistoryRow]
  BY <1>1, <1>2
<1>4. t \in Seq(HistoryRow)
  BY <1>1, <1>3, SeqDef
<1>5. DOMAIN t = 1 .. Len(s) /\ DOMAIN t = 1 .. Len(t) /\ Len(t) \in Nat
  BY <1>3, <1>4, LenProperties
<1>6. Len(t) = Len(s)
  BY <1>1, <1>5
<1> QED
  BY <1>1, <1>4, <1>5, <1>6

-----------------------------------------------------------------------------
(* Type correctness. *)

LEMMA InitType == Init => TypeOK
BY Placeholders, FormsAssumption
   DEF Init, TypeOK, Steps, Unseen, Observation, NoPrice, BlankRow, NewRow, Row, Config, Never

\* What the session and the observers receive is well typed.
LEMMA ObserveType ==
  ASSUME TypeOK, NEW r \in RuleId, NEW t \in Nat, Observe(r, t)
  PROVE  seen' \in [RuleId -> Observation]
<1>1. held[r].config \in Config
  BY DEF TypeOK, Row
<1>2. held[r].config.pair \in Pair /\ held[r].config.threshold \in Int
  BY <1>1 DEF Config
<1>3. PriceOf(r) \in Nat
  <2>1. prices \in [Pair -> Price \cup {NoPrice}]
    BY DEF TypeOK
  <2>2. Price \cup {NoPrice} \subseteq Nat
    BY PriceAssumption DEF NoPrice
  <2> QED
    BY <1>2, <2>1, <2>2 DEF PriceOf
<1>4. [at |-> t, price |-> PriceOf(r), pair |-> held[r].config.pair,
       threshold |-> held[r].config.threshold] \in Observation
  BY <1>2, <1>3 DEF Observation
<1> QED
  BY <1>4 DEF TypeOK, Observe

LEMMA UpdateType ==
  ASSUME TypeOK, NEW r \in RuleId, NEW new \in Row, UpdateRuleState(r, new)
  PROVE  rules' \in [RuleId -> Row] /\ held' \in [RuleId -> Row]
<1>1. Flush(rules[r], held[r], new) \in Row
  BY FlushType DEF TypeOK
<1> QED
  BY <1>1 DEF TypeOK, UpdateRuleState

LEMMA SidedRowType ==
  ASSUME TypeOK, NEW r \in RuleId
  PROVE  [held[r] EXCEPT !.last_state = SideOf(r)] \in Row
<1>1. SideOf(r) \in LastStates
  BY DEF SideOf, CurrentState, LastStates, Sides
<1> QED
  BY <1>1 DEF TypeOK, Row

LEMMA FiredRowType ==
  ASSUME TypeOK PROVE FiredRow(held[cur]) \in Row
<1>1. SideOf(cur) \in LastStates
  BY DEF SideOf, CurrentState, LastStates, Sides
<1>2. held[cur].config.send_once \in BOOLEAN
  BY DEF TypeOK, Row, Config
<1> QED
  BY <1>1, <1>2, ZenonT(60) DEF TypeOK, FiredRow, Row

LEMMA EndSessionType ==
  ASSUME TypeOK, EndSession
  PROVE  /\ pc' \in Steps /\ todo' \in SUBSET RuleId /\ cur' \in RuleId
         /\ held' \in [RuleId -> Row] /\ firedAt' \in Nat /\ dirty' \in SUBSET RuleId
BY Placeholders DEF EndSession, Steps

LEMMA AbortType == TypeOK /\ Abort /\ faults' \in Nat => TypeOK'
BY EndSessionType DEF Abort, TypeOK, database

\* A client's commit through an ORM session.
LEMMA TouchType ==
  ASSUME TypeOK, NEW r \in RuleId, Touch(r)
  PROVE  /\ dirty' \in SUBSET RuleId /\ sinceWrite' \in [RuleId -> Nat]
         /\ UNCHANGED << open, lastSentAt, seen >>
BY DEF Touch, TypeOK

LEMMA SaveType ==
  ASSUME TypeOK, NEW c \in Client, NEW new \in Row, Save(c, new),
         UNCHANGED << tick, now, faults >>, request' \in [Client -> Request]
  PROVE  TypeOK'
<1> DEFINE r == request[c].rule
<1>1. r \in RuleId /\ request[c].row \in Row
  BY DEF TypeOK, Request
<1>2. CASE existence[r] = "live"
  <2>1. Flush(rules[r], request[c].row, new) \in Row
    BY <1>1, FlushType DEF TypeOK
  <2>2. Touch(r)
    BY <1>2 DEF Save
  <2>3. rules' \in [RuleId -> Row]
    BY <1>1, <1>2, <2>1 DEF Save, TypeOK
  <2> QED
    BY <1>1, <1>2, <2>2, <2>3, TouchType DEF Save, TypeOK, tick
<1>3. CASE existence[r] # "live"
  BY <1>3 DEF Save, TypeOK, tick, database, observers
<1> QED
  BY <1>2, <1>3

LEMMA InsertType ==
  ASSUME TypeOK, NEW r \in RuleId, NEW row \in Row, Insert(r, row), Touch(r),
         UNCHANGED << tick, now, faults >>, request' \in [Client -> Request]
  PROVE  TypeOK'
BY TouchType DEF Insert, TypeOK, tick

\* One step of the tick.
LEMMA EngineType == TypeOK /\ (StartTick \/ EngineStep) => TypeOK'
<1> SUFFICES ASSUME TypeOK, StartTick \/ EngineStep PROVE TypeOK'
  OBVIOUS
<1> USE DEF database, tick, observers
<1>1. CASE StartTick
  <2>1. todo' \in SUBSET RuleId /\ held' \in [RuleId -> Row]
    BY <1>1, Placeholders DEF StartTick, TypeOK
  <2> QED
    BY <1>1, <2>1 DEF StartTick, TypeOK, Steps
<1>2. CASE FetchPrices
  <2>1. prices' \in [Pair -> Price \cup {NoPrice}]
    BY <1>2 DEF FetchPrices, TypeOK
  <2> QED
    BY <1>2, <2>1 DEF FetchPrices, TypeOK, Steps
<1>3. CASE FetchFails
  BY <1>3, EndSessionType DEF FetchFails, TypeOK
<1>4. ASSUME NEW r \in RuleId, Evaluate(r) PROVE TypeOK'
  <2>1. CASE SkipUnpriced(r)
    BY <2>1 DEF SkipUnpriced, TypeOK
  <2>2. CASE TrackState(r)
    <3>1. seen' \in [RuleId -> Observation]
      BY <2>2, ObserveType DEF TrackState, TypeOK
    <3>2. rules' \in [RuleId -> Row] /\ held' \in [RuleId -> Row]
      BY <2>2, UpdateType, SidedRowType DEF TrackState, NewSide, TypeOK
    <3>3. cur' \in RuleId /\ pc' \in Steps
      BY <2>2 DEF TrackState, NewSide, TypeOK, Steps, Reloading
    <3> QED
      BY <2>2, <3>1, <3>2, <3>3 DEF TrackState, TakeRule, TypeOK
  <2>3. CASE StartFire(r)
    BY <2>3 DEF StartFire, Trigger, TakeRule, TypeOK, Steps, Firing
  <2>4. CASE StartSuppress(r)
    BY <2>4 DEF StartSuppress, Trigger, TakeRule, TypeOK, Steps, Suppressing
  <2>5. CASE RowGone(r)
    BY <2>5, AbortType DEF RowGone, TypeOK
  <2> QED
    BY <1>4, <2>1, <2>2, <2>3, <2>4, <2>5 DEF Evaluate
<1>5. CASE SuppressEvent
  BY <1>5, BoundsAssumption DEF SuppressEvent, WriteEvent, TypeOK, Steps, Suppressing
<1>6. CASE SuppressState
  <2>1. cur \in RuleId
    BY DEF TypeOK
  <2>2. seen' \in [RuleId -> Observation]
    BY <1>6, <2>1, ObserveType DEF SuppressState, TypeOK
  <2>3. rules' \in [RuleId -> Row] /\ held' \in [RuleId -> Row]
    BY <1>6, <2>1, UpdateType, SidedRowType DEF SuppressState
  <2> QED
    BY <1>6, <2>2, <2>3 DEF SuppressState, TypeOK, Steps, Reloading
<1>7. CASE SendAlert
  BY <1>7 DEF SendAlert, TypeOK, Steps, Firing
<1>8. CASE RecordHistory
  <2>1. Append(history[cur], [at |-> now, status |-> "log"]) \in Seq(HistoryRow)
    BY DEF TypeOK, HistoryRow
  <2> QED
    BY <1>8, <2>1 DEF RecordHistory, TypeOK, Steps, Firing
<1>9. CASE PatchHistory
  <2>1. [history[cur] EXCEPT ![Len(history[cur])].status = "patched"] \in Seq(HistoryRow)
    <3>1. history[cur] \in Seq(HistoryRow) /\ Len(history[cur]) \in Nat
      BY DEF TypeOK
    <3> QED
      BY <3>1, PatchType
  <2> QED
    BY <1>9, <2>1 DEF PatchHistory, TypeOK, Steps, Firing
<1>10. CASE RecordFiring
  <2>1. seen' \in [RuleId -> Observation]
    BY <1>10, ObserveType DEF RecordFiring, TypeOK
  <2>2. rules' \in [RuleId -> Row] /\ held' \in [RuleId -> Row]
    BY <1>10, UpdateType, FiredRowType DEF RecordFiring, TypeOK
  <2> QED
    BY <1>10, <2>1, <2>2 DEF RecordFiring, TypeOK, Steps, Reloading
<1>11. CASE TriggeredEvent
  BY <1>11, BoundsAssumption DEF TriggeredEvent, WriteEvent, TypeOK, Steps
<1>12. CASE SessionBroken \/ EndTick
  BY <1>12, AbortType DEF SessionBroken, EndTick, TypeOK
<1>13. CASE ReloadSide \/ ReloadFired
  <2>1. held' \in [RuleId -> Row]
    BY <1>13 DEF ReloadSide, ReloadFired, Reload, TypeOK
  <2> QED
    BY <1>13, <2>1 DEF ReloadSide, ReloadFired, Reload, TypeOK, Steps
<1>14. CASE RecordPruned
  <2>1. faults' \in Nat /\ Abort
    BY <1>14 DEF RecordPruned, TypeOK
  <2> QED
    BY <2>1, AbortType
<1> QED
  BY <1>1, <1>2, <1>3, <1>4, <1>5, <1>6, <1>7, <1>8, <1>9, <1>10, <1>11, <1>12, <1>13, <1>14
     DEF EngineStep

\* One step of a handler.
LEMMA HandlerType ==
  ASSUME TypeOK, NEW c \in Client, Handler(c) PROVE TypeOK'
<1>1. request[c] \in Request /\ request[c].rule \in RuleId /\ request[c].row \in Row
  BY DEF TypeOK, Request
<1>2. ASSUME NEW op \in Operations, Finish(c, op)
      PROVE  request' \in [Client -> Request] /\ UNCHANGED << tick, now, faults >>
  BY <1>2, Placeholders DEF Finish, TypeOK
<1>3. ASSUME NEW op \in Operations, NEW r \in RuleId, LoadRule(c, op, r) PROVE TypeOK'
  <2>1. [op |-> op, rule |-> r, row |-> rules[r]] \in Request
    BY DEF TypeOK, Request
  <2> QED
    BY <1>3, <2>1 DEF LoadRule, TypeOK, database, tick, observers
<1>4. ASSUME NEW form \in Forms, EditRule(c, form) PROVE TypeOK'
  <2>1. EditedConfig(request[c].row.config, form) \in Config
    BY <1>1, FormsAssumption, EditedConfigType DEF Row
  <2>2. [request[c].row EXCEPT !.config = EditedConfig(@, form)] \in Row
    BY <1>1, <2>1 DEF Row
  <2> QED
    BY <1>2, <1>4, <2>2, SaveType DEF EditRule, Operations
<1>5. CASE ToggleRule(c)
  <2>1. [request[c].row EXCEPT !.is_active = ~@] \in Row
    BY <1>1 DEF Row
  <2> QED
    BY <1>2, <1>5, <2>1, SaveType DEF ToggleRule, Operations
<1>6. ASSUME NEW r \in RuleId, CloneRule(c, r) PROVE TypeOK'
  <2>1. NewRow(CloneConfig(request[c].row.config)) \in Row
    BY <1>1, CloneConfigType, NewRowType DEF Row
  <2>2. [NewRow(CloneConfig(request[c].row.config)) EXCEPT !.is_active = FALSE] \in Row
    BY <2>1 DEF Row
  <2> QED
    BY <1>2, <1>6, <2>2, InsertType DEF CloneRule, Operations
<1>7. CASE DeleteRule(c)
  <2>1. request' \in [Client -> Request] /\ UNCHANGED << tick, now, faults >>
    BY <1>2, <1>7 DEF DeleteRule, Operations
  <2>2. rules' \in [RuleId -> Row] /\ history' \in [RuleId -> Seq(HistoryRow)]
    <3>1. << >> \in Seq(HistoryRow)
      OBVIOUS
    <3> QED
      BY <1>7, <3>1, Placeholders DEF DeleteRule, TypeOK
  <2>3. Touch(request[c].rule)
    BY <1>7 DEF DeleteRule
  <2> QED
    BY <1>1, <1>7, <2>1, <2>2, <2>3, TouchType DEF DeleteRule, TypeOK, tick
<1> QED
  BY <1>3, <1>4, <1>5, <1>6, <1>7 DEF Handler

\* One step of the environment.
LEMMA EnvironmentType == TypeOK /\ Environment => TypeOK'
<1> SUFFICES ASSUME TypeOK, Environment PROVE TypeOK'
  OBVIOUS
<1>1. ASSUME NEW r \in RuleId, NEW form \in Forms, CreateRule(r, form) PROVE TypeOK'
  <2>1. NewRow(form) \in Row
    BY FormsAssumption, NewRowType
  <2> QED
    BY <1>1, <2>1, InsertType DEF CreateRule, TypeOK
<1>2. CASE TickFails
  <2>1. faults' \in Nat /\ Abort
    BY <1>2 DEF TickFails, TypeOK
  <2> QED
    BY <2>1, AbortType
<1>3. CASE Crash
  <2>1. request' \in [Client -> Request] /\ prices' \in [Pair -> Price \cup {NoPrice}] /\ faults' \in Nat
    BY <1>3, Placeholders DEF Crash, TypeOK
  <2>2. EndSession /\ UNCHANGED << database, now, open, lastSentAt, seen, sinceWrite >>
    BY <1>3 DEF Crash
  <2> QED
    BY <2>1, <2>2, EndSessionType DEF TypeOK, database
<1>4. CASE ClockTick
  BY <1>4 DEF ClockTick, TypeOK, database, tick, observers
<1>5. ASSUME NEW cutoff \in 1 .. now - KeepFor, Retention(cutoff) PROVE TypeOK'
  <2>1. history' \in [RuleId -> Seq(HistoryRow)]
    <3>1. \A r \in RuleId : history[r] \in Seq(HistoryRow)
      BY DEF TypeOK
    <3>2. ASSUME NEW r \in RuleId
          PROVE  [i \in DOMAIN history[r] |->
                     IF history[r][i].at < cutoff THEN Pruned ELSE history[r][i]]
                   \in Seq(HistoryRow)
      BY <3>1, PrunedRows
    <3> QED
      BY <1>5, <3>2 DEF Retention
  <2> QED
    BY <1>5, <2>1 DEF Retention, TypeOK, tick, observers
<1> QED
  BY <1>1, <1>2, <1>3, <1>4, <1>5 DEF Environment

\* Every reachable state is well typed, for every instance of the constants.
THEOREM TypeCorrect == Spec => []TypeOK
<1>1. TypeOK /\ [Next]_vars => TypeOK'
  <2>1. TypeOK /\ UNCHANGED vars => TypeOK'
    BY DEF vars, database, tick, observers, TypeOK
  <2> QED
    BY <2>1, EngineType, HandlerType, EnvironmentType DEF Next
<1> QED
  BY <1>1, InitType, PTL DEF Spec

-----------------------------------------------------------------------------
(* The inductive invariant: the session's copies, the rows and the observers *)
(* of the last dispatch and the last observation agree.                      *)

Busy == pc \in Firing \cup Suppressing

TickShape ==
    /\ pc = "idle" => todo = {}
    /\ Busy \/ pc \in Reloading => cur \notin todo
    /\ \A r \in Pending : existence[r] # "unused"

\* With no dispatch outstanding, the stored time is that of the last dispatch.
SentAgrees ==
    \A r \in RuleId :
        /\ existence[r] = "unused" => lastSentAt[r] = Never
        /\ existence[r] = "live" /\ open[r] = 0
              => rules[r].last_triggered_at = lastSentAt[r]
        /\ r \in Pending /\ open[r] = 0
              => held[r].last_triggered_at = lastSentAt[r]

\* A recorded side is the side of the price and threshold last looked at.
SeenSide(r, side) == side # "none" => side = CurrentState(seen[r].price, seen[r].threshold)

SeenAgrees ==
    \A r \in RuleId :
        /\ existence[r] = "live" => SeenSide(r, rules[r].last_state)
        /\ r \in Pending => SeenSide(r, held[r].last_state)

\* What _fire was entered with still holds when it acts on it.
FireHolds ==
    /\ pc = "send" => ShouldTrigger(held[cur], PriceOf(cur), firedAt)
    /\ pc \in {"record", "patch", "state"} => lastSentAt[cur] = firedAt

Inv == TickShape /\ CopiesAgree /\ SentAgrees /\ SeenAgrees /\ FireHolds

\* The parts a step cannot disturb unless it writes one of these variables.
shared == << existence, rules, held, open, lastSentAt, seen, dirty >>

LEMMA InitInv == Init => Inv
BY DEF Init, Inv, TickShape, CopiesAgree, SentAgrees, SeenAgrees, SeenSide, FireHolds,
       Pending, Busy, Firing, Suppressing, BlankRow, NewRow

\* The session is closed: nothing is pending any more.
LEMMA SessionEnds ==
  ASSUME Inv, EndSession, UNCHANGED << existence, rules, open, lastSentAt, seen >>
  PROVE  Inv'
<1>1. Pending' = {}
  BY DEF EndSession, Pending, Firing, Suppressing
<1>2. TickShape' /\ CopiesAgree' /\ FireHolds'
  BY <1>1 DEF TickShape, CopiesAgree, FireHolds, Busy, EndSession, Firing, Suppressing, Reloading
<1>3. SentAgrees' /\ SeenAgrees'
  BY <1>1 DEF Inv, SentAgrees, SeenAgrees, SeenSide
<1> QED
  BY <1>2, <1>3 DEF Inv

\* A step that writes none of the shared variables and adds nothing to do.
LEMMA QuietStep ==
  ASSUME Inv, UNCHANGED shared, TickShape', FireHolds', Pending' \subseteq Pending
  PROVE  Inv'
<1>1. CopiesAgree'
  BY DEF Inv, CopiesAgree, shared
<1>2. SentAgrees' /\ SeenAgrees'
  BY DEF Inv, SentAgrees, SeenAgrees, SeenSide, shared
<1> QED
  BY <1>1, <1>2 DEF Inv

LEMMA ClientQuiet == ASSUME Inv, UNCHANGED << shared, pc, todo, cur, firedAt, prices >> PROVE Inv'
BY DEF Inv, shared, TickShape, CopiesAgree, SentAgrees, SeenAgrees, SeenSide, FireHolds,
       Pending, Busy, PriceOf, ShouldTrigger

\* A step that finishes rule r and writes nothing of the others.
LEMMA FinishStep ==
  ASSUME TypeOK, Inv, NEW r \in RuleId, UNCHANGED << existence, dirty, lastSentAt >>,
         r \notin Pending', Pending' \subseteq Pending,
         \A s \in RuleId \ {r} : /\ rules'[s] = rules[s] /\ held'[s] = held[s]
                                 /\ open'[s] = open[s]   /\ seen'[s] = seen[s],
         existence[r] = "live" =>
             /\ SeenSide(r, rules[r].last_state)'
             /\ open'[r] = 0 => rules'[r].last_triggered_at = lastSentAt[r],
         TickShape', FireHolds'
  PROVE  Inv'
<1>1. Pending \subseteq RuleId
  BY DEF TypeOK, Pending
<1>2. CopiesAgree'
  BY <1>1 DEF Inv, CopiesAgree
<1>3. SentAgrees'
  BY <1>1 DEF Inv, SentAgrees
<1>4. SeenAgrees'
  BY <1>1 DEF Inv, SeenAgrees, SeenSide
<1> QED
  BY <1>2, <1>3, <1>4 DEF Inv

\* What a flush does to the two columns of the engine: they are stored when the
\* loaded copy is current, and kept when the session did not change them.
LEMMA FlushStores ==
  ASSUME NEW stored \in Row, NEW loaded \in Row, NEW new \in Row,
         loaded.last_state = stored.last_state,
         loaded.last_triggered_at = stored.last_triggered_at
  PROVE  /\ Flush(stored, loaded, new).last_state = new.last_state
         /\ Flush(stored, loaded, new).last_triggered_at = new.last_triggered_at
BY DEF Flush, Written

LEMMA FlushKeeps ==
  ASSUME NEW stored \in Row, NEW loaded \in Row, NEW new \in Row,
         new.last_state = loaded.last_state,
         new.last_triggered_at = loaded.last_triggered_at
  PROVE  /\ Flush(stored, loaded, new).last_state = stored.last_state
         /\ Flush(stored, loaded, new).last_triggered_at = stored.last_triggered_at
BY DEF Flush, Written

\* update_rule_state on a pending rule stores what the tick computed.
LEMMA UpdateStores ==
  ASSUME TypeOK, Inv, NEW r \in Pending, NEW new \in Row, UpdateRuleState(r, new)
  PROVE  /\ rules'[r].last_state = new.last_state
         /\ rules'[r].last_triggered_at = new.last_triggered_at
         /\ \A s \in RuleId \ {r} : rules'[s] = rules[s] /\ held'[s] = held[s]
<1>1. r \in RuleId
  BY DEF TypeOK, Pending
<1>2. /\ held[r].last_state = rules[r].last_state
      /\ held[r].last_triggered_at = rules[r].last_triggered_at
  BY DEF Inv, CopiesAgree, UpdateRuleState
<1>3. /\ rules'[r] = Flush(rules[r], held[r], new)
      /\ \A s \in RuleId \ {r} : rules'[s] = rules[s] /\ held'[s] = held[s]
  BY <1>1 DEF TypeOK, UpdateRuleState
<1>4. rules[r] \in Row /\ held[r] \in Row
  BY <1>1 DEF TypeOK
<1> QED
  BY <1>2, <1>3, <1>4, FlushStores

\* What the tick has just observed is what the side was computed from.
LEMMA ObservedSide ==
  ASSUME TypeOK, NEW r \in RuleId, NEW t \in Nat, Observe(r, t)
  PROVE  /\ CurrentState(seen'[r].price, seen'[r].threshold) = SideOf(r)
         /\ \A s \in RuleId \ {r} : seen'[s] = seen[s]
BY DEF TypeOK, Observe, SideOf

-----------------------------------------------------------------------------
(* The steps of the tick preserve the invariant. *)

LEMMA StartTickInv == TypeOK /\ Inv /\ StartTick => Inv'
<1> SUFFICES ASSUME TypeOK, Inv, StartTick PROVE Inv'
  OBVIOUS
<1> USE DEF database, observers
<1>1. Pending' = todo' /\ ~Busy' /\ pc' = "fetch"
  BY DEF StartTick, Pending, Busy, Firing, Suppressing
<1>2. \A r \in todo' : /\ r \in RuleId /\ existence[r] = "live" /\ rules[r].is_active
                       /\ held'[r] = rules[r]
  BY DEF StartTick
<1>3. TickShape' /\ CopiesAgree'
  BY <1>1, <1>2 DEF StartTick, TickShape, CopiesAgree, Reloading
<1>4. SentAgrees' /\ SeenAgrees'
  BY <1>1, <1>2 DEF StartTick, Inv, SentAgrees, SeenAgrees, SeenSide
<1>5. FireHolds'
  BY <1>1 DEF FireHolds
<1> QED
  BY <1>3, <1>4, <1>5 DEF Inv

\* The tick ends, whatever the reason.
LEMMA EndInv ==
  TypeOK /\ Inv /\ (FetchFails \/ SessionBroken \/ EndTick \/ TickFails \/ Crash
                    \/ RecordPruned \/ \E r \in RuleId : RowGone(r)) => Inv'
BY SessionEnds DEF FetchFails, SessionBroken, EndTick, TickFails, Crash, RowGone, RecordPruned,
                   Abort, database

LEMMA FetchInv == Inv /\ FetchPrices => Inv'
<1> SUFFICES ASSUME Inv, FetchPrices PROVE Inv'
  OBVIOUS
<1>1. pc = "fetch" /\ pc' = "rules" /\ UNCHANGED << shared, todo, cur >>
  BY DEF FetchPrices, shared, database, observers
<1>2. Pending' = Pending /\ ~Busy'
  BY <1>1 DEF Pending, Busy, Firing, Suppressing
<1>3. TickShape' /\ FireHolds'
  BY <1>1, <1>2 DEF Inv, TickShape, FireHolds, shared, Reloading
<1> QED
  BY <1>1, <1>2, <1>3, QuietStep

LEMMA SkipInv == ASSUME Inv, NEW r \in RuleId, SkipUnpriced(r) PROVE Inv'
<1>1. /\ pc = "rules" /\ pc' = "rules" /\ todo' = todo \ {r}
      /\ UNCHANGED << shared, cur >>
  BY DEF SkipUnpriced, shared, database, observers
<1>2. Pending' \subseteq Pending /\ ~Busy'
  BY <1>1 DEF Pending, Busy, Firing, Suppressing
<1>3. TickShape' /\ FireHolds'
  BY <1>1, <1>2 DEF Inv, TickShape, FireHolds, shared, Reloading
<1> QED
  BY <1>1, <1>2, <1>3, QuietStep

LEMMA TriggerInv ==
  ASSUME Inv, NEW r \in RuleId, NEW step \in {"send", "suppress_event"}, Trigger(r, step)
  PROVE  Inv'
<1>1. /\ pc = "rules" /\ pc' = step /\ r \in todo /\ todo' = todo \ {r} /\ cur' = r
      /\ firedAt' = now /\ UNCHANGED << shared, prices, now >>
  BY DEF Trigger, TakeRule, shared, database, observers
<1>2. Pending = todo /\ Pending' = Pending /\ Busy'
  BY <1>1 DEF Pending, Busy, Firing, Suppressing
<1>3. TickShape'
  BY <1>1, <1>2 DEF Inv, TickShape, shared, Reloading
<1>4. ShouldTrigger(held[cur], PriceOf(cur), firedAt)'
  <2>1. ShouldTrigger(held[r], PriceOf(r), now)
    BY DEF Trigger
  <2>2. held'[cur'] = held[r] /\ PriceOf(cur)' = PriceOf(r)
    BY <1>1 DEF PriceOf, shared
  <2> QED
    BY <1>1, <2>1, <2>2 DEF ShouldTrigger
<1>5. FireHolds'
  BY <1>1, <1>4 DEF FireHolds
<1> QED
  BY <1>1, <1>2, <1>3, <1>5, QuietStep

LEMMA TrackInv == ASSUME TypeOK, Inv, NEW r \in RuleId, TrackState(r) PROVE Inv'
<1>1. /\ pc = "rules" /\ r \in todo /\ todo' = todo \ {r}
      /\ pc' = "rules" \/ (pc' = "reload" /\ cur' = r)
      /\ UNCHANGED << existence, dirty, lastSentAt, open >>
  BY DEF TrackState, TakeRule, NewSide
<1>2. Pending = todo /\ Pending' = todo' /\ ~Busy'
  BY <1>1 DEF Pending, Busy, Firing, Suppressing
<1>3. TickShape' /\ FireHolds'
  BY <1>1, <1>2 DEF Inv, TickShape, FireHolds, Reloading
<1>4. /\ CurrentState(seen'[r].price, seen'[r].threshold) = SideOf(r)
      /\ \A s \in RuleId \ {r} : seen'[s] = seen[s]
  BY ObservedSide DEF TrackState, TypeOK
<1>5. /\ \A s \in RuleId \ {r} : rules'[s] = rules[s] /\ held'[s] = held[s]
      /\ existence[r] = "live" => /\ rules'[r].last_state = SideOf(r)
                                  /\ rules'[r].last_triggered_at = rules[r].last_triggered_at
  <2>1. existence[r] = "live" => /\ held[r].last_state = rules[r].last_state
                                 /\ held[r].last_triggered_at = rules[r].last_triggered_at
    BY <1>1, <1>2 DEF Inv, CopiesAgree
  <2>2. CASE Unchanged(r) /\ UNCHANGED << rules, held >>
    BY <2>1, <2>2 DEF Unchanged
  <2>3. CASE UpdateRuleState(r, [held[r] EXCEPT !.last_state = SideOf(r)])
    <3> DEFINE new == [held[r] EXCEPT !.last_state = SideOf(r)]
    <3>1. new \in Row
      BY SidedRowType
    <3>2. new.last_state = SideOf(r) /\ new.last_triggered_at = held[r].last_triggered_at
      BY DEF TypeOK, Row
    <3> HIDE DEF new
    <3> QED
      BY <1>1, <1>2, <2>1, <2>3, <3>1, <3>2, UpdateStores DEF new, UpdateRuleState
  <2> QED
    BY <2>2, <2>3 DEF TrackState, NewSide
<1>6. existence[r] = "live" =>
        /\ SeenSide(r, rules[r].last_state)'
        /\ open'[r] = 0 => rules'[r].last_triggered_at = lastSentAt[r]
  BY <1>1, <1>4, <1>5 DEF Inv, SeenSide, SentAgrees
<1> QED
  BY <1>1, <1>2, <1>3, <1>4, <1>5, <1>6, FinishStep

LEMMA SuppressInv == TypeOK /\ Inv /\ SuppressState => Inv'
<1> SUFFICES ASSUME TypeOK, Inv, SuppressState PROVE Inv'
  OBVIOUS
<1> DEFINE new == [held[cur] EXCEPT !.last_state = SideOf(cur)]
<1>1. /\ pc = "suppress_state" /\ pc' = "reload" /\ cur \in RuleId
      /\ UNCHANGED << existence, dirty, lastSentAt, open, cur, todo >>
  BY DEF SuppressState, TypeOK
<1>2. Busy /\ cur \in Pending /\ Pending' = todo /\ todo \subseteq Pending /\ ~Busy'
  BY <1>1 DEF Pending, Busy, Firing, Suppressing
<1>3. cur \notin Pending' /\ TickShape' /\ FireHolds'
  BY <1>1, <1>2 DEF Inv, TickShape, FireHolds
<1>4. /\ CurrentState(seen'[cur].price, seen'[cur].threshold) = SideOf(cur)
      /\ \A s \in RuleId \ {cur} : seen'[s] = seen[s]
  BY <1>1, ObservedSide DEF SuppressState, TypeOK
<1>5. new \in Row /\ new.last_state = SideOf(cur)
      /\ new.last_triggered_at = held[cur].last_triggered_at
  BY <1>1, SidedRowType DEF TypeOK, Row
<1>6. UpdateRuleState(cur, new)
  BY DEF SuppressState
<1> HIDE DEF new
<1>7. /\ \A s \in RuleId \ {cur} : rules'[s] = rules[s] /\ held'[s] = held[s]
      /\ rules'[cur].last_state = SideOf(cur)
      /\ rules'[cur].last_triggered_at = held[cur].last_triggered_at
  BY <1>2, <1>5, <1>6, UpdateStores
<1>8. existence[cur] = "live" =>
        /\ SeenSide(cur, rules[cur].last_state)'
        /\ open'[cur] = 0 => rules'[cur].last_triggered_at = lastSentAt[cur]
  BY <1>1, <1>2, <1>4, <1>7 DEF Inv, SeenSide, SentAgrees
<1> QED
  BY <1>1, <1>2, <1>3, <1>4, <1>7, <1>8, FinishStep

\* The rule that is reloaded is not one the tick still works on.
LEMMA ReloadInv == Inv /\ (ReloadSide \/ ReloadFired) => Inv'
<1> SUFFICES ASSUME Inv, ReloadSide \/ ReloadFired PROVE Inv'
  OBVIOUS
<1>1. /\ pc \in Reloading /\ pc' \in {"rules", "event"}
      /\ held' = [held EXCEPT ![cur] = rules[cur]]
      /\ UNCHANGED << existence, rules, open, lastSentAt, seen, dirty, todo, cur >>
  BY DEF ReloadSide, ReloadFired, Reload, Reloading, database, observers
<1>2. /\ Pending = todo /\ Pending' = todo /\ ~Busy' /\ cur \notin todo
      /\ \A r \in todo : held'[r] = held[r]
  BY <1>1 DEF Inv, TickShape, Pending, Busy, Firing, Suppressing, Reloading
<1>3. TickShape' /\ FireHolds'
  BY <1>1, <1>2 DEF Inv, TickShape, FireHolds, Reloading
<1>4. CopiesAgree'
  BY <1>1, <1>2 DEF Inv, CopiesAgree
<1>5. SentAgrees' /\ SeenAgrees'
  BY <1>1, <1>2 DEF Inv, SentAgrees, SeenAgrees, SeenSide
<1> QED
  BY <1>3, <1>4, <1>5 DEF Inv

LEMMA WriteEventInv ==
  ASSUME Inv, NEW from, NEW to, WriteEvent(from, to),
         << from, to >> \in { << "suppress_event", "suppress_state" >>, << "event", "rules" >> }
  PROVE  Inv'
<1>1. /\ pc = from /\ pc' \in {to, "poisoned"}
      /\ UNCHANGED << shared, todo, cur >>
  BY DEF WriteEvent, shared, database, observers
<1>2. Pending' \subseteq Pending /\ (Busy' => Busy)
  BY <1>1 DEF Pending, Busy, Firing, Suppressing
<1>3. TickShape' /\ FireHolds'
  BY <1>1, <1>2 DEF Inv, TickShape, FireHolds, shared, Reloading
<1> QED
  BY <1>1, <1>2, <1>3, QuietStep

LEMMA HistoryInv == Inv /\ (RecordHistory \/ PatchHistory) => Inv'
<1> SUFFICES ASSUME Inv, RecordHistory \/ PatchHistory PROVE Inv'
  OBVIOUS
<1>1. /\ pc \in {"record", "patch"} /\ pc' \in {"patch", "state"}
      /\ UNCHANGED << shared, todo, cur, firedAt >>
  BY DEF RecordHistory, PatchHistory, shared, observers
<1>2. Pending' = Pending /\ Busy /\ Busy'
  BY <1>1 DEF Pending, Busy, Firing, Suppressing
<1>3. TickShape' /\ FireHolds'
  BY <1>1, <1>2 DEF Inv, TickShape, FireHolds, shared, Reloading
<1> QED
  BY <1>1, <1>2, <1>3, QuietStep

LEMMA SendInv == TypeOK /\ Inv /\ SendAlert => Inv'
<1> SUFFICES ASSUME TypeOK, Inv, SendAlert PROVE Inv'
  OBVIOUS
<1>1. /\ pc = "send" /\ pc' = "record" /\ cur \in RuleId
      /\ UNCHANGED << existence, rules, held, seen, dirty, todo, cur, firedAt >>
  BY DEF SendAlert, TypeOK, database
<1>2. Pending' = Pending /\ cur \in Pending /\ Busy /\ Busy'
  BY <1>1 DEF Pending, Busy, Firing, Suppressing
<1>3. /\ open'[cur] # 0 /\ lastSentAt'[cur] = firedAt
      /\ \A s \in RuleId \ {cur} : open'[s] = open[s] /\ lastSentAt'[s] = lastSentAt[s]
  BY <1>1 DEF SendAlert, TypeOK
<1>4. TickShape' /\ CopiesAgree' /\ SeenAgrees'
  BY <1>1, <1>2 DEF Inv, TickShape, CopiesAgree, SeenAgrees, SeenSide
<1>5. SentAgrees'
  <2>1. existence[cur] # "unused"
    BY <1>2 DEF Inv, TickShape
  <2> QED
    BY <1>1, <1>2, <1>3, <2>1 DEF Inv, SentAgrees
<1>6. FireHolds'
  BY <1>1, <1>3 DEF FireHolds
<1> QED
  BY <1>4, <1>5, <1>6 DEF Inv

LEMMA FiredInv == TypeOK /\ Inv /\ RecordFiring => Inv'
<1> SUFFICES ASSUME TypeOK, Inv, RecordFiring PROVE Inv'
  OBVIOUS
<1> DEFINE new == FiredRow(held[cur])
<1>1. /\ pc = "state" /\ pc' = "reload_fired" /\ cur \in RuleId
      /\ UNCHANGED << existence, dirty, lastSentAt, cur, todo >>
  BY DEF RecordFiring, TypeOK
<1>2. Busy /\ cur \in Pending /\ Pending' = todo /\ todo \subseteq Pending /\ ~Busy'
  BY <1>1 DEF Pending, Busy, Firing, Suppressing
<1>3. cur \notin Pending' /\ TickShape' /\ FireHolds'
  BY <1>1, <1>2 DEF Inv, TickShape, FireHolds
<1>4. /\ CurrentState(seen'[cur].price, seen'[cur].threshold) = SideOf(cur)
      /\ \A s \in RuleId \ {cur} : seen'[s] = seen[s] /\ open'[s] = open[s]
  BY <1>1, ObservedSide DEF RecordFiring, TypeOK
<1>5. new \in Row /\ new.last_state = SideOf(cur) /\ new.last_triggered_at = firedAt
  BY <1>1, FiredRowType DEF TypeOK, Row, FiredRow
<1>6. UpdateRuleState(cur, new)
  BY DEF RecordFiring
<1> HIDE DEF new
<1>7. /\ \A s \in RuleId \ {cur} : rules'[s] = rules[s] /\ held'[s] = held[s]
      /\ rules'[cur].last_state = SideOf(cur)
      /\ rules'[cur].last_triggered_at = firedAt
  BY <1>2, <1>5, <1>6, UpdateStores
<1>8. existence[cur] = "live" =>
        /\ SeenSide(cur, rules[cur].last_state)'
        /\ open'[cur] = 0 => rules'[cur].last_triggered_at = lastSentAt[cur]
  BY <1>1, <1>4, <1>7 DEF Inv, SeenSide, FireHolds
<1> QED
  BY <1>1, <1>2, <1>3, <1>4, <1>7, <1>8, FinishStep

LEMMA EngineInv == TypeOK /\ Inv /\ (StartTick \/ EngineStep) => Inv'
<1> SUFFICES ASSUME TypeOK, Inv, StartTick \/ EngineStep PROVE Inv'
  OBVIOUS
<1>1. ASSUME NEW r \in RuleId, Evaluate(r) PROVE Inv'
  BY <1>1, SkipInv, TrackInv, TriggerInv, EndInv DEF Evaluate, StartFire, StartSuppress
<1>2. CASE SuppressEvent \/ TriggeredEvent
  BY <1>2, WriteEventInv DEF SuppressEvent, TriggeredEvent
<1> QED
  BY <1>1, <1>2, StartTickInv, EndInv, FetchInv, SuppressInv, SendInv, HistoryInv, FiredInv,
     ReloadInv DEF EngineStep

-----------------------------------------------------------------------------
(* The handlers and the environment preserve the invariant. *)

\* Between two ticks nothing is pending; during one, a client's write is noted.
LEMMA TouchNoted ==
  ASSUME Inv, NEW r \in RuleId, Touch(r), UNCHANGED tick
  PROVE  /\ Pending' = Pending
         /\ dirty \subseteq dirty'
         /\ r \in Pending => r \in dirty'
<1>1. Pending' = Pending
  BY DEF tick, Pending
<1>2. pc = "idle" => Pending = {}
  BY DEF Inv, TickShape, Pending, Firing, Suppressing
<1> QED
  BY <1>1, <1>2 DEF Touch

\* A client's commit: rule r changes, the copies and the observers do not.
LEMMA ClientWrite ==
  ASSUME TypeOK, Inv, NEW r \in RuleId, Touch(r), UNCHANGED tick,
         \A s \in RuleId \ {r} : existence'[s] = existence[s] /\ rules'[s] = rules[s],
         existence'[r] # "unused",
         existence'[r] = "live" =>
             \/ /\ existence[r] = "live"
                /\ rules'[r].last_state = rules[r].last_state
                /\ rules'[r].last_triggered_at = rules[r].last_triggered_at
             \/ /\ existence[r] = "unused"
                /\ rules'[r].last_state = "none"
                /\ rules'[r].last_triggered_at = Never
  PROVE  Inv'
<1>1. Pending \subseteq RuleId
  BY DEF TypeOK, Pending
<1>2. /\ Pending' = Pending /\ dirty \subseteq dirty' /\ (r \in Pending => r \in dirty')
      /\ UNCHANGED << pc, todo, cur, held, firedAt, prices, open, lastSentAt, seen >>
  BY TouchNoted DEF Touch, tick
<1>3. r \in Pending => existence[r] # "unused"
  BY DEF Inv, TickShape
<1>4. TickShape'
  BY <1>1, <1>2 DEF Inv, TickShape, Busy
<1>5. CopiesAgree'
  BY <1>1, <1>2, <1>3 DEF Inv, CopiesAgree
<1>6. SentAgrees' /\ SeenAgrees'
  BY <1>1, <1>2 DEF Inv, SentAgrees, SeenAgrees, SeenSide
<1>7. FireHolds'
  BY <1>2 DEF Inv, FireHolds, PriceOf, ShouldTrigger
<1> QED
  BY <1>4, <1>5, <1>6, <1>7 DEF Inv

LEMMA SaveInv ==
  ASSUME TypeOK, Inv, NEW c \in Client, NEW new \in Row, Save(c, new), UNCHANGED tick,
         new.last_state = request[c].row.last_state,
         new.last_triggered_at = request[c].row.last_triggered_at
  PROVE  Inv'
<1> DEFINE r == request[c].rule
<1>1. r \in RuleId /\ request[c].row \in Row /\ rules[r] \in Row
  BY DEF TypeOK, Request
<1>2. CASE existence[r] = "live"
  <2>1. /\ UNCHANGED existence /\ Touch(r)
        /\ rules'[r] = Flush(rules[r], request[c].row, new)
        /\ \A s \in RuleId \ {r} : rules'[s] = rules[s]
    BY <1>1, <1>2 DEF Save, TypeOK
  <2>2. /\ rules'[r].last_state = rules[r].last_state
        /\ rules'[r].last_triggered_at = rules[r].last_triggered_at
    BY <1>1, <2>1, FlushKeeps
  <2> HIDE DEF r
  <2> QED
    BY <1>1, <1>2, <2>1, <2>2, ClientWrite
<1>3. CASE existence[r] # "live"
  BY <1>3, ClientQuiet DEF Save, database, observers, tick, shared
<1> QED
  BY <1>2, <1>3

LEMMA InsertInv ==
  ASSUME TypeOK, Inv, NEW r \in RuleId, NEW row \in Row, Insert(r, row), Touch(r),
         UNCHANGED tick, row.last_state = "none", row.last_triggered_at = Never
  PROVE  Inv'
<1>1. /\ existence[r] = "unused" /\ existence'[r] = "live" /\ rules'[r] = row
      /\ \A s \in RuleId \ {r} : existence'[s] = existence[s] /\ rules'[s] = rules[s]
  BY DEF Insert, TypeOK
<1> QED
  BY <1>1, ClientWrite

LEMMA HandlerInv == ASSUME TypeOK, Inv, NEW c \in Client, Handler(c) PROVE Inv'
<1>1. request[c].rule \in RuleId /\ request[c].row \in Row
  BY DEF TypeOK, Request
<1>2. ASSUME NEW op \in Operations, NEW r \in RuleId, LoadRule(c, op, r) PROVE Inv'
  BY <1>2, ClientQuiet DEF LoadRule, database, tick, observers, shared
<1>3. ASSUME NEW form \in Forms, EditRule(c, form) PROVE Inv'
  <2> DEFINE new == [request[c].row EXCEPT !.config = EditedConfig(@, form)]
  <2>1. EditedConfig(request[c].row.config, form) \in Config
    BY <1>1, FormsAssumption, EditedConfigType DEF Row
  <2>2. /\ new \in Row /\ new.last_state = request[c].row.last_state
        /\ new.last_triggered_at = request[c].row.last_triggered_at
    BY <1>1, <2>1 DEF Row
  <2>3. Save(c, new) /\ UNCHANGED tick
    BY <1>3 DEF EditRule, Finish
  <2> HIDE DEF new
  <2> QED
    BY <2>2, <2>3, SaveInv
<1>4. CASE ToggleRule(c)
  <2> DEFINE new == [request[c].row EXCEPT !.is_active = ~@]
  <2>1. /\ new \in Row /\ new.last_state = request[c].row.last_state
        /\ new.last_triggered_at = request[c].row.last_triggered_at
    BY <1>1 DEF Row
  <2>2. Save(c, new) /\ UNCHANGED tick
    BY <1>4 DEF ToggleRule, Finish
  <2> HIDE DEF new
  <2> QED
    BY <2>1, <2>2, SaveInv
<1>5. ASSUME NEW r \in RuleId, CloneRule(c, r) PROVE Inv'
  <2> DEFINE row == [NewRow(CloneConfig(request[c].row.config)) EXCEPT !.is_active = FALSE]
  <2>1. NewRow(CloneConfig(request[c].row.config)) \in Row
    BY <1>1, CloneConfigType, NewRowType DEF Row
  <2>2. row \in Row /\ row.last_state = "none" /\ row.last_triggered_at = Never
    BY <2>1 DEF Row, NewRow
  <2>3. Insert(r, row) /\ Touch(r) /\ UNCHANGED tick
    BY <1>5 DEF CloneRule, Finish
  <2> HIDE DEF row
  <2> QED
    BY <2>2, <2>3, InsertInv
<1>6. CASE DeleteRule(c)
  <2> DEFINE r == request[c].rule
  <2>1. /\ existence'[r] = "deleted" /\ Touch(r) /\ UNCHANGED tick
        /\ \A s \in RuleId \ {r} : existence'[s] = existence[s] /\ rules'[s] = rules[s]
    BY <1>1, <1>6 DEF DeleteRule, Finish, TypeOK
  <2> HIDE DEF r
  <2> QED
    BY <1>1, <2>1, ClientWrite DEF r
<1> QED
  BY <1>2, <1>3, <1>4, <1>5, <1>6 DEF Handler

LEMMA EnvironmentInv == TypeOK /\ Inv /\ Environment => Inv'
<1> SUFFICES ASSUME TypeOK, Inv, Environment PROVE Inv'
  OBVIOUS
<1>1. ASSUME NEW r \in RuleId, NEW form \in Forms, CreateRule(r, form) PROVE Inv'
  <2>1. NewRow(form) \in Row /\ NewRow(form).last_state = "none"
        /\ NewRow(form).last_triggered_at = Never
    BY FormsAssumption, NewRowType DEF NewRow
  <2> QED
    BY <1>1, <2>1, InsertInv DEF CreateRule
<1>2. CASE ClockTick
  BY <1>2, ClientQuiet DEF ClockTick, database, tick, observers, shared
<1>3. ASSUME NEW cutoff, Retention(cutoff) PROVE Inv'
  BY <1>3, ClientQuiet DEF Retention, tick, observers, shared
<1> QED
  BY <1>1, <1>2, <1>3, EndInv DEF Environment

\* The invariant holds in every reachable state.
THEOREM Invariant == Spec => [](TypeOK /\ Inv)
<1>1. TypeOK /\ Inv /\ [Next]_vars => Inv'
  <2>1. Inv /\ UNCHANGED vars => Inv'
    BY ClientQuiet DEF vars, database, tick, observers, shared
  <2> QED
    BY <2>1, EngineInv, HandlerInv, EnvironmentInv DEF Next
<1> QED
  BY <1>1, TypeCorrect, InitInv, PTL DEF Spec

-----------------------------------------------------------------------------
(* What the invariant is for. *)

\* The copies a tick works on stay as good as the rows, whatever the clients do:
\* the columns only the engine writes are never stale.
THEOREM CopiesAlwaysAgree == Spec => []CopiesAgree
BY Invariant, PTL DEF Inv

\* Only SendAlert dispatches, and only the rule being fired.
LEMMA DispatchIsSend ==
  ASSUME TypeOK, [Next]_vars, NEW r \in RuleId, Dispatched(r)
  PROVE  SendAlert /\ r = cur
<1>1. CASE SendAlert
  BY <1>1 DEF SendAlert, TypeOK, Dispatched
<1>2. CASE ~SendAlert
  <2>1. open' = open \/ RecordFiring
    <3>1. CASE UNCHANGED vars
      BY <3>1 DEF vars, observers
    <3>2. CASE StartTick \/ EngineStep
      BY <1>2, <3>2 DEF StartTick, EngineStep, FetchPrices, FetchFails, Evaluate,
         SkipUnpriced, TrackState, StartFire, StartSuppress, Trigger, RowGone, SuppressEvent,
         SuppressState, RecordHistory, PatchHistory, RecordPruned, ReloadSide, ReloadFired,
         Reload, TriggeredEvent, WriteEvent, SessionBroken, EndTick, Abort, observers
    <3>3. ASSUME NEW c \in Client, Handler(c) PROVE open' = open
      BY <3>3 DEF Handler, LoadRule, EditRule, ToggleRule, CloneRule, DeleteRule, Save, Touch,
         observers
    <3>4. CASE Environment
      BY <3>4 DEF Environment, CreateRule, Retention, TickFails, Crash, ClockTick, Touch,
         Abort, observers
    <3> QED
      BY <3>1, <3>2, <3>3, <3>4 DEF Next
  <2>2. ~(open'[r] > open[r])
    <3>1. open[r] \in Nat /\ open'[r] \in {open[r], 0}
      BY <2>1 DEF RecordFiring, TypeOK
    <3> QED
      BY <3>1
  <2> QED
    BY <2>2 DEF Dispatched
<1> QED
  BY <1>1, <1>2

\* A paused or deleted rule is never notified, except by a tick that loaded it
\* before: NoAlertOncePaused.
THEOREM NeverOncePaused == Spec => NoAlertOncePaused
<1>1. ASSUME TypeOK /\ Inv, [Next]_vars, NEW r \in RuleId, Dispatched(r)
      PROVE  \/ existence[r] = "live" /\ rules[r].is_active
             \/ r \in dirty
  <2>1. SendAlert /\ r = cur
    BY <1>1, DispatchIsSend
  <2>2. r \in Pending
    BY <2>1 DEF SendAlert, Pending, Firing
  <2> QED
    BY <1>1, <2>2 DEF Inv, CopiesAgree
<1>2. TypeOK /\ Inv /\ [Next]_vars =>
       [\A r \in RuleId :
             Dispatched(r) => \/ existence[r] = "live" /\ rules[r].is_active
                              \/ r \in dirty]_vars
  BY <1>1
<1> QED
  BY <1>2, Invariant, PTL DEF Spec, NoAlertOncePaused

\* Two notifications of a rule are at least its cooldown apart.
THEOREM CooldownIsKept == Spec => CooldownSpacing
<1>1. ASSUME TypeOK /\ Inv, [Next]_vars, NEW r \in RuleId,
             Dispatched(r), open[r] = 0, lastSentAt[r] # Never
      PROVE  firedAt - lastSentAt[r] >= held[r].config.cooldown_minutes
  <2>1. SendAlert /\ r = cur
    BY <1>1, DispatchIsSend
  <2>2. pc = "send" /\ r \in Pending
    BY <2>1 DEF SendAlert, Pending, Firing
  <2>3. held[r].last_triggered_at = lastSentAt[r]
    BY <1>1, <2>2 DEF Inv, SentAgrees
  <2> QED
    BY <1>1, <2>1, <2>2, <2>3 DEF Inv, FireHolds, ShouldTrigger, CooledDown
<1>2. TypeOK /\ Inv /\ [Next]_vars =>
       [\A r \in RuleId :
             Dispatched(r) /\ open[r] = 0 /\ lastSentAt[r] # Never
                 => firedAt - lastSentAt[r] >= held[r].config.cooldown_minutes]_vars
  BY <1>1
<1> QED
  BY <1>2, Invariant, PTL DEF Spec, CooldownSpacing

\* A notification with a recorded side is a crossing since the last observation.
THEOREM CrossingIsReal == Spec => RealCrossing
<1>1. ASSUME TypeOK /\ Inv, [Next]_vars, NEW r \in RuleId,
             Dispatched(r), held[r].last_state # "none",
             seen[r].threshold = held[r].config.threshold
      PROVE  CurrentState(seen[r].price, held[r].config.threshold) # SideOf(r)
  <2>1. SendAlert /\ r = cur
    BY <1>1, DispatchIsSend
  <2>2. pc = "send" /\ r \in Pending
    BY <2>1 DEF SendAlert, Pending, Firing
  <2>3. held[r].last_state = CurrentState(seen[r].price, held[r].config.threshold)
    BY <1>1, <2>2 DEF Inv, SeenAgrees, SeenSide
  <2>4. /\ SideOf(r) = held[r].config.condition
        /\ held[r].last_state # held[r].config.condition
    BY <1>1, <2>1, <2>2 DEF Inv, FireHolds, ShouldTrigger, Crossing, SideOf
  <2> QED
    BY <2>3, <2>4
<1>2. TypeOK /\ Inv /\ [Next]_vars =>
       [\A r \in RuleId :
             Dispatched(r) /\ held[r].last_state # "none"
                 => \/ seen[r].pair # held[r].config.pair
                    \/ seen[r].threshold # held[r].config.threshold
                    \/ CurrentState(seen[r].price, held[r].config.threshold) # SideOf(r)]_vars
  BY <1>1
<1> QED
  BY <1>2, Invariant, PTL DEF Spec, RealCrossing

-----------------------------------------------------------------------------
(* The tick and the configuration. *)

\* A flush of a session that changed no column of the configuration keeps it.
LEMMA MergeKeeps ==
  ASSUME NEW stored \in Config, NEW loaded \in Config
  PROVE  MergeConfig(stored, loaded, loaded) = stored
BY DEF MergeConfig, Written, Config

LEMMA UpdateKeeps ==
  ASSUME TypeOK, NEW r \in RuleId, NEW new \in Row, UpdateRuleState(r, new),
         new.config = held[r].config, new.is_active => held[r].is_active
  PROVE  \A s \in RuleId : /\ rules'[s].config = rules[s].config
                           /\ rules'[s].is_active => rules[s].is_active
<1>1. rules[r] \in Row /\ held[r] \in Row
  BY DEF TypeOK
<1>2. Flush(rules[r], held[r], new).config = rules[r].config
  <2>1. rules[r].config \in Config /\ held[r].config \in Config
    BY <1>1 DEF Row
  <2> QED
    BY <2>1, MergeKeeps DEF Flush
<1>3. Flush(rules[r], held[r], new).is_active => rules[r].is_active
  BY <1>1 DEF Flush, Written, Row
<1>4. rules' = [rules EXCEPT ![r] = Flush(rules[r], held[r], new)]
  BY DEF UpdateRuleState
<1> QED
  BY <1>2, <1>3, <1>4 DEF TypeOK

\* A step of the tick that writes rules is one of three, and keeps what users own.
LEMMA EngineKeeps ==
  ASSUME TypeOK, StartTick \/ EngineStep
  PROVE  \A r \in RuleId : /\ rules'[r].config = rules[r].config
                           /\ rules'[r].is_active => rules[r].is_active
<1>1. ASSUME NEW s \in RuleId, UpdateRuleState(s, [held[s] EXCEPT !.last_state = SideOf(s)])
      PROVE  \A r \in RuleId : /\ rules'[r].config = rules[r].config
                               /\ rules'[r].is_active => rules[r].is_active
  <2> DEFINE new == [held[s] EXCEPT !.last_state = SideOf(s)]
  <2>1. new \in Row /\ new.config = held[s].config /\ new.is_active = held[s].is_active
    BY <1>1, SidedRowType DEF TypeOK, Row
  <2>2. UpdateRuleState(s, new)
    BY <1>1
  <2> HIDE DEF new
  <2> QED
    BY <2>1, <2>2, UpdateKeeps
<1>2. CASE RecordFiring
  <2> DEFINE new == FiredRow(held[cur])
  <2>1. cur \in RuleId /\ held[cur] \in Row
    BY DEF TypeOK
  <2>2. new \in Row /\ new.config = held[cur].config /\ (new.is_active => held[cur].is_active)
    BY <2>1, FiredRowType DEF Row, FiredRow
  <2>3. UpdateRuleState(cur, new)
    BY <1>2 DEF RecordFiring
  <2> HIDE DEF new
  <2> QED
    BY <2>1, <2>2, <2>3, UpdateKeeps
<1>3. CASE SuppressState
  BY <1>1, <1>3 DEF SuppressState, TypeOK
<1>4. ASSUME NEW s \in RuleId, TrackState(s), rules' # rules
      PROVE  UpdateRuleState(s, [held[s] EXCEPT !.last_state = SideOf(s)])
  BY <1>4 DEF TrackState, NewSide
<1>5. \/ RecordFiring \/ SuppressState \/ rules' = rules
      \/ \E s \in RuleId : TrackState(s)
  BY DEF StartTick, EngineStep, FetchPrices, FetchFails, Evaluate, SkipUnpriced, StartFire,
     StartSuppress, Trigger, RowGone, SuppressEvent, SendAlert, RecordHistory, PatchHistory,
     RecordPruned, ReloadSide, ReloadFired, Reload, TriggeredEvent, WriteEvent, SessionBroken,
     EndTick, Abort, database
<1> QED
  BY <1>1, <1>2, <1>3, <1>4, <1>5

\* The tick's stale copies never undo what a client committed meanwhile.
THEOREM UserColumnsKept == Spec => TickKeepsUserColumns
<1>1. ASSUME TypeOK, [Next]_vars, NEW r \in RuleId,
             request' = request, existence[r] = "live", existence'[r] = "live"
      PROVE  /\ rules'[r].config = rules[r].config
             /\ rules'[r].is_active => rules[r].is_active
  <2>1. CASE StartTick \/ EngineStep
    BY <1>1, <2>1, EngineKeeps
  <2>2. ASSUME NEW c \in Client, Handler(c) PROVE rules' = rules
    <3>1. ASSUME NEW op \in Operations, Finish(c, op) PROVE request' # request
      <4>1. request[c].op # "none"
        BY <3>1 DEF Finish, Operations
      <4>2. request'[c].op = "none"
        BY <1>1, <3>1 DEF Finish, NoRequest, TypeOK
      <4> QED
        BY <4>1, <4>2
    <3>2. \E op \in Operations, s \in RuleId : LoadRule(c, op, s)
      BY <1>1, <2>2, <3>1 DEF Handler, EditRule, ToggleRule, CloneRule, DeleteRule, Operations
    <3> QED
      BY <3>2 DEF LoadRule, database
  <2>3. CASE Environment
    BY <1>1, <2>3 DEF Environment, CreateRule, Insert, Retention, TickFails, Crash,
       ClockTick, Abort, database, TypeOK
  <2>4. CASE UNCHANGED vars
    BY <2>4 DEF vars, database
  <2> QED
    BY <1>1, <2>1, <2>2, <2>3, <2>4 DEF Next
<1>2. TypeOK /\ [Next]_vars =>
       [\A r \in RuleId :
             request' = request /\ existence[r] = "live" /\ existence'[r] = "live"
                 => /\ rules'[r].config = rules[r].config
                    /\ rules'[r].is_active => rules[r].is_active]_vars
  BY <1>1
<1> QED
  BY <1>2, TypeCorrect, PTL DEF Spec, TickKeepsUserColumns

-----------------------------------------------------------------------------
(* How often a rule is notified: the second inductive invariant.             *)

\* The notification of r has been dispatched and the row does not say so yet.
InFlight(r) == pc \in {"record", "patch", "state"} /\ cur = r

\* A dispatch that is not in flight and was never recorded took a fault.
OpenBound ==
    \A r \in RuleId :
        /\ open[r] <= 1 + faults
        /\ existence[r] = "unused" => open[r] = 0
        /\ existence[r] = "live" \/ r \in Pending => InFlight(r) \/ open[r] <= faults

\* A send_once rule that is still armed has been notified by faults only.
OnceBound ==
    \A r \in RuleId :
        /\ r \in dirty => sinceWrite[r] = 0
        /\ existence[r] = "live" /\ rules[r].config.send_once =>
              /\ sinceWrite[r] <= 1 + faults
              /\ rules[r].is_active => InFlight(r) \/ sinceWrite[r] <= faults

Notified == OpenBound /\ OnceBound

\* Nothing the bounds look at is written, and no rule is taken back.
LEMMA NotifiedQuiet ==
  ASSUME Notified, UNCHANGED << existence, rules, open, dirty, sinceWrite, faults >>,
         \A r \in Pending' : r \in Pending \/ existence[r] = "live",
         \A r \in RuleId : InFlight(r) => InFlight(r)'
  PROVE  Notified'
<1>1. OpenBound'
  BY DEF Notified, OpenBound
<1>2. OnceBound'
  BY DEF Notified, OnceBound
<1> QED
  BY <1>1, <1>2 DEF Notified

\* The tick ends by a fault, or where no dispatch of an existing row is in flight.
LEMMA NotifiedEnd ==
  ASSUME TypeOK, Inv, Notified, EndSession, UNCHANGED << existence, rules, open, sinceWrite >>,
         \/ faults' = faults + 1
         \/ faults' = faults /\ \A r \in RuleId : InFlight(r) => existence[r] # "live"
  PROVE  Notified'
<1>1. Pending' = {} /\ dirty' = {} /\ \A r : ~InFlight(r)'
  BY DEF EndSession, Pending, Firing, Suppressing, InFlight
<1>2. /\ faults \in Nat /\ faults' \in Nat /\ faults <= faults'
      /\ \A r \in RuleId : open[r] \in Nat /\ sinceWrite[r] \in Nat
  BY DEF TypeOK
<1>3. OpenBound'
  BY <1>1, <1>2 DEF Notified, OpenBound
<1>4. OnceBound'
  BY <1>1, <1>2 DEF Notified, OnceBound
<1> QED
  BY <1>3, <1>4 DEF Notified

\* The session stores a side, nothing that the owner of the rule wrote.
LEMMA NotifiedUpdate ==
  ASSUME TypeOK, Notified, UNCHANGED << existence, open, dirty, sinceWrite, faults >>,
         \A r \in RuleId : /\ rules'[r].config = rules[r].config
                           /\ rules'[r].is_active => rules[r].is_active,
         Pending' \subseteq Pending,
         \A r \in RuleId : ~InFlight(r)
  PROVE  Notified'
<1>1. OpenBound'
  BY DEF Notified, OpenBound, TypeOK, Pending
<1>2. OnceBound'
  BY DEF Notified, OnceBound
<1> QED
  BY <1>1, <1>2 DEF Notified

LEMMA SendNotified == TypeOK /\ Inv /\ Notified /\ SendAlert => Notified'
<1> SUFFICES ASSUME TypeOK, Inv, Notified, SendAlert PROVE Notified'
  OBVIOUS
<1>1. /\ pc = "send" /\ pc' = "record" /\ cur \in RuleId /\ cur' = cur /\ todo' = todo
      /\ UNCHANGED << existence, rules, dirty, faults >>
  BY DEF SendAlert, TypeOK, database
<1>2. /\ faults \in Nat
      /\ \A r \in RuleId : open[r] \in Nat /\ sinceWrite[r] \in Nat
  BY DEF TypeOK
<1>3. /\ open'[cur] = open[cur] + 1
      /\ sinceWrite'[cur] = IF cur \in dirty THEN sinceWrite[cur] ELSE sinceWrite[cur] + 1
      /\ \A r \in RuleId \ {cur} : open'[r] = open[r] /\ sinceWrite'[r] = sinceWrite[r]
  BY <1>1 DEF SendAlert, TypeOK
<1>4. Pending' = Pending /\ cur \in Pending /\ InFlight(cur)' /\ \A r : ~InFlight(r)
  BY <1>1 DEF Pending, Firing, Suppressing, InFlight
<1>5. OpenBound'
  <2>1. open[cur] <= faults /\ existence[cur] # "unused"
    BY <1>1, <1>4 DEF Notified, OpenBound, Inv, TickShape
  <2> QED
    BY <1>1, <1>2, <1>3, <1>4, <2>1 DEF Notified, OpenBound
<1>6. OnceBound'
  <2>1. cur \notin dirty /\ rules[cur].config.send_once => sinceWrite[cur] <= faults
    BY <1>1, <1>4 DEF Notified, OnceBound, Inv, CopiesAgree
  <2> QED
    BY <1>1, <1>2, <1>3, <1>4, <2>1 DEF Notified, OnceBound
<1> QED
  BY <1>5, <1>6 DEF Notified

\* Recording the firing of a send_once rule nobody wrote meanwhile disarms it.
LEMMA FiredDisarms ==
  ASSUME TypeOK, Inv, RecordFiring, cur \notin dirty, rules[cur].config.send_once
  PROVE  ~rules'[cur].is_active
<1> DEFINE new == FiredRow(held[cur])
<1>1. cur \in RuleId /\ cur \in Pending
  BY DEF RecordFiring, Pending, Firing, TypeOK
<1>2. held[cur] = rules[cur] /\ held[cur] \in Row /\ rules[cur].is_active
  BY <1>1 DEF Inv, CopiesAgree, TypeOK
<1>3. new.is_active = FALSE /\ held[cur].is_active = TRUE
  BY <1>2 DEF FiredRow, Row
<1>4. rules'[cur] = Flush(rules[cur], held[cur], new)
  BY <1>1 DEF RecordFiring, UpdateRuleState, TypeOK
<1> HIDE DEF new
<1>5. rules'[cur].is_active = FALSE
  BY <1>3, <1>4 DEF Flush, Written
<1> QED
  BY <1>5

LEMMA FiredNotified == TypeOK /\ Inv /\ Notified /\ RecordFiring => Notified'
<1> SUFFICES ASSUME TypeOK, Inv, Notified, RecordFiring PROVE Notified'
  OBVIOUS
<1>1. /\ pc = "state" /\ pc' = "reload_fired" /\ cur \in RuleId /\ todo' = todo
      /\ UNCHANGED << existence, dirty, sinceWrite, faults >>
  BY DEF RecordFiring, TypeOK
<1>2. /\ faults \in Nat
      /\ \A r \in RuleId : open[r] \in Nat /\ sinceWrite[r] \in Nat
  BY DEF TypeOK
<1>3. open'[cur] = 0 /\ \A r \in RuleId \ {cur} : open'[r] = open[r] /\ ~InFlight(r)
  BY <1>1 DEF RecordFiring, TypeOK, InFlight
<1>4. Pending' \subseteq Pending
  BY <1>1 DEF Pending, Firing, Suppressing
<1>5. \A r \in RuleId : /\ rules'[r].config = rules[r].config
                        /\ rules'[r].is_active => rules[r].is_active
  BY EngineKeeps DEF EngineStep
<1>6. OpenBound'
  BY <1>1, <1>2, <1>3, <1>4 DEF Notified, OpenBound
<1>7. OnceBound'
  BY <1>1, <1>2, <1>3, <1>5, FiredDisarms DEF Notified, OnceBound
<1> QED
  BY <1>6, <1>7 DEF Notified

LEMMA EngineNotified == TypeOK /\ Inv /\ Notified /\ (StartTick \/ EngineStep) => Notified'
<1> SUFFICES ASSUME TypeOK, Inv, Notified, StartTick \/ EngineStep PROVE Notified'
  OBVIOUS
<1> USE DEF database, observers
<1>1. CASE StartTick
  <2>1. Pending' = todo' /\ \A r : ~InFlight(r)
    BY <1>1 DEF StartTick, Pending, Firing, Suppressing, InFlight
  <2>2. \A r \in todo' : existence[r] = "live"
    BY <1>1 DEF StartTick
  <2>3. UNCHANGED << existence, rules, open, dirty, sinceWrite, faults >>
    BY <1>1 DEF StartTick
  <2> QED
    BY <2>1, <2>2, <2>3, NotifiedQuiet
<1>2. CASE \/ FetchPrices \/ SuppressEvent \/ TriggeredEvent \/ RecordHistory \/ PatchHistory
           \/ ReloadSide \/ ReloadFired
  <2>1. Pending' \subseteq Pending /\ \A r : InFlight(r) => InFlight(r)'
    BY <1>2 DEF FetchPrices, SuppressEvent, TriggeredEvent, WriteEvent, RecordHistory,
                PatchHistory, ReloadSide, ReloadFired, Reload, Pending, Firing, Suppressing,
                InFlight
  <2>2. UNCHANGED << existence, rules, open, dirty, sinceWrite >>
    BY <1>2 DEF FetchPrices, SuppressEvent, TriggeredEvent, WriteEvent, RecordHistory,
                PatchHistory, ReloadSide, ReloadFired, Reload
  <2>3. CASE faults' = faults
    BY <2>1, <2>2, <2>3, NotifiedQuiet
  <2>4. CASE faults' # faults
    <3>1. faults' = faults + 1 /\ pc \in {"suppress_event", "event"}
      BY <1>2, <2>4 DEF FetchPrices, SuppressEvent, TriggeredEvent, WriteEvent, RecordHistory,
                        PatchHistory, ReloadSide, ReloadFired, Reload
    <3>2. /\ faults \in Nat /\ \A r : ~InFlight(r)
          /\ \A r \in RuleId : open[r] \in Nat /\ sinceWrite[r] \in Nat
      BY <3>1 DEF TypeOK, InFlight
    <3>3. OpenBound'
      BY <2>1, <2>2, <3>1, <3>2 DEF Notified, OpenBound
    <3>4. OnceBound'
      BY <2>2, <3>1, <3>2 DEF Notified, OnceBound
    <3> QED
      BY <3>3, <3>4 DEF Notified
  <2> QED
    BY <2>3, <2>4
<1>3. ASSUME NEW r \in RuleId, SkipUnpriced(r) \/ StartFire(r) \/ StartSuppress(r)
      PROVE  Notified'
  <2>1. /\ pc = "rules" /\ r \in todo /\ todo' = todo \ {r}
        /\ pc' = "rules" \/ cur' = r
        /\ UNCHANGED << existence, rules, open, dirty, sinceWrite, faults >>
    BY <1>3 DEF SkipUnpriced, StartFire, StartSuppress, Trigger, TakeRule
  <2>2. Pending' \subseteq Pending /\ \A s : ~InFlight(s)
    BY <1>3, <2>1 DEF SkipUnpriced, StartFire, StartSuppress, Trigger, Pending, Firing,
                      Suppressing, InFlight
  <2> QED
    BY <2>1, <2>2, NotifiedQuiet
<1>4. ASSUME NEW r \in RuleId, TrackState(r) PROVE Notified'
  <2>1. /\ Pending' \subseteq Pending /\ \A s : ~InFlight(s)
        /\ UNCHANGED << existence, open, dirty, sinceWrite, faults >>
    BY <1>4 DEF TrackState, TakeRule, NewSide, Pending, Firing, Suppressing, InFlight
  <2> QED
    BY <2>1, EngineKeeps, NotifiedUpdate
<1>5. CASE SuppressState
  <2>1. /\ Pending' \subseteq Pending /\ \A s : ~InFlight(s)
        /\ UNCHANGED << existence, open, dirty, sinceWrite, faults >>
    BY <1>5 DEF SuppressState, Pending, Firing, Suppressing, InFlight
  <2> QED
    BY <2>1, EngineKeeps, NotifiedUpdate
<1>6. ASSUME NEW r \in RuleId, RowGone(r) PROVE Notified'
  <2>1. \A s \in RuleId : InFlight(s) => existence[s] # "live"
    BY <1>6 DEF RowGone, NeedsRow, InFlight
  <2> QED
    BY <1>6, <2>1, NotifiedEnd DEF RowGone, Abort
<1>7. CASE FetchFails \/ SessionBroken \/ EndTick
  <2>1. \A s \in RuleId : ~InFlight(s)
    BY <1>7 DEF FetchFails, SessionBroken, EndTick, InFlight
  <2> QED
    BY <1>7, <2>1, NotifiedEnd DEF FetchFails, SessionBroken, EndTick, Abort
<1>8. CASE RecordPruned
  BY <1>8, NotifiedEnd DEF RecordPruned, Abort
<1> QED
  BY <1>1, <1>2, <1>3, <1>4, <1>5, <1>6, <1>7, <1>8, SendNotified, FiredNotified
     DEF EngineStep, Evaluate

\* A client's commit starts the count of its rule again.
LEMMA ClientNotified ==
  ASSUME TypeOK, Inv, Notified, NEW r \in RuleId, Touch(r), UNCHANGED << tick, faults >>,
         \A s \in RuleId \ {r} : existence'[s] = existence[s] /\ rules'[s] = rules[s],
         existence'[r] \in {existence[r], "deleted"} \/ existence[r] = "unused",
         existence'[r] # "unused"
  PROVE  Notified'
<1>1. /\ sinceWrite'[r] = 0 /\ \A s \in RuleId \ {r} : sinceWrite'[s] = sinceWrite[s]
      /\ dirty' \subseteq dirty \cup {r}
      /\ UNCHANGED open
  BY DEF Touch, TypeOK
<1>2. Pending' = Pending /\ \A s : InFlight(s)' <=> InFlight(s)
  BY DEF tick, Pending, InFlight
<1>3. /\ faults \in Nat /\ UNCHANGED faults
      /\ \A s \in RuleId : open[s] \in Nat /\ sinceWrite[s] \in Nat
  BY DEF TypeOK
<1>4. OpenBound'
  BY <1>1, <1>2, <1>3 DEF Notified, OpenBound
<1>5. OnceBound'
  BY <1>1, <1>2, <1>3 DEF Notified, OnceBound
<1> QED
  BY <1>4, <1>5 DEF Notified

LEMMA HandlerNotified ==
  ASSUME TypeOK, Inv, Notified, NEW c \in Client, Handler(c) PROVE Notified'
<1> DEFINE r == request[c].rule
<1>1. r \in RuleId
  BY DEF TypeOK, Request
<1>2. ASSUME UNCHANGED << existence, rules, open, dirty, sinceWrite, faults, tick >>
      PROVE  Notified'
  BY <1>2, NotifiedQuiet DEF tick, Pending, InFlight
<1>3. ASSUME NEW new, Save(c, new), UNCHANGED << tick, faults >> PROVE Notified'
  <2>1. CASE existence[r] = "live"
    <3>1. /\ Touch(r) /\ UNCHANGED existence
          /\ \A s \in RuleId \ {r} : rules'[s] = rules[s]
      BY <1>1, <1>3, <2>1 DEF Save, TypeOK
    <3> HIDE DEF r
    <3> QED
      BY <1>1, <1>3, <2>1, <3>1, ClientNotified
  <2>2. CASE existence[r] # "live"
    BY <1>2, <1>3, <2>2 DEF Save, database, observers
  <2> QED
    BY <2>1, <2>2
<1>4. CASE \E op \in Operations, s \in RuleId : LoadRule(c, op, s)
  BY <1>2, <1>4 DEF LoadRule, database, observers
<1>5. CASE (\E form \in Forms : EditRule(c, form)) \/ ToggleRule(c)
  BY <1>3, <1>5 DEF EditRule, ToggleRule, Finish
<1>6. ASSUME NEW s \in RuleId, CloneRule(c, s) PROVE Notified'
  <2>1. /\ existence[s] = "unused" /\ existence'[s] = "live" /\ Touch(s)
        /\ UNCHANGED << tick, faults >>
        /\ \A t \in RuleId \ {s} : existence'[t] = existence[t] /\ rules'[t] = rules[t]
    BY <1>6 DEF CloneRule, Finish, Insert, TypeOK
  <2> QED
    BY <2>1, ClientNotified
<1>7. CASE DeleteRule(c)
  <2>1. /\ existence'[r] = "deleted" /\ Touch(r) /\ UNCHANGED << tick, faults >>
        /\ \A t \in RuleId \ {r} : existence'[t] = existence[t] /\ rules'[t] = rules[t]
    BY <1>1, <1>7 DEF DeleteRule, Finish, TypeOK
  <2> HIDE DEF r
  <2> QED
    BY <1>1, <2>1, ClientNotified
<1> QED
  BY <1>4, <1>5, <1>6, <1>7 DEF Handler

LEMMA EnvironmentNotified == TypeOK /\ Inv /\ Notified /\ Environment => Notified'
<1> SUFFICES ASSUME TypeOK, Inv, Notified, Environment PROVE Notified'
  OBVIOUS
<1>1. ASSUME NEW r \in RuleId, NEW form \in Forms, CreateRule(r, form) PROVE Notified'
  <2>1. /\ existence[r] = "unused" /\ existence'[r] = "live" /\ Touch(r)
        /\ UNCHANGED << tick, faults >>
        /\ \A t \in RuleId \ {r} : existence'[t] = existence[t] /\ rules'[t] = rules[t]
    BY <1>1 DEF CreateRule, Insert, TypeOK
  <2> QED
    BY <2>1, ClientNotified
<1>2. CASE TickFails \/ Crash
  BY <1>2, NotifiedEnd DEF TickFails, Crash, Abort, database
<1>3. CASE ClockTick
  BY <1>3, NotifiedQuiet DEF ClockTick, database, tick, observers, Pending, InFlight
<1>4. ASSUME NEW cutoff, Retention(cutoff) PROVE Notified'
  BY <1>4, NotifiedQuiet DEF Retention, tick, observers, Pending, InFlight
<1> QED
  BY <1>1, <1>2, <1>3, <1>4 DEF Environment

\* A crossing is notified once, and a send_once rule once after its owner last
\* wrote it, but for the faults between a dispatch and its record.
THEOREM DuplicatesTakeFaults == Spec => []DuplicatesNeedFaults
<1>1. Init => Notified
  BY DEF Init, Notified, OpenBound, OnceBound, Pending, Firing, Suppressing
<1>2. TypeOK /\ Inv /\ Notified /\ [Next]_vars => Notified'
  <2>1. Notified /\ UNCHANGED vars => Notified'
    BY NotifiedQuiet DEF vars, database, tick, observers, Pending, InFlight
  <2> QED
    BY <2>1, EngineNotified, HandlerNotified, EnvironmentNotified DEF Next
<1>3. Notified => DuplicatesNeedFaults
  BY DEF Notified, OpenBound, OnceBound, DuplicatesNeedFaults
<1> QED
  BY <1>1, <1>2, <1>3, Invariant, PTL DEF Spec

-----------------------------------------------------------------------------
(* What the history says of a rule: the third inductive invariant.           *)

Reported(r, t) ==
    \E i \in DOMAIN history[r] : history[r][i].status = "patched" /\ history[r][i].at >= t

\* No retention has reached what was written at t or later.
Recent(t) == t >= now - KeepFor

\* A row of the history is the unpatched one only between the two commits.
Unfinished(r, i) == pc = "patch" /\ cur = r /\ i = Len(history[r])

Kept ==
    \A r \in RuleId :
        /\ existence[r] # "live" => history[r] = << >>
        /\ /\ existence[r] = "live"
           /\ rules[r].last_triggered_at # Never
           /\ Recent(rules[r].last_triggered_at)
           => Reported(r, rules[r].last_triggered_at)
        /\ faults = 0 => \A i \in DOMAIN history[r] :
                             history[r][i].status # "log" \/ Unfinished(r, i)

\* The commits of the firing under way come after the moment it decided.
Reporting ==
    /\ firedAt <= now
    /\ existence[cur] = "live" =>
          /\ pc = "patch" => history[cur] # << >> /\ (Recorded = Pruned \/ Recorded.at >= firedAt)
          /\ pc = "state" /\ Recent(firedAt) => Reported(cur, firedAt)

HistoryKept == Kept /\ Reporting

\* The last row of a history that has one.
LEMMA LastRow ==
  ASSUME NEW s \in Seq(HistoryRow), s # << >>
  PROVE  Len(s) \in DOMAIN s /\ s[Len(s)] \in HistoryRow /\ DOMAIN s = 1 .. Len(s)
<1>1. Len(s) \in Nat /\ DOMAIN s = 1 .. Len(s) /\ Len(s) # 0
  OBVIOUS
<1> QED
  BY <1>1

\* The tick ends with its rows patched, by a fault, or on a row that is gone.
LEMMA HistoryEnd ==
  ASSUME TypeOK, HistoryKept, EndSession, UNCHANGED << existence, rules, history, now >>,
         \/ faults' = faults + 1
         \/ faults' = faults /\ (pc = "patch" => existence[cur] # "live")
  PROVE  HistoryKept'
<1>1. Reporting'
  BY DEF TypeOK, EndSession, Reporting
<1>2. \A r, t : (Reported(r, t)' <=> Reported(r, t)) /\ (Recent(t)' <=> Recent(t))
  BY DEF Reported, Recent
<1>3. ASSUME NEW r \in RuleId, faults' = 0, NEW i \in DOMAIN history'[r]
      PROVE  history'[r][i].status # "log"
  <2>1. faults = 0 /\ (pc = "patch" => existence[cur] # "live")
    BY <1>3 DEF TypeOK
  <2>2. existence[r] = "live"
    BY <1>3 DEF HistoryKept, Kept
  <2> QED
    BY <1>3, <2>1, <2>2 DEF HistoryKept, Kept, Unfinished
<1>4. Kept'
  BY <1>2, <1>3 DEF HistoryKept, Kept, Recent
<1> QED
  BY <1>1, <1>4 DEF HistoryKept

\* The session stores a side: the times in the rows stay.
LEMMA HistoryQuiet ==
  ASSUME TypeOK, HistoryKept, UNCHANGED << existence, history, now >>,
         \A r \in RuleId : existence[r] = "live" =>
             rules'[r].last_triggered_at = rules[r].last_triggered_at,
         firedAt' <= now, pc # "patch", pc' \notin {"patch", "state"},
         faults' \in {faults, faults + 1}
  PROVE  HistoryKept'
<1>1. \A r, t : Reported(r, t)' <=> Reported(r, t)
  BY DEF Reported
<1>2. faults' = 0 => faults = 0
  BY DEF TypeOK
<1>3. Kept'
  BY <1>1, <1>2 DEF HistoryKept, Kept, Unfinished, Recent
<1> QED
  BY <1>3 DEF HistoryKept, Reporting

\* The side is recorded without touching the time of the last firing.
LEMMA SideKeepsTime ==
  ASSUME TypeOK, Inv, NEW r \in Pending,
         UpdateRuleState(r, [held[r] EXCEPT !.last_state = SideOf(r)])
  PROVE  \A s \in RuleId : rules'[s].last_triggered_at = rules[s].last_triggered_at
<1> DEFINE new == [held[r] EXCEPT !.last_state = SideOf(r)]
<1>1. r \in RuleId /\ existence[r] = "live"
  BY DEF TypeOK, Pending, UpdateRuleState
<1>2. new \in Row /\ new.last_triggered_at = rules[r].last_triggered_at
  BY <1>1, SidedRowType DEF TypeOK, Row, Inv, CopiesAgree
<1>3. UpdateRuleState(r, new)
  OBVIOUS
<1> HIDE DEF new
<1> QED
  BY <1>1, <1>2, <1>3, UpdateStores

LEMMA RecordKept == TypeOK /\ HistoryKept /\ RecordHistory => HistoryKept'
<1> SUFFICES ASSUME TypeOK, HistoryKept, RecordHistory PROVE HistoryKept'
  OBVIOUS
<1> DEFINE row == [at |-> now, status |-> "log"]
<1>1. /\ pc = "record" /\ pc' = "patch" /\ cur \in RuleId /\ existence[cur] = "live"
      /\ UNCHANGED << existence, rules, cur, firedAt, now, faults >>
      /\ history[cur] \in Seq(HistoryRow) /\ row \in HistoryRow
  BY DEF RecordHistory, TypeOK, HistoryRow
<1>2. /\ history'[cur] = Append(history[cur], row)
      /\ \A s \in RuleId \ {cur} : history'[s] = history[s]
  BY <1>1 DEF RecordHistory, TypeOK
<1>3. /\ Len(history'[cur]) = Len(history[cur]) + 1 /\ Len(history[cur]) \in Nat
      /\ DOMAIN history[cur] = 1 .. Len(history[cur])
      /\ DOMAIN history'[cur] = 1 .. (Len(history[cur]) + 1)
      /\ \A i \in 1 .. Len(history[cur]) : history'[cur][i] = history[cur][i]
      /\ history'[cur][Len(history[cur]) + 1] = row
  BY <1>1, <1>2
<1> HIDE DEF row
<1>4. \A s \in RuleId, t \in Int : Reported(s, t) => Reported(s, t)'
  BY <1>2, <1>3 DEF Reported
<1>5. \A s \in RuleId : rules[s].last_triggered_at \in Int
  BY DEF TypeOK, Row, Never
<1>6. ASSUME NEW s \in RuleId, faults' = 0, NEW i \in DOMAIN history'[s]
      PROVE  history'[s][i].status # "log" \/ Unfinished(s, i)'
  <2>1. faults = 0 /\ pc # "patch"
    BY <1>1, <1>6
  <2>2. \A t \in RuleId : \A k \in DOMAIN history[t] : history[t][k].status # "log"
    BY <2>1 DEF HistoryKept, Kept, Unfinished
  <2>3. CASE s # cur
    BY <1>1, <1>2, <2>2, <2>3
  <2>4. CASE s = cur /\ i = Len(history[cur]) + 1
    BY <1>1, <1>3, <2>4 DEF Unfinished
  <2>5. CASE s = cur /\ i # Len(history[cur]) + 1
    <3>1. i \in 1 .. Len(history[cur]) /\ i \in DOMAIN history[cur]
      BY <1>3, <1>6, <2>5
    <3> QED
      BY <1>1, <1>3, <2>2, <2>5, <3>1
  <2> QED
    BY <2>3, <2>4, <2>5
<1>7. Kept'
  BY <1>1, <1>2, <1>4, <1>5, <1>6 DEF HistoryKept, Kept, Recent
<1>8. Reporting'
  <2>1. history'[cur] # << >>
    BY <1>3
  <2>2. history'[cur][Len(history'[cur])].at = now
    BY <1>3 DEF row
  <2> QED
    BY <1>1, <2>1, <2>2 DEF HistoryKept, Reporting, Recorded
<1> QED
  BY <1>7, <1>8 DEF HistoryKept

LEMMA PatchKept == TypeOK /\ HistoryKept /\ PatchHistory => HistoryKept'
<1> SUFFICES ASSUME TypeOK, HistoryKept, PatchHistory PROVE HistoryKept'
  OBVIOUS
<1> DEFINE last == Len(history[cur])
<1>1. /\ pc = "patch" /\ pc' = "state" /\ cur \in RuleId /\ existence[cur] = "live"
      /\ UNCHANGED << existence, rules, cur, firedAt, now, faults >>
      /\ history[cur] \in Seq(HistoryRow)
  BY DEF PatchHistory, TypeOK
<1>2. history[cur] # << >> /\ history[cur][last].at >= firedAt
  BY <1>1 DEF HistoryKept, Reporting, PatchHistory, Recorded
<1>3. last \in DOMAIN history[cur] /\ history[cur][last] \in HistoryRow
  BY <1>1, <1>2, LastRow
<1>4. /\ history'[cur] = [history[cur] EXCEPT ![last].status = "patched"]
      /\ \A s \in RuleId \ {cur} : history'[s] = history[s]
  BY <1>1 DEF PatchHistory, TypeOK
<1>5. /\ DOMAIN history'[cur] = DOMAIN history[cur]
      /\ history'[cur][last].status = "patched" /\ history'[cur][last].at = history[cur][last].at
      /\ \A i \in DOMAIN history[cur] \ {last} : history'[cur][i] = history[cur][i]
  BY <1>1, <1>3, <1>4 DEF HistoryRow
<1>6. \A s \in RuleId, t \in Int : Reported(s, t) => Reported(s, t)'
  BY <1>3, <1>4, <1>5 DEF Reported
<1>7. \A s \in RuleId : rules[s].last_triggered_at \in Int
  BY DEF TypeOK, Row, Never
<1>8. ASSUME NEW s \in RuleId, faults' = 0, NEW i \in DOMAIN history'[s]
      PROVE  history'[s][i].status # "log"
  <2>1. faults = 0
    BY <1>1, <1>8
  <2>2. CASE s = cur
    <3>1. i \in DOMAIN history[cur]
      BY <1>5, <1>8, <2>2
    <3>2. CASE i = last
      BY <1>5, <2>2, <3>2
    <3>3. CASE i # last
      <4>1. history[cur][i].status # "log"
        BY <1>1, <2>1, <3>1, <3>3 DEF HistoryKept, Kept, Unfinished
      <4> QED
        BY <1>5, <2>2, <3>1, <3>3, <4>1
    <3> QED
      BY <3>2, <3>3
  <2>3. CASE s # cur
    <3>1. history'[s] = history[s] /\ ~Unfinished(s, i)
      BY <1>4, <2>3 DEF Unfinished
    <3> QED
      BY <1>8, <2>1, <3>1 DEF HistoryKept, Kept
  <2> QED
    BY <2>2, <2>3
<1>9. Kept'
  BY <1>1, <1>4, <1>6, <1>7, <1>8 DEF HistoryKept, Kept, Recent
<1>10. Reported(cur, firedAt)'
  BY <1>1, <1>2, <1>3, <1>5 DEF Reported
<1>11. Reporting'
  BY <1>1, <1>10 DEF HistoryKept, Reporting
<1> QED
  BY <1>9, <1>11 DEF HistoryKept

LEMMA FiredKept == TypeOK /\ Inv /\ HistoryKept /\ RecordFiring => HistoryKept'
<1> SUFFICES ASSUME TypeOK, Inv, HistoryKept, RecordFiring PROVE HistoryKept'
  OBVIOUS
<1> DEFINE new == FiredRow(held[cur])
<1>1. /\ pc = "state" /\ pc' = "reload_fired" /\ cur \in RuleId /\ existence[cur] = "live"
      /\ UNCHANGED << existence, history, firedAt, now, faults >>
  BY DEF RecordFiring, UpdateRuleState, TypeOK
<1>2. cur \in Pending
  BY <1>1 DEF Pending, Firing
<1>3. new \in Row /\ new.last_triggered_at = firedAt /\ UpdateRuleState(cur, new)
  BY <1>1, FiredRowType DEF TypeOK, Row, FiredRow, RecordFiring
<1> HIDE DEF new
<1>4. /\ rules'[cur].last_triggered_at = firedAt
      /\ \A s \in RuleId \ {cur} : rules'[s] = rules[s]
  BY <1>2, <1>3, UpdateStores
<1>5. \A s, t : (Reported(s, t)' <=> Reported(s, t)) /\ (Recent(t)' <=> Recent(t))
  BY <1>1 DEF Reported, Recent
<1>6. Kept'
  BY <1>1, <1>4, <1>5 DEF HistoryKept, Kept, Reporting, Unfinished
<1> QED
  BY <1>1, <1>6 DEF HistoryKept, Reporting

LEMMA EngineKept == TypeOK /\ Inv /\ HistoryKept /\ (StartTick \/ EngineStep) => HistoryKept'
<1> SUFFICES ASSUME TypeOK, Inv, HistoryKept, StartTick \/ EngineStep PROVE HistoryKept'
  OBVIOUS
<1> USE DEF database, observers
<1>1. firedAt <= now /\ now \in Nat
  BY DEF TypeOK, HistoryKept, Reporting
<1>2. CASE \/ StartTick \/ FetchPrices \/ SuppressEvent \/ TriggeredEvent
           \/ ReloadSide \/ ReloadFired
  BY <1>1, <1>2, HistoryQuiet DEF StartTick, FetchPrices, SuppressEvent, TriggeredEvent, WriteEvent,
                                  ReloadSide, ReloadFired, Reload
<1>3. ASSUME NEW r \in RuleId, SkipUnpriced(r) \/ StartFire(r) \/ StartSuppress(r)
      PROVE  HistoryKept'
  BY <1>1, <1>3, HistoryQuiet DEF SkipUnpriced, StartFire, StartSuppress, Trigger, TakeRule
<1>4. ASSUME NEW r \in RuleId, TrackState(r) PROVE HistoryKept'
  <2>1. r \in Pending
    BY <1>4 DEF TrackState, TakeRule, Pending
  <2>2. \A s \in RuleId : rules'[s].last_triggered_at = rules[s].last_triggered_at
    BY <1>4, <2>1, SideKeepsTime DEF TrackState, NewSide
  <2> QED
    BY <1>1, <1>4, <2>2, HistoryQuiet DEF TrackState, TakeRule, NewSide
<1>5. CASE SuppressState
  <2>1. cur \in Pending
    BY <1>5 DEF SuppressState, Pending, Suppressing
  <2>2. \A s \in RuleId : rules'[s].last_triggered_at = rules[s].last_triggered_at
    BY <1>5, <2>1, SideKeepsTime DEF SuppressState
  <2> QED
    BY <1>1, <1>5, <2>2, HistoryQuiet DEF SuppressState
<1>6. CASE SendAlert
  BY <1>1, <1>6, HistoryQuiet DEF SendAlert
<1>7. ASSUME NEW r \in RuleId, RowGone(r) PROVE HistoryKept'
  BY <1>7, HistoryEnd DEF RowGone, NeedsRow, Abort
<1>8. CASE FetchFails \/ SessionBroken \/ EndTick \/ RecordPruned
  BY <1>8, HistoryEnd DEF FetchFails, SessionBroken, EndTick, RecordPruned, Abort
<1> QED
  BY <1>2, <1>3, <1>4, <1>5, <1>6, <1>7, <1>8, RecordKept, PatchKept, FiredKept
     DEF EngineStep, Evaluate

\* A client's commit writes no time and no history, or removes both.
LEMMA ClientKept ==
  ASSUME TypeOK, HistoryKept, NEW r \in RuleId, UNCHANGED << pc, cur, firedAt, now, faults >>,
         \A s \in RuleId \ {r} : /\ existence'[s] = existence[s] /\ rules'[s] = rules[s]
                                 /\ history'[s] = history[s],
         \/ existence'[r] # "live" /\ history'[r] = << >>
         \/ existence[r] = "live" /\ existence'[r] = "live" /\ history'[r] = history[r]
               /\ rules'[r].last_triggered_at = rules[r].last_triggered_at
         \/ existence[r] # "live" /\ cur # r /\ history'[r] = history[r]
               /\ rules'[r].last_triggered_at = Never
         \/ existence[r] # "live" /\ pc \notin {"patch", "state"} /\ history'[r] = history[r]
               /\ rules'[r].last_triggered_at = Never
  PROVE  HistoryKept'
<1>1. \A s \in RuleId : \A t : /\ history'[s] = history[s] => (Reported(s, t)' <=> Reported(s, t))
                              /\ Recent(t)' <=> Recent(t)
  BY DEF Reported, Recent
<1>2. Kept'
  <2> SUFFICES ASSUME NEW s \in RuleId
               PROVE  /\ existence'[s] # "live" => history'[s] = << >>
                      /\ existence'[s] = "live" /\ rules'[s].last_triggered_at # Never
                         /\ Recent(rules[s].last_triggered_at)' =>
                            Reported(s, rules[s].last_triggered_at)'
                      /\ faults' = 0 => \A i \in DOMAIN history'[s] :
                            history'[s][i].status # "log" \/ Unfinished(s, i)'
    BY DEF Kept
  <2>1. CASE history'[s] = history[s]
    BY <1>1, <2>1 DEF HistoryKept, Kept, Unfinished, Recent
  <2>2. CASE history'[s] = << >> /\ existence'[s] # "live"
    BY <2>2
  <2> QED
    BY <2>1, <2>2
<1>3. Reporting'
  BY <1>1 DEF HistoryKept, Reporting, Recorded, Recent, TypeOK
<1> QED
  BY <1>2, <1>3 DEF HistoryKept

\* The retention takes no row that is recent, and no row's delivery status.
LEMMA RetentionKept ==
  ASSUME TypeOK, HistoryKept, NEW cutoff \in 1 .. now - KeepFor, Retention(cutoff)
  PROVE  HistoryKept'
<1>1. /\ UNCHANGED << existence, rules, pc, cur, firedAt, now, faults >>
      /\ now \in Int /\ KeepFor \in Int /\ cutoff <= now - KeepFor
  BY KeepAssumption DEF Retention, tick, TypeOK
<1>2. ASSUME NEW r \in RuleId
      PROVE  /\ Len(history'[r]) = Len(history[r]) /\ DOMAIN history'[r] = DOMAIN history[r]
             /\ \A i \in DOMAIN history[r] :
                    \/ history'[r][i] = Pruned
                    \/ history'[r][i] = history[r][i]
             /\ \A i \in DOMAIN history[r] :
                    history[r][i].at >= cutoff => history'[r][i] = history[r][i]
             /\ history[r] \in Seq(HistoryRow) /\ history'[r] \in Seq(HistoryRow)
  <2>1. history[r] \in Seq(HistoryRow)
    BY <1>2 DEF TypeOK
  <2> DEFINE t == [i \in DOMAIN history[r] |->
                     IF history[r][i].at < cutoff THEN Pruned ELSE history[r][i]]
  <2>2. history'[r] = t
    BY <1>2 DEF Retention
  <2>3. /\ Len(history'[r]) = Len(history[r]) /\ DOMAIN history'[r] = DOMAIN history[r]
        /\ history'[r] \in Seq(HistoryRow)
    <3>1. t \in Seq(HistoryRow) /\ Len(t) = Len(history[r]) /\ DOMAIN t = DOMAIN history[r]
      BY <2>1, PrunedRows
    <3> HIDE DEF t
    <3> QED
      BY <2>2, <3>1
  <2>4. ASSUME NEW i \in DOMAIN history[r]
        PROVE  /\ history'[r][i] = Pruned \/ history'[r][i] = history[r][i]
               /\ history[r][i].at >= cutoff => history'[r][i] = history[r][i]
    <3>1. i \in 1 .. Len(history[r]) /\ history[r][i] \in HistoryRow
      BY <2>1, <2>4, LenProperties, ElementOfSeq
    <3>2. history[r][i].at \in Int /\ cutoff \in Int
      BY <3>1 DEF HistoryRow
    <3>3. history'[r][i] = IF history[r][i].at < cutoff THEN Pruned ELSE history[r][i]
      BY <2>2, <2>4
    <3> QED
      BY <3>2, <3>3
  <2> QED
    BY <2>1, <2>3, <2>4
<1>3. ASSUME NEW r \in RuleId, NEW t \in Int, Recent(t), Reported(r, t) PROVE Reported(r, t)'
  <2>1. PICK i \in DOMAIN history[r] :
                 history[r][i].status = "patched" /\ history[r][i].at >= t
    BY <1>3 DEF Reported
  <2>2. history[r][i].at \in Int
    <3>1. history[r] \in Seq(HistoryRow)
      BY <1>2, <1>3
    <3>2. history[r][i] \in HistoryRow
      BY <2>1, <3>1, LenProperties, ElementOfSeq
    <3> QED
      BY <3>2 DEF HistoryRow
  <2>3. history'[r][i] = history[r][i]
    BY <1>1, <1>2, <1>3, <2>1, <2>2 DEF Recent
  <2> QED
    BY <1>2, <2>1, <2>3 DEF Reported
<1>4. \A r \in RuleId : rules[r].last_triggered_at \in Int
  BY DEF TypeOK, Row, Never
<1>5. \A t : Recent(t)' <=> Recent(t)
  BY <1>1 DEF Recent
<1>6. ASSUME NEW r \in RuleId, faults' = 0, NEW i \in DOMAIN history'[r]
      PROVE  history'[r][i].status # "log" \/ Unfinished(r, i)'
  BY <1>1, <1>2, <1>6 DEF HistoryKept, Kept, Unfinished, Pruned
<1>7. ASSUME NEW r \in RuleId, existence[r] # "live" PROVE history'[r] = << >>
  <2>1. history[r] = << >>
    BY <1>7 DEF HistoryKept, Kept
  <2> QED
    BY <1>2, <1>7, <2>1, EmptySeq
<1>8. Kept'
  BY <1>1, <1>3, <1>4, <1>5, <1>6, <1>7 DEF HistoryKept, Kept
<1>9. Reporting'
  <2>1. cur \in RuleId /\ firedAt \in Int
    BY DEF TypeOK
  <2>2. ASSUME existence[cur] = "live", pc = "patch"
        PROVE  history'[cur] # << >> /\ (Recorded' = Pruned \/ Recorded'.at >= firedAt)
    <3>1. history[cur] # << >> /\ (Recorded = Pruned \/ Recorded.at >= firedAt)
      BY <2>2 DEF HistoryKept, Reporting
    <3>2. Len(history[cur]) \in DOMAIN history[cur]
      BY <1>2, <2>1, <3>1, LastRow
    <3>3. history'[cur] # << >>
      BY <1>2, <2>1, <3>1, EmptySeq
    <3>4. Recorded' = Pruned \/ Recorded' = Recorded
      BY <1>1, <1>2, <2>1, <3>2 DEF Recorded
    <3> QED
      BY <3>1, <3>3, <3>4
  <2> QED
    BY <1>1, <1>3, <1>5, <2>1, <2>2 DEF HistoryKept, Reporting
<1> QED
  BY <1>8, <1>9 DEF HistoryKept

\* A rule that is inserted is not the one the tick is writing about.
LEMMA InsertKept ==
  ASSUME TypeOK, Inv, HistoryKept, NEW r \in RuleId, NEW row, Insert(r, row),
         row.last_triggered_at = Never, UNCHANGED << pc, cur, firedAt, now, faults >>
  PROVE  HistoryKept'
<1>1. /\ existence[r] = "unused" /\ rules'[r] = row /\ history' = history
      /\ \A s \in RuleId \ {r} : existence'[s] = existence[s] /\ rules'[s] = rules[s]
  BY DEF Insert, TypeOK
<1>2. pc \in {"patch", "state"} => cur # r
  BY <1>1 DEF Inv, TickShape, Pending, Firing
<1> QED
  BY <1>1, <1>2, ClientKept

LEMMA SaveKept ==
  ASSUME TypeOK, HistoryKept, NEW c \in Client, NEW new \in Row, Save(c, new),
         UNCHANGED << pc, cur, firedAt, now, faults >>,
         new.last_state = request[c].row.last_state,
         new.last_triggered_at = request[c].row.last_triggered_at
  PROVE  HistoryKept'
<1> DEFINE r == request[c].rule
<1>1. r \in RuleId /\ request[c].row \in Row /\ rules[r] \in Row
  BY DEF TypeOK, Request
<1>2. CASE existence[r] = "live"
  <2>1. /\ UNCHANGED << existence, history >>
        /\ rules'[r] = Flush(rules[r], request[c].row, new)
        /\ \A s \in RuleId \ {r} : rules'[s] = rules[s]
    BY <1>1, <1>2 DEF Save, TypeOK
  <2>2. rules'[r].last_triggered_at = rules[r].last_triggered_at
    BY <1>1, <2>1, FlushKeeps
  <2> HIDE DEF r
  <2> QED
    BY <1>1, <1>2, <2>1, <2>2, ClientKept
<1>3. CASE existence[r] # "live"
  <2>1. UNCHANGED << existence, rules, history >>
    BY <1>3 DEF Save, database
  <2> HIDE DEF r
  <2>2. history[r] = << >>
    BY <1>1, <1>3 DEF HistoryKept, Kept
  <2> QED
    BY <1>1, <1>3, <2>1, <2>2, ClientKept
<1> QED
  BY <1>2, <1>3

LEMMA HandlerKept ==
  ASSUME TypeOK, Inv, HistoryKept, NEW c \in Client, Handler(c) PROVE HistoryKept'
<1>1. request[c].rule \in RuleId /\ request[c].row \in Row
  BY DEF TypeOK, Request
<1>2. UNCHANGED << pc, cur, firedAt, now, faults >>
  BY DEF Handler, LoadRule, EditRule, ToggleRule, CloneRule, DeleteRule, Finish, tick
<1>3. ASSUME NEW op \in Operations, NEW r \in RuleId, LoadRule(c, op, r) PROVE HistoryKept'
  <2>1. existence[r] = "live" /\ UNCHANGED << existence, rules, history >>
    BY <1>3 DEF LoadRule, database
  <2> QED
    BY <1>2, <2>1, ClientKept
<1>4. ASSUME NEW form \in Forms, EditRule(c, form) PROVE HistoryKept'
  <2> DEFINE new == [request[c].row EXCEPT !.config = EditedConfig(@, form)]
  <2>1. EditedConfig(request[c].row.config, form) \in Config
    BY <1>1, FormsAssumption, EditedConfigType DEF Row
  <2>2. /\ new \in Row /\ new.last_state = request[c].row.last_state
        /\ new.last_triggered_at = request[c].row.last_triggered_at
    BY <1>1, <2>1 DEF Row
  <2>3. Save(c, new)
    BY <1>4 DEF EditRule
  <2> HIDE DEF new
  <2> QED
    BY <1>2, <2>2, <2>3, SaveKept
<1>5. CASE ToggleRule(c)
  <2> DEFINE new == [request[c].row EXCEPT !.is_active = ~@]
  <2>1. /\ new \in Row /\ new.last_state = request[c].row.last_state
        /\ new.last_triggered_at = request[c].row.last_triggered_at
    BY <1>1 DEF Row
  <2>2. Save(c, new)
    BY <1>5 DEF ToggleRule
  <2> HIDE DEF new
  <2> QED
    BY <1>2, <2>1, <2>2, SaveKept
<1>6. ASSUME NEW r \in RuleId, CloneRule(c, r) PROVE HistoryKept'
  <2> DEFINE row == [NewRow(CloneConfig(request[c].row.config)) EXCEPT !.is_active = FALSE]
  <2>1. row.last_triggered_at = Never
    BY DEF NewRow
  <2>2. Insert(r, row)
    BY <1>6 DEF CloneRule
  <2> HIDE DEF row
  <2> QED
    BY <1>2, <2>1, <2>2, InsertKept
<1>7. CASE DeleteRule(c)
  <2> DEFINE r == request[c].rule
  <2>1. /\ existence'[r] # "live" /\ history'[r] = << >>
        /\ \A s \in RuleId \ {r} : /\ existence'[s] = existence[s] /\ rules'[s] = rules[s]
                                   /\ history'[s] = history[s]
    BY <1>1, <1>7 DEF DeleteRule, TypeOK
  <2> HIDE DEF r
  <2> QED
    BY <1>1, <1>2, <2>1, ClientKept DEF r
<1> QED
  BY <1>3, <1>4, <1>5, <1>6, <1>7 DEF Handler

LEMMA EnvironmentKept == TypeOK /\ Inv /\ HistoryKept /\ Environment => HistoryKept'
<1> SUFFICES ASSUME TypeOK, Inv, HistoryKept, Environment PROVE HistoryKept'
  OBVIOUS
<1>1. ASSUME NEW r \in RuleId, NEW form \in Forms, CreateRule(r, form) PROVE HistoryKept'
  <2>1. NewRow(form).last_triggered_at = Never
    BY DEF NewRow
  <2> QED
    BY <1>1, <2>1, InsertKept DEF CreateRule, tick
<1>2. CASE TickFails \/ Crash
  BY <1>2, HistoryEnd DEF TickFails, Crash, Abort, database
<1>3. CASE ClockTick
  <2>1. UNCHANGED << existence, rules, history, pc, cur, firedAt, faults >> /\ now' = now + 1
    BY <1>3 DEF ClockTick, database, tick
  <2>2. \A s, t : Reported(s, t)' <=> Reported(s, t)
    BY <2>1 DEF Reported
  <2>3. \A t \in Int : Recent(t)' => Recent(t)
    BY <2>1, KeepAssumption DEF Recent, TypeOK
  <2>4. firedAt \in Int /\ \A s \in RuleId : rules[s].last_triggered_at \in Int
    BY DEF TypeOK, Row, Never
  <2>5. Kept'
    BY <2>1, <2>2, <2>3, <2>4 DEF HistoryKept, Kept, Unfinished
  <2>6. Reporting'
    BY <2>1, <2>2, <2>3, <2>4 DEF HistoryKept, Reporting, Recorded, TypeOK
  <2> QED
    BY <2>5, <2>6 DEF HistoryKept
<1> QED
  BY <1>1, <1>2, <1>3, RetentionKept DEF Environment

\* A recorded firing that no retention may have reached has a history row with its
\* delivery status, across the three commits and next to any retention, and a
\* provisional status stays only after a fault.
THEOREM FiringAlwaysHasHistory == Spec => []FiringHasHistory
<1>1. Init => HistoryKept
  BY DEF Init, HistoryKept, Kept, Reporting, Unfinished
<1>2. TypeOK /\ Inv /\ HistoryKept /\ [Next]_vars => HistoryKept'
  <2>1. HistoryKept /\ UNCHANGED vars => HistoryKept'
    BY DEF vars, database, tick, HistoryKept, Kept, Reporting, Reported, Unfinished, Recent,
           Recorded
  <2> QED
    BY <2>1, EngineKept, HandlerKept, EnvironmentKept DEF Next
<1>3. TypeOK /\ HistoryKept => FiringHasHistory
  <2>1. ASSUME TypeOK, HistoryKept, NEW r \in RuleId, NEW i \in DOMAIN history[r]
        PROVE  history[r][i].status # "log" \/ faults > 0 \/ (pc = "patch" /\ cur = r)
    BY <2>1 DEF TypeOK, HistoryKept, Kept, Unfinished
  <2> QED
    BY <2>1 DEF HistoryKept, Kept, Reported, Recent, FiringHasHistory
<1> QED
  BY <1>1, <1>2, <1>3, Invariant, PTL DEF Spec

-----------------------------------------------------------------------------
(* The refinement: the row of an unedited rule implements OneRule.           *)

\* What _fire decided on stays true until it has recorded it, across its awaits.
Deciding ==
    /\ now <= MaxTime /\ firedAt <= now
    /\ \A r \in RuleId : seen[r].at <= now
    /\ Busy => /\ PriceOf(cur) # NoPrice /\ seen[cur].at <= firedAt
               /\ ShouldTrigger(held[cur], PriceOf(cur), firedAt)
    /\ pc \in Firing => PassesWindow(held[cur].config, firedAt)
    /\ pc \in Suppressing => ~PassesWindow(held[cur].config, firedAt)

\* Nobody wrote a rule that the tick has loaded, and nobody deleted one.
Unedited ==
    /\ \A r \in RuleId : /\ existence[r] # "deleted"
                         /\ existence[r] = "unused" => rules[r] = BlankRow
    /\ \A r \in Pending : r \notin dirty
    /\ pc = "idle" => dirty = {}

\* A step that leaves the firing under way alone, or ends it.
LEMMA DecidingQuiet ==
  ASSUME Deciding, UNCHANGED << now, seen >>, firedAt' <= now,
         Busy' => UNCHANGED << cur, held, prices, firedAt >>,
         pc' \in Firing => pc \in Firing, pc' \in Suppressing => pc \in Suppressing
  PROVE  Deciding'
<1>1. Busy' => Busy
  BY DEF Busy
<1>2. Busy' => /\ PriceOf(cur)' = PriceOf(cur) /\ held'[cur'] = held[cur]
               /\ firedAt' = firedAt
  BY DEF PriceOf
<1> QED
  BY <1>1, <1>2 DEF Deciding, ShouldTrigger, Busy

\* An observation at a time between what was seen before and now.
LEMMA DecidingObserve ==
  ASSUME TypeOK, Deciding, NEW r \in RuleId, NEW t \in Nat, t <= now, Observe(r, t),
         UNCHANGED << now, firedAt >>, ~Busy'
  PROVE  Deciding'
<1>1. \A s \in RuleId : seen'[s].at <= now
  BY DEF TypeOK, Deciding, Observe
<1> QED
  BY <1>1 DEF Deciding, Busy

LEMMA EngineDeciding == TypeOK /\ Deciding /\ (StartTick \/ EngineStep) => Deciding'
<1> SUFFICES ASSUME TypeOK, Deciding, StartTick \/ EngineStep PROVE Deciding'
  OBVIOUS
<1> USE DEF database, observers, Firing, Suppressing
<1>1. firedAt <= now /\ now \in Nat /\ firedAt \in Nat
  BY DEF TypeOK, Deciding
<1>2. CASE \/ StartTick \/ FetchPrices \/ SuppressEvent \/ TriggeredEvent \/ RecordHistory
           \/ PatchHistory \/ SendAlert \/ ReloadSide \/ ReloadFired
  BY <1>1, <1>2, DecidingQuiet
     DEF StartTick, FetchPrices, SuppressEvent, TriggeredEvent, WriteEvent, RecordHistory,
         PatchHistory, SendAlert, ReloadSide, ReloadFired, Reload, Busy
<1>3. ASSUME NEW r \in RuleId, SkipUnpriced(r) PROVE Deciding'
  BY <1>1, <1>3, DecidingQuiet DEF SkipUnpriced, Busy
<1>4. ASSUME NEW r \in RuleId, StartFire(r) \/ StartSuppress(r) PROVE Deciding'
  <2>1. /\ cur' = r /\ firedAt' = now /\ pc' \in {"send", "suppress_event"}
        /\ UNCHANGED << held, prices, now, seen >>
        /\ PriceOf(r) # NoPrice /\ ShouldTrigger(held[r], PriceOf(r), now)
        /\ pc' = "send" <=> PassesWindow(held[r].config, now)
    BY <1>4 DEF StartFire, StartSuppress, Trigger, TakeRule
  <2>2. PriceOf(cur)' = PriceOf(r) /\ held'[cur'] = held[r]
    BY <2>1 DEF PriceOf
  <2>3. seen'[cur'].at <= firedAt'
    BY <2>1 DEF Deciding
  <2>4. ShouldTrigger(held[cur], PriceOf(cur), firedAt)'
    BY <2>1, <2>2 DEF ShouldTrigger
  <2>5. (PassesWindow(held[cur].config, firedAt))' <=> PassesWindow(held[r].config, now)
    BY <2>1, <2>2 DEF PassesWindow, InActiveWindow
  <2> QED
    BY <1>1, <2>1, <2>2, <2>3, <2>4, <2>5 DEF Deciding
<1>5. ASSUME NEW r \in RuleId, TrackState(r) PROVE Deciding'
  BY <1>1, <1>5, DecidingObserve DEF TrackState, TakeRule, NewSide, Busy
<1>6. CASE SuppressState \/ RecordFiring
  BY <1>1, <1>6, DecidingObserve DEF SuppressState, RecordFiring, Busy, TypeOK
<1>7. CASE FetchFails \/ SessionBroken \/ EndTick \/ RecordPruned \/ \E r \in RuleId : RowGone(r)
  BY <1>1, <1>7, DecidingQuiet
     DEF FetchFails, SessionBroken, EndTick, RecordPruned, RowGone, Abort, EndSession, Busy
<1> QED
  BY <1>2, <1>3, <1>4, <1>5, <1>6, <1>7 DEF EngineStep, Evaluate

LEMMA OthersDeciding ==
  TypeOK /\ Deciding /\ ((\E c \in Client : Handler(c)) \/ Environment) => Deciding'
<1> SUFFICES ASSUME TypeOK, Deciding, (\E c \in Client : Handler(c)) \/ Environment
             PROVE  Deciding'
  OBVIOUS
<1> USE DEF Firing, Suppressing
<1>1. firedAt <= now /\ now \in Nat /\ firedAt \in Nat
  BY DEF TypeOK, Deciding
<1>2. CASE \E c \in Client : Handler(c)
  <2>1. UNCHANGED << now, seen, cur, held, prices, firedAt, pc >>
    BY <1>2 DEF Handler, LoadRule, EditRule, ToggleRule, CloneRule, DeleteRule, Finish, Save,
                Touch, tick, observers
  <2> QED
    BY <1>1, <2>1, DecidingQuiet
<1>3. CASE \E r \in RuleId, form \in Forms : CreateRule(r, form)
  <2>1. UNCHANGED << now, seen, cur, held, prices, firedAt, pc >>
    BY <1>3 DEF CreateRule, Touch, tick
  <2> QED
    BY <1>1, <2>1, DecidingQuiet
<1>4. CASE TickFails \/ Crash
  BY <1>1, <1>4, DecidingQuiet DEF TickFails, Crash, Abort, EndSession, Busy
<1>5. CASE ClockTick
  <2>1. /\ UNCHANGED << seen, cur, held, prices, firedAt, pc >>
        /\ now' = now + 1 /\ now < MaxTime
    BY <1>5 DEF ClockTick, tick, observers
  <2>2. now' <= MaxTime /\ firedAt' <= now' /\ \A r \in RuleId : seen'[r].at <= now'
    BY <1>1, <2>1, BoundsAssumption DEF Deciding, TypeOK, Observation
  <2>3. PriceOf(cur)' = PriceOf(cur)
    BY <2>1 DEF PriceOf
  <2> QED
    BY <2>1, <2>2, <2>3 DEF Deciding, ShouldTrigger, Busy
<1>6. ASSUME NEW cutoff, Retention(cutoff) PROVE Deciding'
  BY <1>1, <1>6, DecidingQuiet DEF Retention, tick, observers, Busy
<1> QED
  BY <1>2, <1>3, <1>4, <1>5, <1>6 DEF Environment

\* Without clients a row is written by its creation and by the tick only.
LEMMA UneditedStep ==
  ASSUME Client = {}, TypeOK, Inv, Unedited, [Next]_vars
  PROVE  Unedited'
<1> USE DEF database, tick, observers, Firing, Suppressing
<1>1. ASSUME NEW r \in RuleId, NEW form \in Forms, CreateRule(r, form) PROVE Unedited'
  <2>1. /\ existence[r] = "unused" /\ existence'[r] = "live"
        /\ \A s \in RuleId \ {r} : existence'[s] = existence[s] /\ rules'[s] = rules[s]
    BY <1>1 DEF CreateRule, Insert, TypeOK
  <2>2. /\ Pending' = Pending /\ dirty' \subseteq dirty \cup {r} /\ r \notin Pending
        /\ pc' = pc /\ (pc = "idle" => dirty' = dirty)
    BY <1>1, <2>1 DEF CreateRule, Touch, Pending, Inv, TickShape
  <2> QED
    BY <2>1, <2>2 DEF Unedited
<1>2. CASE ~\E r \in RuleId, form \in Forms : CreateRule(r, form)
  <2>1. existence' = existence
    BY <1>2 DEF vars, Next, EngineStep, Environment, StartTick, FetchPrices, FetchFails,
       Evaluate, SkipUnpriced, TrackState, StartFire, StartSuppress, Trigger, RowGone,
       SuppressEvent, SuppressState, SendAlert, RecordHistory, PatchHistory, RecordPruned,
       RecordFiring, ReloadSide, ReloadFired, Reload, TriggeredEvent, WriteEvent,
       SessionBroken, EndTick, Abort, Retention, TickFails, Crash, ClockTick
  <2>2. \A r \in RuleId : existence[r] = "unused" => rules'[r] = rules[r]
    <3>1. ASSUME NEW s \in RuleId, NEW new, UpdateRuleState(s, new)
          PROVE  \A r \in RuleId : existence[r] = "unused" => rules'[r] = rules[r]
      BY <3>1 DEF UpdateRuleState, TypeOK
    <3>2. CASE RecordFiring \/ SuppressState \/ \E s \in RuleId : TrackState(s)
      BY <3>1, <3>2 DEF RecordFiring, SuppressState, TrackState, NewSide, TypeOK
    <3>3. CASE ~(RecordFiring \/ SuppressState \/ \E s \in RuleId : TrackState(s))
      BY <1>2, <3>3 DEF vars, Next, EngineStep, Environment, StartTick, FetchPrices,
         FetchFails, Evaluate, SkipUnpriced, StartFire, StartSuppress, Trigger, RowGone,
         SuppressEvent, SendAlert, RecordHistory, PatchHistory, RecordPruned, ReloadSide,
         ReloadFired, Reload, TriggeredEvent, WriteEvent, SessionBroken, EndTick, Abort,
         Retention, TickFails, Crash, ClockTick
    <3> QED
      BY <3>2, <3>3
  <2>3. /\ \A r \in Pending' : r \notin dirty'
        /\ pc' = "idle" => dirty' = {}
    <3>1. CASE StartTick
      <4>1. pc = "idle" /\ pc' = "fetch" /\ dirty' = dirty
        BY <3>1 DEF StartTick
      <4> QED
        BY <3>1, <4>1 DEF Unedited
    <3>2. CASE EndSession
      BY <3>2 DEF EndSession, Pending
    <3>3. CASE ~StartTick /\ ~EndSession
      <4>1. /\ Pending' \subseteq Pending /\ dirty' = dirty
            /\ pc' = "idle" => pc = "idle"
        BY <1>2, <3>3 DEF vars, Next, EngineStep, Environment, FetchPrices, FetchFails,
           Evaluate, SkipUnpriced, TrackState, NewSide, StartFire, StartSuppress, Trigger,
           TakeRule, RowGone, SuppressEvent, SuppressState, SendAlert, RecordHistory,
           PatchHistory, RecordPruned, RecordFiring, ReloadSide, ReloadFired, Reload,
           TriggeredEvent, WriteEvent, SessionBroken, EndTick, Abort, Retention, TickFails,
           Crash, ClockTick, Pending
      <4> QED
        BY <4>1 DEF Unedited
    <3> QED
      BY <3>1, <3>2, <3>3
  <2> QED
    BY <2>1, <2>2, <2>3 DEF Unedited
<1> QED
  BY <1>1, <1>2


\* A flush of a current copy stores what the session made of it.
LEMMA FlushCurrent ==
  ASSUME NEW stored \in Row, NEW new \in Row
  PROVE  Flush(stored, stored, new) = new
<1>1. stored.config \in Config /\ new.config \in Config
  BY DEF Row
<1>2. MergeConfig(stored.config, stored.config, new.config) = new.config
  BY <1>1 DEF MergeConfig, Written, Config
<1> QED
  BY <1>2 DEF Flush, Written, Row

\* The instance asks its questions by the very operators of the engine.
LEMMA SameOperators ==
  /\ Rule1!Never = Never
  /\ \A p, th : Rule1!CurrentState(p, th) = CurrentState(p, th)
  /\ \A c, t : Rule1!PassesWindow(c, t) <=> PassesWindow(c, t)
  /\ \A row, p, t : Rule1!ShouldTrigger(row, p, t) <=> ShouldTrigger(row, p, t)
BY DEF Rule1!Never, Never, Rule1!CurrentState, CurrentState,
       Rule1!ShouldTrigger, ShouldTrigger, Rule1!Crossing, Crossing,
       Rule1!CooledDown, CooledDown, Rule1!PassesWindow, PassesWindow,
       Rule1!InActiveWindow, InActiveWindow, Rule1!InHours, InHours,
       Rule1!LocalTime, LocalTime, Rule1!Unset, Unset

\* OneRule fires where the engine, looking at a current copy, decides to.
LEMMA SameDecision ==
  ASSUME NEW t, NEW p, held[AnyRule] = rules[AnyRule]
  PROVE  Rule1!Fires(t, p) <=> /\ ShouldTrigger(held[AnyRule], p, t)
                               /\ PassesWindow(held[AnyRule].config, t)
BY SameOperators DEF Rule1!Fires, Watched, ShouldTrigger

\* What the tick holds of a pending rule is its row, and the rule is active.
LEMMA UneditedCopy ==
  ASSUME TypeOK, Inv, Unedited, NEW r \in Pending
  PROVE  /\ r \in RuleId /\ existence[r] = "live" /\ rules[r].is_active = TRUE
         /\ held[r] = rules[r] /\ rules[r] \in Row
<1>1. r \in RuleId /\ r \notin dirty
  BY DEF TypeOK, Pending, Unedited
<1> QED
  BY <1>1 DEF TypeOK, Row, Inv, CopiesAgree

\* A look that does not fire: the side is recorded, or it was already.
LEMMA LookStep ==
  ASSUME TypeOK, Inv, Unedited, AnyRule \in Pending, NEW t \in 0 .. MaxTime,
         t >= seen[AnyRule].at, PriceOf(AnyRule) # NoPrice,
         ~ShouldTrigger(held[AnyRule], PriceOf(AnyRule), t)
           \/ ~PassesWindow(held[AnyRule].config, t),
         \/ Unchanged(AnyRule) /\ rules' = rules
         \/ UpdateRuleState(AnyRule, [held[AnyRule] EXCEPT !.last_state = SideOf(AnyRule)]),
         Observe(AnyRule, t)
  PROVE  Rule1!Next
<1> DEFINE r == AnyRule
           p == PriceOf(r)
           new == [held[r] EXCEPT !.last_state = SideOf(r)]
<1>1. /\ r \in RuleId /\ existence[r] = "live" /\ rules[r].is_active = TRUE
      /\ held[r] = rules[r] /\ rules[r] \in Row
  BY UneditedCopy
<1>2. p \in Price
  BY <1>1 DEF TypeOK, PriceOf, Row, Config
<1>3. seen'[r].at = t
  BY <1>1 DEF Observe, TypeOK
<1>4. /\ rules'[r].last_state = SideOf(r)
      /\ rules'[r].config = rules[r].config
      /\ rules'[r].is_active = rules[r].is_active
      /\ rules'[r].last_triggered_at = rules[r].last_triggered_at
  <2>1. CASE Unchanged(r) /\ rules' = rules
    BY <1>1, <2>1 DEF Unchanged
  <2>2. CASE UpdateRuleState(r, new)
    <3>1. /\ new \in Row /\ new.last_state = SideOf(r) /\ new.config = rules[r].config
          /\ new.is_active = rules[r].is_active
          /\ new.last_triggered_at = rules[r].last_triggered_at
      BY <1>1, SidedRowType DEF Row
    <3>2. rules'[r] = Flush(rules[r], rules[r], new)
      BY <1>1, <2>2 DEF UpdateRuleState, TypeOK
    <3> HIDE DEF new, r
    <3> QED
      BY <1>1, <3>1, <3>2, FlushCurrent
  <2> QED
    BY <2>1, <2>2
<1>5. ~Rule1!Fires(t, p)
  BY <1>1, SameDecision
<1>6. SideOf(r) = Rule1!CurrentState(p, Watched.config.threshold)
  BY <1>1, SameOperators DEF SideOf, Watched
<1>7. Rule1!Look(t, p)
  BY <1>1, <1>3, <1>4, <1>5, <1>6 DEF Rule1!Look, Rule1!Record, Watched
<1> QED
  BY <1>2, <1>7 DEF Rule1!Next

\* The commit that records a firing is the firing, at the time it was decided.
LEMMA FireStep ==
  ASSUME TypeOK, Inv, Unedited, Deciding, RecordFiring, cur = AnyRule
  PROVE  Rule1!Next
<1> DEFINE r == AnyRule
           p == PriceOf(r)
           new == FiredRow(held[r])
<1>1. pc = "state" /\ r \in Pending /\ Busy
  BY DEF RecordFiring, Pending, Busy, Firing
<1>2. /\ r \in RuleId /\ existence[r] = "live" /\ rules[r].is_active = TRUE
      /\ held[r] = rules[r] /\ rules[r] \in Row
  BY <1>1, UneditedCopy
<1>3. p \in Price /\ firedAt \in 0 .. MaxTime /\ firedAt >= seen[r].at
  <2>1. p # NoPrice /\ firedAt \in Nat /\ now \in Nat /\ MaxTime \in Nat
        /\ firedAt <= now /\ now <= MaxTime /\ seen[r].at <= firedAt /\ seen[r].at \in Nat
    BY <1>1, <1>2, BoundsAssumption DEF TypeOK, Deciding, Observation
  <2> QED
    BY <1>2, <2>1 DEF TypeOK, PriceOf, Row, Config
<1>4. seen'[r].at = firedAt
  BY <1>2 DEF RecordFiring, Observe, TypeOK
<1>5. /\ new \in Row /\ new.last_state = SideOf(r) /\ new.config = rules[r].config
      /\ new.is_active = ~rules[r].config.send_once /\ new.last_triggered_at = firedAt
  <2>1. FiredRow(held[r]) \in Row
    BY FiredRowType
  <2> QED
    BY <1>2, <2>1 DEF FiredRow, Row, Config
<1>6. rules'[r] = new
  <2>1. rules'[r] = Flush(rules[r], rules[r], new)
    BY <1>2 DEF RecordFiring, UpdateRuleState, TypeOK
  <2> HIDE DEF new, r
  <2> QED
    BY <1>2, <1>5, <2>1, FlushCurrent
<1> HIDE DEF new
<1>7. Rule1!Fires(firedAt, p)
  BY <1>1, <1>2, SameDecision DEF Deciding, Firing
<1>8. SideOf(r) = Rule1!CurrentState(p, Watched.config.threshold)
  BY <1>2, SameOperators DEF SideOf, Watched
<1>9. Rule1!Fire(firedAt, p)
  BY <1>2, <1>3, <1>4, <1>5, <1>6, <1>7, <1>8 DEF Rule1!Fire, Rule1!Record, Watched
<1> QED
  BY <1>3, <1>9 DEF Rule1!Next

\* The creation of the rule is its entry; anything else leaves its row alone.
LEMMA EnterStep ==
  ASSUME TypeOK, Inv, Unedited, NEW form \in Forms, CreateRule(AnyRule, form)
  PROVE  Rule1!Next
<1>1. AnyRule \in RuleId /\ rules[AnyRule] = BlankRow
  BY Placeholders DEF CreateRule, Insert, Unedited
<1>2. rules'[AnyRule] = NewRow(form) /\ seen' = seen
  BY <1>1 DEF CreateRule, Insert, Touch, TypeOK
<1>3. Rule1!Enter(form)
  BY <1>1, <1>2 DEF Rule1!Enter, Watched, BlankRow, NewRow
<1> QED
  BY <1>3 DEF Rule1!Next

LEMMA OtherStep ==
  ASSUME Client = {}, TypeOK, [Next]_vars,
         \A form \in Forms : ~CreateRule(AnyRule, form),
         ~TrackState(AnyRule), cur = AnyRule => ~SuppressState /\ ~RecordFiring
  PROVE  UNCHANGED Rule1!vars
<1> USE DEF database, tick, observers
<1>1. AnyRule \in RuleId
  BY Placeholders
<1>2. ASSUME NEW r \in RuleId \ {AnyRule},
             TrackState(r) \/ (\E form \in Forms : CreateRule(r, form))
               \/ (cur = r /\ (SuppressState \/ RecordFiring))
      PROVE  rules'[AnyRule] = rules[AnyRule] /\ seen'[AnyRule] = seen[AnyRule]
  BY <1>1, <1>2 DEF TrackState, NewSide, SuppressState, RecordFiring, CreateRule, Insert, Touch,
     UpdateRuleState, Observe, TypeOK
<1>3. ASSUME ~SuppressState, ~RecordFiring, \A r \in RuleId : ~TrackState(r),
             \A r \in RuleId, form \in Forms : ~CreateRule(r, form)
      PROVE  UNCHANGED << rules, seen >>
  BY <1>3 DEF vars, Next, EngineStep, Environment, StartTick, FetchPrices, FetchFails,
     Evaluate, SkipUnpriced, StartFire, StartSuppress, Trigger, RowGone, SuppressEvent,
     SendAlert, RecordHistory, PatchHistory, RecordPruned, ReloadSide, ReloadFired, Reload,
     TriggeredEvent, WriteEvent, SessionBroken, EndTick, Abort, Retention, TickFails, Crash,
     ClockTick
<1>4. rules'[AnyRule] = rules[AnyRule] /\ seen'[AnyRule] = seen[AnyRule]
  <2>1. cur \in RuleId
    BY DEF TypeOK
  <2>2. CASE \E r \in RuleId \ {AnyRule} :
                 TrackState(r) \/ (\E form \in Forms : CreateRule(r, form))
                   \/ (cur = r /\ (SuppressState \/ RecordFiring))
    BY <1>2, <2>2
  <2>3. CASE ~\E r \in RuleId \ {AnyRule} :
                 TrackState(r) \/ (\E form \in Forms : CreateRule(r, form))
                   \/ (cur = r /\ (SuppressState \/ RecordFiring))
    <3>1. rules' = rules /\ seen' = seen
      BY <1>3, <2>1, <2>3
    <3> QED
      BY <3>1
  <2> QED
    BY <2>2, <2>3
<1> QED
  BY <1>4 DEF Rule1!vars, Watched

\* The refinement: while nobody edits, the row of a rule evolves as if every
\* evaluation were atomic and nothing failed, for any number of rules and faults.
THEOREM RowImplementsOneRule ==
  ASSUME Client = {} PROVE Spec => RowEvolvesAtomically
<1>1. Init => Unedited /\ Deciding /\ Rule1!Init
  BY Placeholders, FormsAssumption, BoundsAssumption, SameOperators
     DEF Init, Unedited, Deciding, Busy, Pending, Firing, Suppressing, Unseen,
         Rule1!Init, Watched, BlankRow, NewRow
<1>2. TypeOK /\ Deciding /\ [Next]_vars => Deciding'
  <2>1. TypeOK /\ Deciding /\ UNCHANGED vars => Deciding'
    BY DecidingQuiet DEF vars, tick, observers, Deciding
  <2> QED
    BY <2>1, EngineDeciding, OthersDeciding DEF Next
<1>3. TypeOK /\ Inv /\ Unedited /\ [Next]_vars => Unedited'
  BY UneditedStep
<1>4. TypeOK /\ Inv /\ Unedited /\ Deciding /\ [Next]_vars => [Rule1!Next]_(Rule1!vars)
  <2> SUFFICES ASSUME TypeOK, Inv, Unedited, Deciding, [Next]_vars
               PROVE  Rule1!Next \/ UNCHANGED Rule1!vars
    OBVIOUS
  <2>1. /\ now \in 0 .. MaxTime /\ firedAt \in 0 .. MaxTime /\ AnyRule \in RuleId
        /\ now >= seen[AnyRule].at
    <3>1. now \in Nat /\ MaxTime \in Nat /\ firedAt \in Nat /\ AnyRule \in RuleId
      BY BoundsAssumption, Placeholders DEF TypeOK
    <3>2. seen[AnyRule].at \in Nat
      BY <3>1 DEF TypeOK, Observation
    <3> QED
      BY <3>1, <3>2 DEF Deciding
  <2>2. CASE TrackState(AnyRule)
    <3>1. AnyRule \in Pending
      BY <2>2 DEF TrackState, TakeRule, Pending
    <3> QED
      BY <2>1, <2>2, <3>1, LookStep DEF TrackState, TakeRule, NewSide
  <2>3. CASE SuppressState /\ cur = AnyRule
    <3>1. AnyRule \in Pending /\ Busy /\ pc \in Suppressing
      BY <2>3 DEF SuppressState, Pending, Busy, Suppressing
    <3>2. /\ firedAt >= seen[AnyRule].at /\ PriceOf(AnyRule) # NoPrice
          /\ ~PassesWindow(held[AnyRule].config, firedAt)
      BY <2>1, <2>3, <3>1 DEF Deciding, TypeOK, Observation
    <3> QED
      BY <2>1, <2>3, <3>1, <3>2, LookStep DEF SuppressState
  <2> QED
    BY <2>2, <2>3, FireStep, EnterStep, OtherStep
<1> QED
  BY <1>1, <1>2, <1>3, <1>4, Invariant, PTL DEF Spec, RowEvolvesAtomically, Rule1!Spec

=============================================================================
