--------------------------- MODULE PerimeterProofs ---------------------------
(***************************************************************************)
(* What holds of the whitelist, of sessions, lockouts and administrators   *)
(* for any hosts, accounts, browsers, limits and numbers of requests.      *)
(*                                                                         *)
(* A request is one record that its handler replaces at every step: what   *)
(* all steps have in common is said once (Fits), and each invariant then   *)
(* looks at the few steps that touch its variables.                        *)
(***************************************************************************)
EXTENDS Perimeter, FiniteSetTheorems, SequenceTheorems, WellFoundedInduction, TLAPS

-----------------------------------------------------------------------------
(* The whitelist. *)

\* A list that was read, and the one that is stored, was the setting when the
\* request that read it took the time, or later.
FilterInv ==
    /\ FilterTypeOK
    /\ gone[committed] = 0
    /\ Fresh => gone[whitelist] <= age
    /\ \A v \in Visitor :
          /\ visitor[v].step = "reading" => gone[visitor[v].list] <= visitor[v].asked
          /\ visitor[v].step = "closing" => gone[whitelist] <= visitor[v].asked + MaxRead

-----------------------------------------------------------------------------
(* Requests. *)

\* What a handler is about by the step it has reached.
WellFormed(r) ==
    /\ r \in RequestState
    /\ r.step = "verify" => r.op = "login"
    /\ r.step = "check" => r.op = "create"
    /\ r.step = "insert" => r.op \in {"register", "create"}
    /\ r.step \in {"load", "commit"} => r.op \in {"toggle", "role", "delete"} /\ r.user \in User
    /\ r.step = "commit" => r.user # r.session.uid
    /\ r.op = "logout" => r.session.uid = "none"

AdminRow(row) == row.existence = "live" /\ row.role = "admin" /\ row.is_active

\* A request past the check that its account is an administrator's.
Acts(r) == r.step \in {"load", "commit"}

\* A session that was not just opened.
Carried(r) == /\ r.step # "idle"
              /\ r.session.uid # "none"
              /\ r.op \notin {"login", "register"}

\* What request q may become: a session comes from the cookie or stays, and so does
\* the administrator, who is one when the request comes.
Fits(q, r) ==
    /\ WellFormed(r)
    /\ Carried(r) => \/ cookie[r.agent].uid # "none"
                     \/ Carried(request[q]) /\ request[q].agent = r.agent
    /\ Acts(r) => \/ r.session.uid \in User /\ AdminRow(users[r.session.uid])
                  \/ Acts(request[q]) /\ r.session.uid = request[q].session.uid

AccessTypes == TypeOK /\ \A q \in Request : WellFormed(request[q])

\* As long as no administrator was changed in the middle of a request of its own,
\* those who act are active administrators.
AdminsAct ==
    ~raced => /\ \E u \in User : AdminRow(users[u])
              /\ \A q \in Request : Acts(request[q]) => /\ request[q].session.uid \in User
                                                       /\ AdminRow(users[request[q].session.uid])

\* After a clean logout no request is left that could bring a session back.
LoggedOut ==
    \A a \in Agent : signed_out[a] = "clean" =>
        /\ cookie[a].uid = "none"
        /\ \A q \in Request : ~(Carried(request[q]) /\ request[q].agent = a)

-----------------------------------------------------------------------------
(* Failures of a key. *)

\* The i-th failure, counted from the last.
Last(times, i) == times[Len(times) + 1 - i]

\* All requests but one.
Others == Cardinality(Request) - 1

\* The requests that were let in with key k and have no result yet.
Pending(k) == {q \in Request : request[q].step = "verify" /\ k \in request[q].keys}

\* The tracker knows the failures in view but for the oldest, one for each other
\* request: those were let in before a lockout that is over.
Counted(state, ages) ==
    state.locked = NotLocked =>
        \A i \in 1 .. Len(ages) - Others :
            /\ i <= Len(state.failure_times)
            /\ \A j \in 1 .. i : Last(state.failure_times, j) <= Last(ages, j)

\* Since a lockout began nobody was let in, and only those let in before it fail.
LockedIn(state, ages, pending) ==
    state.locked # NotLocked =>
        /\ pending <= Others
        /\ Len(ages) + pending <= MaxAttempts + 2 * Others
        /\ \A i \in 1 .. Len(ages) : i + pending > Others => Last(ages, i) >= Lockout - state.locked

\* Oldest first, and none out of view.
InView(ages) ==
    /\ ages \in Seq(Nat)
    /\ \A i \in 1 .. Len(ages) : ages[i] <= Window /\ ages[i] < Lockout
    /\ \A i \in 1 .. Len(ages), j \in 1 .. Len(ages) : i <= j => ages[i] >= ages[j]

KeyInv(state, ages, pending) ==
    /\ state \in KeyState
    /\ Len(state.failure_times) < MaxAttempts
    /\ InView(ages)
    /\ Counted(state, ages)
    /\ LockedIn(state, ages, pending)

Failures == \A k \in Key : KeyInv(tracker[k], recent[k], Cardinality(Pending(k)))

-----------------------------------------------------------------------------
(* The whitelist: proofs. *)

LEMMA FilterStart == FilterInit => FilterInv
  BY ListAssumption, ReadAssumption DEF FilterInit, FilterInv, FilterTypeOK, Reload, Nowhere, Fresh

\* A reload that proceeds leaves the others what they were.
LEMMA VisitorProceeds ==
  ASSUME FilterInv, NEW v \in Visitor, NEW r \in Reload, Proceed(v, r), UNCHANGED << committed, gone >>,
         whitelist' \in Lists, age' \in 0 .. TTL,
         Fresh' => gone[whitelist'] <= age',
         r.step = "reading" => gone[r.list] <= r.asked,
         r.step = "closing" => gone[whitelist'] <= r.asked + MaxRead,
         whitelist' # whitelist => gone[whitelist'] <= MaxRead
  PROVE  FilterInv'
<1>1. /\ visitor' \in [Visitor -> Reload]
      /\ visitor'[v] = r
      /\ \A w \in Visitor \ {v} : visitor'[w] = visitor[w]
  BY DEF Proceed, FilterInv, FilterTypeOK
<1>2. FilterTypeOK' /\ gone'[committed'] = 0 /\ (Fresh' => gone'[whitelist'] <= age')
  BY <1>1 DEF FilterInv, FilterTypeOK
<1>3. ASSUME NEW w \in Visitor
      PROVE  /\ visitor'[w].step = "reading" => gone'[visitor'[w].list] <= visitor'[w].asked
             /\ visitor'[w].step = "closing" => gone'[whitelist'] <= visitor'[w].asked + MaxRead
  <2>1. CASE w = v
    BY <1>1, <2>1
  <2>2. CASE w # v
    <3>1. visitor'[w] = visitor[w] /\ visitor[w].asked \in 0 .. MaxRead /\ gone[whitelist'] \in 0 .. TTL
      BY <1>1, <2>2 DEF FilterInv, FilterTypeOK, Reload
    <3> QED
      BY <3>1, ReadAssumption DEF FilterInv
  <2> QED
    BY <2>1, <2>2
<1> QED
  BY <1>2, <1>3 DEF FilterInv

LEMMA VisitorSteps ==
  ASSUME FilterInv, NEW v \in Visitor,
         StartReload(v) \/ SelectList(v) \/ Store(v) \/ ReloadFails(v) \/ Decide(v)
  PROVE  FilterInv'
<1> USE ListAssumption, ReadAssumption
<1>1. /\ visitor[v] \in Reload /\ Nowhere \in Reload
      /\ committed \in Lists /\ whitelist \in Lists /\ age \in 0 .. TTL
      /\ gone \in [Lists -> 0 .. TTL]
      /\ gone[committed] = 0
      /\ Fresh => gone[whitelist] <= age
      /\ visitor[v].step = "reading" => gone[visitor[v].list] <= visitor[v].asked
      /\ visitor[v].step = "closing" => gone[whitelist] <= visitor[v].asked + MaxRead
  BY DEF FilterInv, FilterTypeOK, Reload, Nowhere
<1>2. CASE StartReload(v)
  <2> DEFINE r == [Nowhere EXCEPT !.step = "open"]
  <2>1. r \in Reload /\ r.step = "open"
    BY <1>1 DEF Reload
  <2> QED
    BY <1>1, <1>2, <2>1, VisitorProceeds DEF StartReload, OnlyVisitor, Fresh
<1>3. CASE SelectList(v)
  <2> DEFINE r == [visitor[v] EXCEPT !.step = "reading", !.list = committed]
  <2>1. r \in Reload /\ r.step = "reading" /\ r.list = committed /\ r.asked = visitor[v].asked
    BY <1>1 DEF Reload
  <2>2. gone[r.list] <= r.asked
    BY <1>1, <2>1 DEF Reload
  <2> QED
    BY <1>1, <1>3, <2>1, <2>2, VisitorProceeds DEF SelectList, OnlyVisitor, Fresh
<1>4. CASE Store(v)
  <2> DEFINE r == [visitor[v] EXCEPT !.step = "closing", !.list = {}]
  <2>1. r \in Reload /\ r.step = "closing" /\ r.asked = visitor[v].asked /\ r.asked \in 0 .. MaxRead
    BY <1>1 DEF Reload
  <2>2. /\ whitelist' = visitor[v].list /\ whitelist' \in Lists
        /\ age' = visitor[v].asked /\ age' \in 0 .. TTL
        /\ gone[whitelist'] <= age' /\ gone[whitelist'] <= MaxRead
        /\ gone[whitelist'] <= r.asked + MaxRead
    BY <1>1, <1>4, <2>1 DEF Store, Reload
  <2> QED
    BY <1>1, <1>4, <2>1, <2>2, VisitorProceeds DEF Store
<1>5. CASE ReloadFails(v) \/ Decide(v)
  <2>1. Nowhere.step = "away"
    BY DEF Nowhere
  <2> QED
    BY <1>1, <1>5, <2>1, VisitorProceeds DEF ReloadFails, Decide, OnlyVisitor, Fresh
<1> QED
  BY <1>2, <1>3, <1>4, <1>5

LEMMA FilterTimePasses == ASSUME FilterInv, PassTime PROVE FilterInv'
<1> USE ReadAssumption
<1>1. /\ committed' = committed /\ whitelist' = whitelist
      /\ committed \in Lists /\ whitelist \in Lists
      /\ age' \in 0 .. TTL /\ age' = UpTo(age, TTL) /\ age \in 0 .. TTL
      /\ gone \in [Lists -> 0 .. TTL]
      /\ \A l \in Lists : gone'[l] \in 0 .. TTL /\ gone'[l] <= gone[l] + 1
      /\ gone'[committed'] = 0
      /\ gone' \in [Lists -> 0 .. TTL]
  BY DEF FilterInv, FilterTypeOK, PassTime, UpTo
<1>2. ASSUME NEW v \in Visitor
      PROVE  /\ visitor'[v] \in Reload
             /\ visitor'[v].step = visitor[v].step
             /\ visitor[v].step # "away" => /\ visitor'[v].asked = visitor[v].asked + 1
                                            /\ visitor'[v].list = visitor[v].list
  <2>1. visitor[v] \in Reload
    BY DEF FilterInv, FilterTypeOK
  <2>2. CASE visitor[v].step = "away"
    <3>1. visitor'[v] = Nowhere
      BY <2>2 DEF PassTime
    <3> QED
      BY <2>2, <3>1, ListAssumption DEF Nowhere, Reload
  <2>3. CASE visitor[v].step # "away"
    <3>1. visitor'[v] = [visitor[v] EXCEPT !.asked = visitor[v].asked + 1] /\ visitor[v].asked < MaxRead
      BY <2>3 DEF PassTime
    <3> QED
      BY <2>1, <3>1 DEF Reload
  <2> QED
    BY <2>2, <2>3
<1>3. visitor' \in [Visitor -> Reload]
  <2>1. visitor' = [v \in Visitor |-> visitor'[v]]
    BY DEF PassTime
  <2> QED
    BY <1>2, <2>1
<1>4. Fresh' => gone'[whitelist'] <= age'
  BY <1>1 DEF Fresh, FilterInv, UpTo
<1>5. ASSUME NEW v \in Visitor
      PROVE  /\ visitor'[v].step = "reading" => gone'[visitor'[v].list] <= visitor'[v].asked
             /\ visitor'[v].step = "closing" => gone'[whitelist'] <= visitor'[v].asked + MaxRead
  <2>1. /\ visitor[v].asked \in 0 .. MaxRead /\ visitor[v].list \in Lists
        /\ visitor[v].step = "reading" => gone[visitor[v].list] <= visitor[v].asked
        /\ visitor[v].step = "closing" => gone[whitelist] <= visitor[v].asked + MaxRead
    BY DEF FilterInv, FilterTypeOK, Reload
  <2>2. CASE visitor[v].step = "reading"
    BY <1>1, <1>2, <2>1, <2>2
  <2>3. CASE visitor[v].step = "closing"
    BY <1>1, <1>2, <2>1, <2>3
  <2> QED
    BY <1>2, <2>2, <2>3
<1> QED
  BY <1>1, <1>3, <1>4, <1>5 DEF FilterInv, FilterTypeOK

LEMMA FilterSteps == ASSUME FilterInv, [FilterNext]_filterVars PROVE FilterInv'
<1> USE ListAssumption, ReadAssumption
<1>1. ASSUME NEW l \in Lists, SaveList(l) PROVE FilterInv'
  <2>1. /\ gone' \in [Lists -> 0 .. TTL] /\ gone'[committed'] = 0
        /\ \A m \in Lists : gone'[m] <= gone[m]
        /\ gone \in [Lists -> 0 .. TTL]
        /\ committed' \in Lists /\ whitelist' = whitelist /\ age' = age /\ visitor' = visitor
    BY <1>1 DEF SaveList, FilterInv, FilterTypeOK
  <2>2. FilterTypeOK' /\ (Fresh' => gone'[whitelist'] <= age')
    BY <2>1 DEF FilterInv, FilterTypeOK, Fresh
  <2>3. ASSUME NEW v \in Visitor
        PROVE  /\ visitor'[v].step = "reading" => gone'[visitor'[v].list] <= visitor'[v].asked
               /\ visitor'[v].step = "closing" => gone'[whitelist'] <= visitor'[v].asked + MaxRead
    <3>1. visitor[v] \in Reload /\ visitor[v].asked \in 0 .. MaxRead /\ visitor[v].list \in Lists
          /\ whitelist \in Lists
      BY DEF FilterInv, FilterTypeOK, Reload
    <3>2. /\ visitor[v].step = "reading" => gone[visitor[v].list] <= visitor[v].asked
          /\ visitor[v].step = "closing" => gone[whitelist] <= visitor[v].asked + MaxRead
      BY DEF FilterInv
    <3> QED
      BY <2>1, <3>1, <3>2
  <2> QED
    BY <2>1, <2>2, <2>3 DEF FilterInv
<1>2. CASE RestartFilter
  <2>1. Nowhere \in Reload /\ Nowhere.step = "away"
    BY DEF Nowhere, Reload
  <2> QED
    BY <1>2, <2>1 DEF RestartFilter, FilterInv, FilterTypeOK, Fresh
<1>3. CASE UNCHANGED filterVars
  BY <1>3 DEF filterVars, FilterInv, FilterTypeOK, Fresh
<1> QED
  BY <1>1, <1>2, <1>3, VisitorSteps, FilterTimePasses DEF FilterNext

\* A list that was replaced decides about nobody once the copy's time is over, however
\* many reloads overlap and whichever of their answers is stored last, as long as two
\* reloads together take less than that time: _load_whitelist takes the time first.
THEOREM RecentListDecidesAlways == PerimeterSpec => []RecentListDecides
<1>1. PerimeterInit => FilterInv
  BY FilterStart DEF PerimeterInit
<1>2. FilterInv /\ [PerimeterNext]_perimeterVars => FilterInv'
  <2>1. ASSUME PerimeterNext PROVE [FilterNext]_filterVars
    BY <2>1 DEF PerimeterNext
  <2>2. ASSUME UNCHANGED perimeterVars PROVE UNCHANGED filterVars
    BY <2>2 DEF perimeterVars
  <2> QED
    BY <2>1, <2>2, FilterSteps
<1>3. FilterInv => RecentListDecides
  <2> SUFFICES ASSUME FilterInv, Fresh \/ \E v \in Visitor : visitor[v].step = "closing"
               PROVE  gone[whitelist] < TTL
    BY DEF RecentListDecides, FilterInv, FilterTypeOK
  <2>1. CASE Fresh
    BY <2>1, ReadAssumption DEF FilterInv, FilterTypeOK, Fresh
  <2>2. ASSUME NEW v \in Visitor, visitor[v].step = "closing" PROVE gone[whitelist] < TTL
    <3>1. visitor[v].asked \in 0 .. MaxRead /\ gone[whitelist] \in 0 .. TTL
      BY DEF FilterInv, FilterTypeOK, Reload
    <3> QED
      BY <2>2, <3>1, ReadAssumption DEF FilterInv
  <2> QED
    BY <2>1, <2>2
<1> QED
  BY <1>1, <1>2, <1>3, PTL DEF PerimeterSpec

-----------------------------------------------------------------------------
(* Requests: proofs. *)

LEMMA SessionForms ==
  /\ NoSession \in Session /\ NoSession.uid = "none"
  /\ \A u \in User : NewSession(u) \in Session /\ NewSession(u).uid = u
  /\ \A s \in Session : /\ Resolved(s) \in Session
                        /\ Resolved(s).uid \in {"none", s.uid}
                        /\ SignedIn(s) => Resolved(s).uid = s.uid
                        /\ Aged(s) \in Session /\ Aged(s).uid = s.uid
<1> USE LimitAssumption
<1>1. NoSession \in Session /\ NoSession.uid = "none"
  BY DEF NoSession, Session
<1>2. ASSUME NEW u \in User PROVE NewSession(u) \in Session /\ NewSession(u).uid = u
  BY DEF NewSession, Session
<1>3. ASSUME NEW s \in Session PROVE Touched(s) \in Session /\ Touched(s).uid = s.uid
  BY DEF Touched, Session
<1>4. ASSUME NEW s \in Session
      PROVE  /\ Resolved(s) \in Session
             /\ Resolved(s).uid \in {"none", s.uid}
             /\ SignedIn(s) => Resolved(s).uid = s.uid
  BY <1>1, <1>3 DEF Resolved, SignedIn
<1>5. ASSUME NEW s \in Session PROVE Aged(s) \in Session /\ Aged(s).uid = s.uid
  <2> DEFINE c == IF s.created > AbsLimit THEN s.created ELSE s.created + 1
             d == IF s.activity > IdleLimit THEN s.activity ELSE s.activity + 1
  <2>1. c \in 0 .. AbsLimit + 1 /\ d \in 0 .. IdleLimit + 1
    BY DEF Session
  <2>2. Aged(s) = IF s.uid = "none" THEN s ELSE [s EXCEPT !.created = c, !.activity = d]
    BY DEF Aged
  <2> HIDE DEF c, d
  <2> QED
    BY <2>1, <2>2 DEF Session
<1> QED
  BY <1>1, <1>2, <1>4, <1>5

LEMMA UnusedForm == UnusedRow \in Row /\ UnusedRow.existence = "unused"
<1>1. "user" \in Role /\ FALSE \in BOOLEAN
  BY DEF Role
<1>2. "unused" \in {"unused", "live", "deleted"}
  OBVIOUS
<1> QED
  BY <1>1, <1>2, Zenon DEF UnusedRow, Row

LEMMA NothingAsked ==
  /\ NoRequest \in RequestState
  /\ NoRequest.step = "idle" /\ NoRequest.op = "page"
  /\ NoRequest.session.uid = "none" /\ NoRequest.user = "none"
<1>1. NoRequest.session = NoSession
  BY DEF NoRequest
<1>2. UnusedRow \in Row
  BY UnusedForm
<1> QED
  BY <1>1, <1>2, SessionForms DEF NoRequest, RequestState, Steps, Ops, Role

LEMMA NothingFits == ASSUME NEW q \in Request PROVE Fits(q, NoRequest)
  BY NothingAsked DEF Fits, WellFormed, Carried, Acts

\* A request that has come from browser a.
LEMMA ArrivedForm ==
  ASSUME AccessTypes, NEW a \in Agent, NEW op \in Ops
  PROVE  /\ Arrived(a, op) \in RequestState
         /\ Arrived(a, op).step = "idle"
         /\ Arrived(a, op).op = op
         /\ Arrived(a, op).agent = a
         /\ Arrived(a, op).session = Resolved(cookie[a])
<1>1. cookie[a] \in Session
  BY DEF AccessTypes, TypeOK
<1>2. Resolved(cookie[a]) \in Session
  BY <1>1, SessionForms
<1> QED
  BY <1>2, NothingAsked DEF Arrived, RequestState

\* What an answer needs to fit: its session is none, was just opened, or is the request's.
LEMMA AnswerFits ==
  ASSUME AccessTypes, NEW q \in Request, NEW session \in Session, Answer(q, session),
         \/ session.uid = "none"
         \/ request[q].op \in {"login", "register"}
         \/ session = request[q].session /\ ~At(q, "idle")
  PROVE  \E r : Goto(q, r) /\ Fits(q, r) /\ r.step # "verify"
<1> DEFINE r == [NoRequest EXCEPT !.step = "respond", !.op = request[q].op,
                                  !.agent = request[q].agent, !.session = session]
<1>1. request[q] \in RequestState /\ WellFormed(request[q])
  BY DEF AccessTypes, WellFormed
<1>2. /\ r \in RequestState /\ r.step = "respond" /\ r.op = request[q].op
      /\ r.agent = request[q].agent /\ r.session = session
  BY <1>1, NothingAsked DEF RequestState, Steps
<1>3. Goto(q, r)
  BY DEF Answer
<1> HIDE DEF r
<1>4. Fits(q, r)
  BY <1>1, <1>2 DEF Fits, WellFormed, Carried, Acts, At
<1> QED
  BY <1>2, <1>3, <1>4

LEMMA ComingsFit ==
  ASSUME AccessTypes, NEW q \in Request, NEW a \in Agent,
         \/ \E op \in Ops : Turned(q, a, op)
         \/ ViewPage(q, a) \/ Logout(q, a)
         \/ \E k \in Key : Unlock(q, a, k)
  PROVE  \E r : Goto(q, r) /\ Fits(q, r) /\ r.step # "verify"
<1>1. cookie[a] \in Session
  BY DEF AccessTypes, TypeOK
<1>2. Resolved(cookie[a]).uid # "none" => cookie[a].uid # "none"
  BY <1>1, SessionForms
<1>3. CASE (\E op \in Ops : Turned(q, a, op)) \/ ViewPage(q, a)
  <2> DEFINE r == [Arrived(a, "page") EXCEPT !.step = "respond"]
  <2>1. "page" \in Ops
    BY DEF Ops
  <2>2. /\ r \in RequestState /\ r.step = "respond" /\ r.op = "page" /\ r.agent = a
        /\ r.session = Resolved(cookie[a])
    BY <2>1, ArrivedForm DEF RequestState, Steps
  <2>3. Goto(q, r)
    BY <1>3 DEF Turned, ViewPage
  <2> HIDE DEF r
  <2>4. Fits(q, r)
    BY <1>2, <2>2 DEF Fits, WellFormed, Carried, Acts
  <2> QED
    BY <2>2, <2>3, <2>4
<1>4. CASE Logout(q, a)
  <2> DEFINE new == Arrived(a, "logout")
             r == [new EXCEPT !.step = "respond", !.session = NoSession]
  <2>1. /\ new \in RequestState /\ new.op = "logout" /\ new.agent = a
        /\ new.session = Resolved(cookie[a])
    BY ArrivedForm DEF Ops
  <2> HIDE DEF new
  <2>2. r \in RequestState /\ r.step = "respond" /\ r.session.uid = "none"
    BY <2>1, SessionForms DEF RequestState, Steps
  <2>3. Goto(q, r)
    BY <1>4 DEF Logout, new
  <2> HIDE DEF r
  <2>4. Fits(q, r)
    BY <2>2 DEF Fits, WellFormed, Carried, Acts
  <2> QED
    BY <2>2, <2>3, <2>4
<1>5. CASE \E k \in Key : Unlock(q, a, k)
  <2> DEFINE r == [Arrived(a, "unlock") EXCEPT !.step = "respond"]
  <2>1. "unlock" \in Ops
    BY DEF Ops
  <2>2. /\ r \in RequestState /\ r.step = "respond" /\ r.op = "unlock" /\ r.agent = a
        /\ r.session = Resolved(cookie[a])
    BY <2>1, ArrivedForm DEF RequestState, Steps
  <2>3. Goto(q, r)
    BY <1>5 DEF Unlock
  <2> HIDE DEF r
  <2>4. Fits(q, r)
    BY <1>2, <2>2 DEF Fits, WellFormed, Carried, Acts
  <2> QED
    BY <2>2, <2>3, <2>4
<1> QED
  BY <1>3, <1>4, <1>5

\* Logins, registrations, and what administrators begin.
LEMMA StartsFit ==
  ASSUME AccessTypes, NEW q \in Request, NEW a \in Agent,
         \/ \E u \in User : StartRegister(q, a, u)
         \/ \E u \in User, role \in Role : StartCreate(q, a, u, role)
         \/ \E u \in User, role \in Role, op \in AdminOps : StartChange(q, a, op, u, role)
  PROVE  \E r : Goto(q, r) /\ Fits(q, r) /\ r.step # "verify"
<1>1. cookie[a] \in Session
  BY DEF AccessTypes, TypeOK
<1>2. /\ Resolved(cookie[a]).uid # "none" => cookie[a].uid # "none"
      /\ SignedIn(cookie[a]) => Resolved(cookie[a]).uid = cookie[a].uid
  BY <1>1, SessionForms
<1>3. ASSUME NEW u \in User, StartRegister(q, a, u)
      PROVE  \E r : Goto(q, r) /\ Fits(q, r) /\ r.step # "verify"
  <2> DEFINE r == [NoRequest EXCEPT !.step = IF Taken(NameOf[u]) THEN "respond" ELSE "insert",
                                    !.op = "register", !.agent = a, !.session = cookie[a],
                                    !.user = u]
  <2>1. /\ r \in RequestState /\ r.step \in {"respond", "insert"} /\ r.op = "register"
    BY <1>1, NothingAsked DEF RequestState, Steps, Ops
  <2>2. Goto(q, r)
    BY <1>3 DEF StartRegister
  <2> HIDE DEF r
  <2>3. Fits(q, r)
    BY <2>1 DEF Fits, WellFormed, Carried, Acts
  <2> QED
    BY <2>1, <2>2, <2>3
<1>4. ASSUME NEW u \in User, NEW role \in Role, StartCreate(q, a, u, role)
      PROVE  \E r : Goto(q, r) /\ Fits(q, r) /\ r.step # "verify"
  <2> DEFINE new == Arrived(a, "create")
             r == [new EXCEPT !.step = "check", !.user = u, !.role = role]
  <2>1. /\ new \in RequestState /\ new.op = "create" /\ new.agent = a
        /\ new.session = Resolved(cookie[a])
    BY ArrivedForm DEF Ops
  <2> HIDE DEF new
  <2>2. /\ r \in RequestState /\ r.step = "check" /\ r.op = "create" /\ r.agent = a
        /\ r.session = Resolved(cookie[a])
    BY <2>1 DEF RequestState, Steps
  <2>3. Goto(q, r)
    BY <1>4 DEF StartCreate, new
  <2> HIDE DEF r
  <2>4. Fits(q, r)
    BY <1>2, <2>2 DEF Fits, WellFormed, Carried, Acts
  <2> QED
    BY <2>2, <2>3, <2>4
<1>5. ASSUME NEW u \in User, NEW role \in Role, NEW op \in AdminOps, StartChange(q, a, op, u, role)
      PROVE  \E r : Goto(q, r) /\ Fits(q, r) /\ r.step # "verify"
  <2> DEFINE new == Arrived(a, op)
             r == [new EXCEPT !.step = "load", !.user = u, !.role = role]
  <2>1. op \in Ops /\ op \in {"toggle", "role", "delete"}
    BY <1>5 DEF Ops, AdminOps, StartChange
  <2>2. /\ new \in RequestState /\ new.op = op /\ new.agent = a
        /\ new.session = Resolved(cookie[a])
    BY <2>1, ArrivedForm
  <2> HIDE DEF new
  <2>3. /\ r \in RequestState /\ r.step = "load" /\ r.op = op /\ r.agent = a /\ r.user = u
        /\ r.session = Resolved(cookie[a])
    BY <2>2 DEF RequestState, Steps
  <2>4. Goto(q, r)
    BY <1>5 DEF StartChange, new
  <2> HIDE DEF r
  <2>5. /\ cookie[a].uid \in User /\ cookie[a].uid # "none"
        /\ AdminRow(users[cookie[a].uid])
        /\ r.session.uid = cookie[a].uid
    BY <1>1, <1>2, <1>5, <2>3 DEF StartChange, Admitted, SignedIn, Live, AdminRow, Session
  <2>6. Fits(q, r)
    BY <2>1, <2>3, <2>5 DEF Fits, WellFormed, Carried, Acts
  <2> QED
    BY <2>3, <2>4, <2>6
<1> QED
  BY <1>3, <1>4, <1>5

LEMMA LoginsFit ==
  ASSUME AccessTypes, NEW q \in Request, NEW a \in Agent, NEW n \in Name, NEW addr \in Address,
         StartLogin(q, a, {n, addr})
  PROVE  \E r : Goto(q, r) /\ Fits(q, r)
<1>1. cookie[a] \in Session /\ {n, addr} \in SUBSET Key
  BY DEF AccessTypes, TypeOK, Key
<1>2. CASE \E k \in {n, addr} : IsLocked(tracker[k])
  <2> DEFINE r == [NoRequest EXCEPT !.step = "respond", !.op = "login", !.agent = a,
                                    !.session = cookie[a]]
  <2>1. r \in RequestState /\ r.step = "respond" /\ r.op = "login"
    BY <1>1, NothingAsked DEF RequestState, Steps, Ops
  <2>2. Goto(q, r)
    BY <1>2 DEF StartLogin
  <2> HIDE DEF r
  <2>3. Fits(q, r)
    BY <2>1 DEF Fits, WellFormed, Carried, Acts
  <2> QED
    BY <2>2, <2>3
<1>3. CASE ~\E k \in {n, addr} : IsLocked(tracker[k])
  <2> DEFINE r == [NoRequest EXCEPT !.step = "verify", !.op = "login", !.agent = a,
                                    !.session = cookie[a], !.keys = {n, addr}]
  <2>1. r \in RequestState /\ r.step = "verify" /\ r.op = "login"
    BY <1>1, NothingAsked DEF RequestState, Steps, Ops
  <2>2. Goto(q, r)
    BY <1>3 DEF StartLogin
  <2> HIDE DEF r
  <2>3. Fits(q, r)
    BY <2>1 DEF Fits, WellFormed, Carried, Acts
  <2> QED
    BY <2>2, <2>3
<1> QED
  BY <1>2, <1>3

\* The steps after the first.
LEMMA StepsFit ==
  ASSUME AccessTypes, NEW q \in Request,
         \/ LoginFails(q) \/ LoginDisabled(q) \/ LoginSucceeds(q)
         \/ CheckName(q) \/ InsertUser(q) \/ InsertRefused(q)
         \/ LoadTarget(q) \/ CommitChange(q) \/ CommitGone(q)
         \/ Respond(q)
  PROVE  \E r : Goto(q, r) /\ Fits(q, r) /\ r.step # "verify"
<1> DEFINE s == request[q].session
<1>1. request[q] \in RequestState /\ WellFormed(request[q])
  BY DEF AccessTypes, WellFormed
<1>2. s \in Session
  BY <1>1 DEF RequestState
<1>3. CASE LoginFails(q) \/ LoginDisabled(q)
  <2>1. request[q].op = "login" /\ Answer(q, s)
    BY <1>1, <1>3 DEF LoginFails, LoginDisabled, WellFormed, At
  <2> QED
    BY <1>2, <2>1, AnswerFits
<1>4. CASE LoginSucceeds(q)
  <2>1. request[q].op = "login"
    BY <1>1, <1>4 DEF LoginSucceeds, WellFormed, At
  <2>2. PICK u \in User : Answer(q, NewSession(u))
    BY <1>4 DEF LoginSucceeds, Accounts
  <2> QED
    BY <2>1, <2>2, AnswerFits, SessionForms
<1>5. CASE CheckName(q)
  <2> DEFINE r == [request[q] EXCEPT !.step =
                      IF Taken(NameOf[request[q].user]) THEN "respond" ELSE "insert"]
  <2>1. /\ r \in RequestState /\ r.step \in {"respond", "insert"} /\ r.op = request[q].op
        /\ r.session = s /\ r.agent = request[q].agent
    BY <1>1 DEF RequestState, Steps
  <2>2. Goto(q, r) /\ request[q].step = "check"
    BY <1>5 DEF CheckName, At
  <2> HIDE DEF r
  <2>3. Fits(q, r)
    BY <1>1, <2>1, <2>2 DEF Fits, WellFormed, Carried, Acts
  <2> QED
    BY <2>1, <2>2, <2>3
<1>6. CASE InsertUser(q)
  <2>1. ~At(q, "idle")
    BY <1>6 DEF InsertUser, At
  <2>2. CASE request[q].op = "register"
    <3>1. Answer(q, NewSession(request[q].user))
      BY <1>6, <2>2 DEF InsertUser
    <3>2. request[q].user \in User \cup {"none"}
      BY <1>1 DEF RequestState
    <3>3. NewSession(request[q].user) \in Session
      BY <3>2, LimitAssumption DEF NewSession, Session
    <3> QED
      BY <2>2, <3>1, <3>3, AnswerFits
  <2>3. CASE request[q].op # "register"
    BY <1>2, <1>6, <2>1, <2>3, AnswerFits DEF InsertUser
  <2> QED
    BY <2>2, <2>3
<1>7. CASE InsertRefused(q) \/ Respond(q)
  <2>1. Goto(q, NoRequest)
    BY <1>7 DEF InsertRefused, Respond
  <2> QED
    BY <2>1, NothingFits, NothingAsked
<1>8. CASE LoadTarget(q)
  <2>1. ~At(q, "idle") /\ request[q].step = "load"
    BY <1>8 DEF LoadTarget, At
  <2>2. CASE ~Live(request[q].user) \/ OwnAccount(request[q])
    BY <1>2, <1>8, <2>1, <2>2, AnswerFits DEF LoadTarget
  <2>3. CASE ~(~Live(request[q].user) \/ OwnAccount(request[q]))
    <3> DEFINE r == [request[q] EXCEPT !.step = "commit", !.loaded = users[request[q].user]]
    <3>1. users[request[q].user] \in Row /\ request[q].user # s.uid
      BY <1>1, <2>1, <2>3 DEF AccessTypes, TypeOK, WellFormed, OwnAccount
    <3>2. /\ r \in RequestState /\ r.step = "commit" /\ r.op = request[q].op
          /\ r.session = s /\ r.agent = request[q].agent /\ r.user = request[q].user
      BY <1>1, <3>1 DEF RequestState, Steps
    <3>3. Goto(q, r)
      BY <1>8, <2>3 DEF LoadTarget
    <3> HIDE DEF r
    <3>4. WellFormed(r)
      BY <1>1, <2>1, <3>1, <3>2 DEF WellFormed
    <3>5. Carried(r) => Carried(request[q]) /\ request[q].agent = r.agent
      BY <2>1, <3>2 DEF Carried
    <3> QED
      BY <2>1, <3>2, <3>3, <3>4, <3>5 DEF Fits, Acts
  <2> QED
    BY <2>2, <2>3
<1>9. CASE CommitChange(q)
  <2>1. Answer(q, s) /\ ~At(q, "idle")
    BY <1>9 DEF CommitChange, At
  <2> QED
    BY <1>2, <2>1, AnswerFits
<1>10. CASE CommitGone(q)
  <2>1. ~At(q, "idle") /\ (Answer(q, s) \/ Goto(q, NoRequest))
    BY <1>10 DEF CommitGone, At
  <2> QED
    BY <1>2, <2>1, AnswerFits, NothingFits, NothingAsked
<1> QED
  BY <1>3, <1>4, <1>5, <1>6, <1>7, <1>8, <1>9, <1>10

LEMMA HandlesFit ==
  ASSUME AccessTypes, NEW q \in Request, Handle(q)
  PROVE  \E r : /\ Goto(q, r)
                /\ Fits(q, r)
                /\ \/ r.step # "verify"
                   \/ \E a \in Agent, n \in Name, addr \in Address : StartLogin(q, a, {n, addr})
<1>1. CASE \E a \in Agent : \/ \E op \in Ops : Turned(q, a, op)
                            \/ ViewPage(q, a) \/ Logout(q, a)
                            \/ \E k \in Key : Unlock(q, a, k)
  BY <1>1, ComingsFit
<1>2. CASE \E a \in Agent : \/ \E u \in User : StartRegister(q, a, u)
                            \/ \E u \in User, role \in Role : StartCreate(q, a, u, role)
                            \/ \E u \in User, role \in Role, op \in AdminOps : StartChange(q, a, op, u, role)
  BY <1>2, StartsFit
<1>3. CASE \E a \in Agent, n \in Name, addr \in Address : StartLogin(q, a, {n, addr})
  BY <1>3, LoginsFit
<1>4. CASE \/ LoginFails(q) \/ LoginDisabled(q) \/ LoginSucceeds(q)
           \/ CheckName(q) \/ InsertUser(q) \/ InsertRefused(q)
           \/ LoadTarget(q) \/ CommitChange(q) \/ CommitGone(q)
           \/ Respond(q)
  BY <1>4, StepsFit
<1> QED
  BY <1>1, <1>2, <1>3, <1>4 DEF Handle

LEMMA LeastNatural ==
  ASSUME NEW T \in SUBSET Nat, T # {}
  PROVE  \E n \in T : \A m \in T : n <= m
<1>1. PICK x \in T : \A y \in T : ~ (<<y, x>> \in OpToRel(<, Nat))
  BY NatLessThanWellFounded, WFMin
<1>2. ASSUME NEW y \in T, y < x PROVE FALSE
  <2>1. << y, x >> \in Nat \X Nat /\ << y, x >>[1] = y /\ << y, x >>[2] = x
    OBVIOUS
  <2>2. << y, x >> \in OpToRel(<, Nat)
    BY <1>2, <2>1 DEF OpToRel
  <2> QED
    BY <1>1, <2>2
<1> QED
  BY <1>2

\* Latest drops the first failures, and no other.
LEMMA LatestForm ==
  ASSUME NEW S \in SUBSET Int, NEW times \in Seq(S), NEW limit \in Int
  PROVE  \E n \in 0 .. Len(times) :
            /\ \A i \in 1 .. n : times[i] > limit
            /\ n < Len(times) => times[n + 1] <= limit
            /\ Latest(times, limit) \in Seq(S)
            /\ Len(Latest(times, limit)) = Len(times) - n
            /\ \A i \in 1 .. Len(times) - n : Latest(times, limit)[i] = times[n + i]
<1> DEFINE First(n) == /\ \A i \in 1 .. n : times[i] > limit
                       /\ n < Len(times) => times[n + 1] <= limit
           T == {i \in 1 .. Len(times) : times[i] <= limit}
<1>1. Len(times) \in Nat /\ \A i \in 1 .. Len(times) : times[i] \in Int
  <2>1. Len(times) \in Nat /\ \A i \in 1 .. Len(times) : times[i] \in S
    OBVIOUS
  <2> QED
    BY <2>1
<1>2. \E n \in 0 .. Len(times) : First(n)
  <2>1. CASE T = {}
    <3>1. \A i \in 1 .. Len(times) : times[i] > limit
      BY <1>1, <2>1
    <3>2. First(Len(times))
      BY <1>1, <3>1
    <3> QED
      BY <1>1, <3>2
  <2>2. CASE T # {}
    <3>1. T \in SUBSET Nat
      BY <1>1
    <3>2. PICK m \in T : \A i \in T : m <= i
      BY <2>2, <3>1, LeastNatural
    <3>3. m \in 1 .. Len(times) /\ times[m] <= limit
      OBVIOUS
    <3>4. First(m - 1)
      <4>1. ASSUME NEW i \in 1 .. m - 1 PROVE times[i] > limit
        BY <1>1, <3>2, <3>3
      <4> QED
        BY <3>3, <4>1
    <3>5. m - 1 \in 0 .. Len(times)
      BY <1>1, <3>3
    <3> HIDE DEF First
    <3> QED
      BY <3>4, <3>5
  <2> QED
    BY <2>1, <2>2
<1>3. Stale(times, limit) \in 0 .. Len(times) /\ First(Stale(times, limit))
  BY <1>2 DEF Stale
<1>4. PICK n \in 0 .. Len(times) : n = Stale(times, limit) /\ First(n)
  BY <1>3
<1>5. Latest(times, limit) = SubSeq(times, n + 1, Len(times))
  BY <1>4 DEF Latest
<1>6. /\ SubSeq(times, n + 1, Len(times)) \in Seq(S)
      /\ Len(SubSeq(times, n + 1, Len(times))) = Len(times) - n
      /\ \A i \in 1 .. Len(times) - n : SubSeq(times, n + 1, Len(times))[i] = times[n + i]
  BY <1>1, <1>4, SubSeqProperties
<1> QED
  BY <1>4, <1>5, <1>6

LEMMA TrackerForms ==
  /\ Forgotten \in KeyState
  /\ \A state \in KeyState : /\ Checked(state) \in KeyState
                             /\ AfterFailure(state) \in KeyState
                             /\ Older(state) \in KeyState
<1> DEFINE S == 0 .. Window + 1
<1> USE TrackerAssumption
<1>1. Forgotten \in KeyState
  BY DEF Forgotten, KeyState, NotLocked
<1>2. ASSUME NEW state \in KeyState PROVE Checked(state) \in KeyState
  BY <1>1 DEF Checked
<1>3. ASSUME NEW state \in KeyState PROVE AfterFailure(state) \in KeyState
  <2> DEFINE times == Append(Pruned(state), 0)
  <2>1. state.failure_times \in Seq(S)
    BY DEF KeyState
  <2>2. Pruned(state) \in Seq(S)
    BY <2>1, LatestForm DEF Pruned
  <2>3. times \in Seq(S) /\ << >> \in Seq(S)
    BY <2>2
  <2>4. Lockout \in NotLocked .. Lockout
    BY DEF NotLocked
  <2>5. AfterFailure(state) = IF Len(times) >= MaxAttempts
                              THEN [failure_times |-> << >>, locked |-> Lockout]
                              ELSE [state EXCEPT !.failure_times = times]
    BY DEF AfterFailure
  <2> HIDE DEF times
  <2> QED
    BY <2>3, <2>4, <2>5 DEF KeyState
<1>4. ASSUME NEW state \in KeyState PROVE Older(state) \in KeyState
  <2> DEFINE F == state.failure_times
             times == [i \in DOMAIN F |-> IF F[i] > Window THEN F[i] ELSE F[i] + 1]
             left == IF state.locked > 0 THEN state.locked - 1 ELSE state.locked
  <2>1. F \in Seq(S) /\ DOMAIN F = 1 .. Len(F) /\ Len(F) \in Nat
    BY DEF KeyState
  <2>2. \A i \in 1 .. Len(F) : times[i] \in S
    BY <2>1
  <2>3. times \in [1 .. Len(F) -> S]
    BY <2>1, <2>2
  <2>4. times \in Seq(S)
    BY <2>1, <2>3, SeqDef
  <2>5. left \in NotLocked .. Lockout
    BY DEF KeyState, NotLocked
  <2>6. Older(state) = [failure_times |-> times, locked |-> left]
    BY DEF Older
  <2> HIDE DEF times, left
  <2> QED
    BY <2>4, <2>5, <2>6 DEF KeyState
<1> QED
  BY <1>1, <1>2, <1>3, <1>4

\* The other requests stay what they were.
LEMMA OthersStay ==
  ASSUME AccessTypes, NEW q \in Request, NEW r \in RequestState, Goto(q, r)
  PROVE  /\ request'[q] = r
         /\ \A p \in Request \ {q} : request'[p] = request[p]
         /\ request' \in [Request -> RequestState]
  BY DEF AccessTypes, TypeOK, Goto

\* Which steps change what.
LEMMA WhatHandlesChange ==
  ASSUME NEW q \in Request, Handle(q)
  PROVE  /\ mix' = mix
         /\ InsertUser(q) \/ CommitChange(q) \/ UNCHANGED users
         /\ CommitChange(q) \/ UNCHANGED raced
         /\ Respond(q) \/ UNCHANGED << cookie, signed_out >>
         /\ \/ LoginFails(q) \/ LoginSucceeds(q)
            \/ \E a \in Agent, k \in Key : Unlock(q, a, k)
            \/ \E a \in Agent, n \in Name, addr \in Address : StartLogin(q, a, {n, addr})
            \/ UNCHANGED << tracker, recent >>
<1> USE DEF OnlyRequest, observers
<1>1. CASE \E a \in Agent : \/ \E op \in Ops : Turned(q, a, op)
                            \/ ViewPage(q, a) \/ Logout(q, a)
                            \/ \E u \in User : StartRegister(q, a, u)
                            \/ \E u \in User, role \in Role : StartCreate(q, a, u, role)
                            \/ \E u \in User, role \in Role, op \in AdminOps : StartChange(q, a, op, u, role)
  BY <1>1 DEF Turned, ViewPage, Logout, StartRegister, StartCreate, StartChange
<1>2. CASE \E a \in Agent, k \in Key : Unlock(q, a, k)
  BY <1>2 DEF Unlock
<1>3. CASE \E a \in Agent, n \in Name, addr \in Address : StartLogin(q, a, {n, addr})
  BY <1>3 DEF StartLogin
<1>4. CASE LoginFails(q) \/ LoginSucceeds(q)
  BY <1>4 DEF LoginFails, LoginSucceeds
<1>5. CASE LoginDisabled(q) \/ CheckName(q) \/ InsertRefused(q) \/ LoadTarget(q) \/ CommitGone(q)
  BY <1>5 DEF LoginDisabled, CheckName, InsertRefused, LoadTarget, CommitGone
<1>6. CASE InsertUser(q) \/ CommitChange(q) \/ Respond(q)
  BY <1>6 DEF InsertUser, CommitChange, Respond
<1> QED
  BY <1>1, <1>2, <1>3, <1>4, <1>5, <1>6 DEF Handle

LEMMA RowForms ==
  /\ UnusedRow \in Row /\ UnusedRow.existence = "unused"
  /\ \A role \in Role : /\ NewRow(role) \in Row
                        /\ NewRow(role).existence = "live"
                        /\ NewRow(role).role = role
                        /\ NewRow(role).is_active
<1>1. ASSUME NEW role \in Role
      PROVE  /\ NewRow(role).existence = "live"
             /\ NewRow(role).role = role
             /\ NewRow(role).is_active
  BY DEF NewRow
<1>2. "live" \in {"unused", "live", "deleted"} /\ TRUE \in BOOLEAN
  OBVIOUS
<1>3. ASSUME NEW role \in Role PROVE NewRow(role) \in Row
  BY <1>2, Zenon DEF NewRow, Row
<1> QED
  BY <1>1, <1>3, UnusedForm

LEMMA ChangedForm ==
  ASSUME NEW row \in Row, NEW r \in RequestState, r.op \in {"toggle", "role", "delete"}
  PROVE  Changed(row, r) \in Row
<1>1. CASE r.op = "toggle"
  <2>1. (~r.loaded.is_active) \in BOOLEAN
    OBVIOUS
  <2>2. Changed(row, r) = [row EXCEPT !.is_active = ~r.loaded.is_active]
    BY <1>1 DEF Changed
  <2> QED
    BY <2>1, <2>2, Zenon DEF Row
<1>2. CASE r.op = "role"
  <2> DEFINE role == IF r.role = r.loaded.role THEN row.role ELSE r.role
  <2>1. role \in Role
    BY DEF Row, RequestState
  <2>2. Changed(row, r) = [row EXCEPT !.role = role]
    BY <1>2 DEF Changed
  <2> HIDE DEF role
  <2> QED
    BY <2>1, <2>2 DEF Row
<1>3. CASE r.op = "delete"
  <2>1. Changed(row, r) = [UnusedRow EXCEPT !.existence = "deleted"]
    BY <1>3 DEF Changed
  <2> QED
    BY <2>1, UnusedForm DEF Row
<1> QED
  BY <1>1, <1>2, <1>3

LEMMA AccessStarts == Init => AccessTypes
<1> SUFFICES ASSUME Init PROVE AccessTypes
  OBVIOUS
<1>1. users \in [User -> Row]
  <2>1. "admin" \in Role
    BY DEF Role
  <2> QED
    BY <2>1, RowForms DEF Init, Seeded
<1>2. tracker \in [Key -> KeyState] /\ recent \in [Key -> Seq(Nat)]
  BY TrackerForms DEF Init
<1>3. cookie \in [Agent -> Session]
  BY SessionForms DEF Init
<1>4. request \in [Request -> RequestState]
  BY NothingAsked DEF Init
<1>5. TypeOK
  BY <1>1, <1>2, <1>3, <1>4 DEF Init, TypeOK
<1>6. \A q \in Request : WellFormed(request[q])
  BY NothingAsked DEF Init, WellFormed
<1> QED
  BY <1>5, <1>6 DEF AccessTypes

LEMMA HandlesKeepTypes == ASSUME AccessTypes, NEW q \in Request, Handle(q) PROVE AccessTypes'
<1> USE DEF AccessTypes, TypeOK
<1>1. PICK r : Goto(q, r) /\ Fits(q, r)
  BY HandlesFit
<1>2. WellFormed(r) /\ r \in RequestState
  BY <1>1 DEF Fits, WellFormed
<1>3. request' \in [Request -> RequestState] /\ \A p \in Request : WellFormed(request'[p])
  BY <1>1, <1>2, OthersStay
<1>4. users' \in [User -> Row]
  <2>1. CASE InsertUser(q)
    <3>1. NewRow(request[q].role) \in Row
      BY RowForms DEF RequestState
    <3> QED
      BY <2>1, <3>1 DEF InsertUser
  <2>2. CASE CommitChange(q)
    <3>1. request[q].op \in {"toggle", "role", "delete"} /\ request[q].user \in User
          /\ request[q] \in RequestState
      BY <2>2 DEF CommitChange, WellFormed, At
    <3>2. Changed(users[request[q].user], request[q]) \in Row
      BY <3>1, ChangedForm
    <3>3. users' = [users EXCEPT ![request[q].user] = Changed(users[request[q].user], request[q])]
      BY <2>2 DEF CommitChange
    <3> QED
      BY <3>1, <3>2, <3>3
  <2> QED
    BY <2>1, <2>2, WhatHandlesChange
<1>5. raced' \in BOOLEAN
  BY WhatHandlesChange DEF CommitChange
<1>6. cookie' \in [Agent -> Session] /\ signed_out' \in [Agent -> {"no", "clean", "overtaken"}]
  <2>1. CASE Respond(q)
    <3>1. request[q].session \in Session
      BY DEF RequestState
    <3>2. cookie' \in [Agent -> Session]
      BY <2>1, <3>1 DEF Respond
    <3> DEFINE word == IF request[q].op = "logout"
                       THEN (IF {p \in Request \ {q} : CarriesSession(p, request[q].agent)} = {}
                             THEN "clean" ELSE "overtaken")
                       ELSE IF request[q].op \in {"login", "register"} /\ request[q].session.uid # "none" THEN "no"
                       ELSE signed_out[request[q].agent]
    <3>3. signed_out' = [signed_out EXCEPT ![request[q].agent] = word]
      BY <2>1 DEF Respond
    <3>4. request[q].agent \in Agent => word \in {"no", "clean", "overtaken"}
      OBVIOUS
    <3> HIDE DEF word
    <3>5. signed_out' \in [Agent -> {"no", "clean", "overtaken"}]
      BY <3>3, <3>4
    <3> QED
      BY <3>2, <3>5
  <2> QED
    BY <2>1, WhatHandlesChange
<1>7. tracker' \in [Key -> KeyState] /\ recent' \in [Key -> Seq(Nat)]
  <2>1. CASE LoginFails(q) \/ LoginSucceeds(q)
    <3>1. tracker' \in [Key -> KeyState]
      BY <2>1, TrackerForms DEF LoginFails, LoginSucceeds, AfterSuccess
    <3>2. \A k \in Key : Append(recent[k], 0) \in Seq(Nat) /\ << >> \in Seq(Nat)
      OBVIOUS
    <3>3. CASE LoginFails(q)
      BY <3>1, <3>2, <3>3 DEF LoginFails
    <3>4. CASE LoginSucceeds(q)
      BY <3>1, <3>2, <3>4 DEF LoginSucceeds
    <3> QED
      BY <2>1, <3>3, <3>4
  <2>2. ASSUME NEW a \in Agent, NEW k \in Key, Unlock(q, a, k)
        PROVE  tracker' \in [Key -> KeyState] /\ recent' \in [Key -> Seq(Nat)]
    BY <2>2, TrackerForms DEF Unlock
  <2>3. ASSUME NEW a \in Agent, NEW n \in Name, NEW addr \in Address, StartLogin(q, a, {n, addr})
        PROVE  tracker' \in [Key -> KeyState] /\ recent' \in [Key -> Seq(Nat)]
    BY <2>3, TrackerForms DEF StartLogin, observers
  <2> QED
    BY <2>1, <2>2, <2>3, WhatHandlesChange
<1>8. mix' \in Mixes
  BY WhatHandlesChange
<1> QED
  BY <1>3, <1>4, <1>5, <1>6, <1>7, <1>8

LEMMA TimeKeepsTypes ==
  ASSUME AccessTypes, ClockTick
  PROVE  /\ AccessTypes'
         /\ \A q \in Request : /\ request'[q].session.uid = request[q].session.uid
                               /\ request'[q].step = request[q].step
                               /\ request'[q].op = request[q].op
                               /\ request'[q].agent = request[q].agent
                               /\ request'[q].keys = request[q].keys
         /\ \A a \in Agent : cookie'[a].uid = cookie[a].uid
<1> USE DEF AccessTypes, TypeOK
<1>1. ASSUME NEW q \in Request
      PROVE  /\ request'[q] \in RequestState
             /\ WellFormed(request'[q])
             /\ request'[q].session.uid = request[q].session.uid
             /\ request'[q].step = request[q].step
             /\ request'[q].op = request[q].op
             /\ request'[q].agent = request[q].agent
             /\ request'[q].keys = request[q].keys
  <2> DEFINE r == request[q]
             s == Aged(request[q].session)
             t == [r EXCEPT !.session = s]
  <2>1. request'[q] = t
    BY DEF ClockTick
  <2>2. r \in RequestState /\ WellFormed(r)
    OBVIOUS
  <2>3. r.session \in Session
    BY <2>2 DEF RequestState
  <2>4. s \in Session /\ s.uid = r.session.uid
    BY <2>3, SessionForms
  <2> HIDE DEF s, r
  <2>5. /\ t \in RequestState /\ t.session = s /\ t.step = r.step /\ t.op = r.op
        /\ t.agent = r.agent /\ t.keys = r.keys /\ t.user = r.user
    BY <2>2, <2>4 DEF RequestState
  <2> HIDE DEF t
  <2>6. WellFormed(t)
    BY <2>2, <2>4, <2>5 DEF WellFormed
  <2> QED
    BY <2>1, <2>4, <2>5, <2>6 DEF r
<1>2. request' \in [Request -> RequestState]
  <2>1. request' = [q \in Request |-> request'[q]]
    BY DEF ClockTick
  <2> QED
    BY <1>1, <2>1
<1>3. cookie' \in [Agent -> Session] /\ \A a \in Agent : cookie'[a].uid = cookie[a].uid
  BY SessionForms DEF ClockTick
<1>4. tracker' \in [Key -> KeyState]
  BY TrackerForms DEF ClockTick
<1>5. recent' \in [Key -> Seq(Nat)]
  <2>1. ASSUME NEW k \in Key
        PROVE  Latest([i \in DOMAIN recent[k] |-> recent[k][i] + 1], Horizon - 1) \in Seq(Nat)
    <3> DEFINE older == [i \in DOMAIN recent[k] |-> recent[k][i] + 1]
    <3>1. recent[k] \in Seq(Nat) /\ DOMAIN recent[k] = 1 .. Len(recent[k]) /\ Len(recent[k]) \in Nat
      OBVIOUS
    <3>2. \A i \in 1 .. Len(recent[k]) : recent[k][i] + 1 \in Nat
      BY <3>1
    <3>3. older \in [1 .. Len(recent[k]) -> Nat]
      BY <3>1, <3>2
    <3>4. older \in Seq(Nat)
      BY <3>1, <3>3, SeqDef
    <3>5. Horizon - 1 \in Int
      BY TrackerAssumption DEF Horizon
    <3> HIDE DEF older
    <3>6. Nat \in SUBSET Int
      OBVIOUS
    <3>7. Latest(older, Horizon - 1) \in Seq(Nat)
      BY <3>4, <3>5, <3>6, LatestForm
    <3> QED
      BY <3>7 DEF older
  <2> QED
    BY <2>1 DEF ClockTick
<1>6. AccessTypes'
  <2>1. TypeOK'
    BY <1>2, <1>3, <1>4, <1>5 DEF ClockTick
  <2>2. \A q \in Request : WellFormed(request'[q])
    BY <1>1
  <2> QED
    BY <2>1, <2>2
<1> QED
  BY <1>1, <1>3, <1>6

LEMMA RestartsKeepTypes ==
  ASSUME AccessTypes, Forget,
         \/ UNCHANGED users
         \/ \E u \in User : users' = [users EXCEPT ![u] = NewRow("admin")]
  PROVE  AccessTypes'
<1> USE DEF AccessTypes, TypeOK
<1>1. "admin" \in Role
  BY DEF Role
<1>2. users' \in [User -> Row]
  BY <1>1, RowForms
<1>3. /\ tracker' \in [Key -> KeyState] /\ recent' \in [Key -> Seq(Nat)]
      /\ request' \in [Request -> RequestState]
      /\ \A q \in Request : request'[q] = NoRequest
  BY TrackerForms, NothingAsked DEF Forget
<1>4. \A q \in Request : WellFormed(request'[q])
  BY <1>3, NothingAsked DEF WellFormed
<1> QED
  BY <1>2, <1>3, <1>4 DEF Forget

\* The steps of accessVars: a handler's, or one of four others.
LEMMA AccessKinds ==
  ASSUME [Next]_accessVars
  PROVE  \/ \E q \in Request : Handle(q)
         \/ ClockTick
         \/ Forget /\ (UNCHANGED users \/ \E u \in User : users' = [users EXCEPT ![u] = NewRow("admin")])
         \/ UNCHANGED accessVars
  BY DEF Next, Restart, RestartEmpty

LEMMA TypesKept == ASSUME AccessTypes, [Next]_accessVars PROVE AccessTypes'
<1>1. CASE UNCHANGED accessVars
  BY <1>1 DEF accessVars, observers, AccessTypes, TypeOK
<1> QED
  BY <1>1, AccessKinds, HandlesKeepTypes, TimeKeepsTypes, RestartsKeepTypes

\* Every step of a perimeter is one of both its parts.
LEMMA BothSides ==
  ASSUME [PerimeterNext]_perimeterVars
  PROVE  [Next]_accessVars /\ [FilterNext]_filterVars
  BY DEF PerimeterNext, perimeterVars

\* The variables keep their types, and each request has what its handler reads at the
\* step it has reached.
THEOREM RequestsAreFormed == PerimeterSpec => []AccessTypes
<1>1. PerimeterInit => AccessTypes
  BY AccessStarts DEF PerimeterInit
<1>2. AccessTypes /\ [PerimeterNext]_perimeterVars => AccessTypes'
  BY BothSides, TypesKept
<1> QED
  BY <1>1, <1>2, PTL DEF PerimeterSpec

-----------------------------------------------------------------------------
(* Sessions and administrators. *)

LEMMA AdminsStay == ASSUME AccessTypes, AdminsAct, [Next]_accessVars PROVE AdminsAct'
<1> USE DEF AccessTypes, TypeOK
<1>1. ASSUME NEW q \in Request, Handle(q) PROVE AdminsAct'
  <2>1. PICK r : Goto(q, r) /\ Fits(q, r)
    BY <1>1, HandlesFit
  <2>2. r \in RequestState
    BY <2>1 DEF Fits, WellFormed
  <2>3. request'[q] = r /\ \A p \in Request \ {q} : request'[p] = request[p]
    BY <2>1, <2>2, OthersStay
  <2>4. SUFFICES ASSUME ~raced'
                 PROVE  /\ \E u \in User : AdminRow(users'[u])
                        /\ \A p \in Request : Acts(request'[p]) =>
                              /\ request'[p].session.uid \in User
                              /\ AdminRow(users'[request'[p].session.uid])
    BY DEF AdminsAct
  <2>5. ~raced
    BY <1>1, <2>4, WhatHandlesChange DEF CommitChange
  <2>6. ASSUME NEW p \in Request, Acts(request'[p])
        PROVE  request'[p].session.uid \in User /\ AdminRow(users[request'[p].session.uid])
    BY <2>1, <2>3, <2>5, <2>6 DEF Fits, AdminsAct
  <2>7. CASE UNCHANGED users
    BY <2>5, <2>6, <2>7 DEF AdminsAct
  <2>8. CASE InsertUser(q)
    <3>1. \A u \in User : AdminRow(users[u]) => users'[u] = users[u]
      BY <2>8 DEF InsertUser, AdminRow
    <3> QED
      BY <2>5, <2>6, <3>1 DEF AdminsAct
  <2>9. CASE CommitChange(q)
    <3> DEFINE u == request[q].user
               actor == request[q].session.uid
    <3>1. Acts(request[q]) /\ request[q].step = "commit" /\ u \in User /\ u # actor
      BY <2>9 DEF CommitChange, At, Acts, WellFormed
    <3>2. actor \in User /\ AdminRow(users[actor])
      BY <2>5, <3>1 DEF AdminsAct
    <3>3. \A v \in User : v # u => users'[v] = users[v]
      BY <2>9, <3>1 DEF CommitChange
    <3>4. ~UnderWay(q, u)
      BY <2>4, <2>9 DEF CommitChange
    <3>5. r.step = "respond"
      <4>1. request'[q].step = "respond"
        BY <2>9, NothingAsked DEF CommitChange, Answer, Goto, RequestState
      <4> QED
        BY <2>3, <4>1
    <3>6. ASSUME NEW p \in Request, Acts(request'[p])
          PROVE  request'[p].session.uid # u
      <4>1. p # q /\ request'[p] = request[p]
        BY <2>3, <3>5, <3>6 DEF Acts
      <4>2. request[p].op \in AdminOps /\ request[p].step \in {"load", "commit"}
        BY <3>6, <4>1 DEF Acts, WellFormed, AdminOps
      <4> QED
        BY <3>4, <4>1, <4>2 DEF UnderWay
    <3>7. AdminRow(users'[actor])
      BY <3>1, <3>2, <3>3
    <3> QED
      BY <2>6, <3>2, <3>3, <3>6, <3>7
  <2> QED
    BY <1>1, <2>7, <2>8, <2>9, WhatHandlesChange
<1>2. CASE ClockTick
  <2>1. \A q \in Request : /\ request'[q].session.uid = request[q].session.uid
                           /\ request'[q].step = request[q].step
    BY <1>2, TimeKeepsTypes
  <2>2. UNCHANGED << users, raced >>
    BY <1>2 DEF ClockTick
  <2> QED
    BY <2>1, <2>2 DEF AdminsAct, Acts
<1>3. ASSUME Forget, UNCHANGED users \/ \E u \in User : users' = [users EXCEPT ![u] = NewRow("admin")]
      PROVE  AdminsAct'
  <2>1. raced' = raced /\ \A q \in Request : request'[q].step = "idle"
    BY <1>3, NothingAsked DEF Forget
  <2>2. CASE UNCHANGED users
    BY <2>1, <2>2 DEF AdminsAct, Acts
  <2>3. ASSUME NEW u \in User, users' = [users EXCEPT ![u] = NewRow("admin")] PROVE AdminsAct'
    <3>1. "admin" \in Role
      BY DEF Role
    <3>2. users'[u] = NewRow("admin")
      BY <2>3
    <3>3. AdminRow(users'[u])
      BY <3>1, <3>2, RowForms DEF AdminRow
    <3> QED
      BY <2>1, <3>3 DEF AdminsAct, Acts
  <2> QED
    BY <1>3, <2>2, <2>3
<1>4. CASE UNCHANGED accessVars
  BY <1>4 DEF accessVars, observers, AdminsAct
<1> QED
  BY <1>1, <1>2, <1>3, <1>4, AccessKinds

\* The handlers protect the account that acts, each its own: with any number of
\* administrators who disable, demote and delete each other at once, an active one is
\* left unless one of them was changed between its admission and its commit.
THEOREM AdminAlwaysRemains == PerimeterSpec => []AdminRemains
<1>1. PerimeterInit => AdminsAct
  <2> SUFFICES ASSUME Init PROVE AdminsAct
    BY DEF PerimeterInit
  <2>1. "admin" \in Role
    BY DEF Role
  <2>2. FirstAdmin \in User /\ users[FirstAdmin] = NewRow("admin")
    BY AccountAssumption DEF Init, Seeded
  <2>3. AdminRow(users[FirstAdmin])
    BY <2>1, <2>2, RowForms DEF AdminRow
  <2> QED
    BY <2>2, <2>3, NothingAsked DEF Init, AdminsAct, Acts
<1>2. AccessTypes /\ AdminsAct /\ [PerimeterNext]_perimeterVars => AdminsAct'
  BY BothSides, AdminsStay
<1>3. AdminsAct => AdminRemains
  BY DEF AdminsAct, AdminRemains, ActiveAdmin, AdminRow
<1> QED
  BY <1>1, <1>2, <1>3, RequestsAreFormed, PTL DEF PerimeterSpec

LEMMA LoggedOutStays == ASSUME AccessTypes, LoggedOut, [Next]_accessVars PROVE LoggedOut'
<1> USE DEF AccessTypes, TypeOK
<1>1. ASSUME NEW q \in Request, Handle(q) PROVE LoggedOut'
  <2>1. PICK r : Goto(q, r) /\ Fits(q, r)
    BY <1>1, HandlesFit
  <2>2. r \in RequestState
    BY <2>1 DEF Fits, WellFormed
  <2>3. request'[q] = r /\ \A p \in Request \ {q} : request'[p] = request[p]
    BY <2>1, <2>2, OthersStay
  <2> SUFFICES ASSUME NEW a \in Agent, signed_out'[a] = "clean"
               PROVE  /\ cookie'[a].uid = "none"
                      /\ \A p \in Request : ~(Carried(request'[p]) /\ request'[p].agent = a)
    BY DEF LoggedOut
  <2>4. CASE UNCHANGED << cookie, signed_out >>
    BY <2>1, <2>3, <2>4 DEF LoggedOut, Fits
  <2>5. CASE Respond(q)
    <3> DEFINE s == request[q]
               others == {p \in Request \ {q} : CarriesSession(p, s.agent)}
    <3>1. /\ \A b \in Agent : b # s.agent => cookie'[b] = cookie[b] /\ signed_out'[b] = signed_out[b]
          /\ s.agent \in Agent => cookie'[s.agent] = s.session
          /\ ~Carried(request'[q])
      BY <2>5, NothingAsked DEF Respond, Goto, Carried
    <3>2. CASE a # s.agent
      BY <2>3, <3>1, <3>2 DEF LoggedOut
    <3>3. CASE a = s.agent
      <4>1. signed_out'[a] = IF s.op = "logout" THEN (IF others = {} THEN "clean" ELSE "overtaken")
                             ELSE IF s.op \in {"login", "register"} /\ s.session.uid # "none" THEN "no"
                             ELSE signed_out[a]
        BY <2>5, <3>3 DEF Respond
      <4>2. CASE s.op = "logout"
        <5>1. s.session.uid = "none" /\ others = {}
          BY <4>1, <4>2 DEF WellFormed
        <5>2. \A p \in Request \ {q} : ~CarriesSession(p, a)
          BY <3>3, <5>1
        <5> QED
          BY <2>3, <3>1, <3>3, <5>1, <5>2 DEF CarriesSession, Carried, At
      <4>3. CASE s.op # "logout"
        <5>1. signed_out[a] = "clean" /\ ~(s.op \in {"login", "register"} /\ s.session.uid # "none")
          BY <4>1, <4>3
        <5>2. s.step # "idle"
          BY <2>5 DEF Respond, At
        <5>3. s.session.uid = "none"
          BY <3>3, <5>1, <5>2 DEF LoggedOut, Carried
        <5> QED
          BY <2>3, <3>1, <3>3, <5>1, <5>3 DEF LoggedOut
      <4> QED
        BY <4>2, <4>3
    <3> QED
      BY <3>2, <3>3
  <2> QED
    BY <1>1, <2>4, <2>5, WhatHandlesChange
<1>2. CASE ClockTick
  <2>1. /\ \A q \in Request : /\ request'[q].session.uid = request[q].session.uid
                              /\ request'[q].step = request[q].step
                              /\ request'[q].op = request[q].op
                              /\ request'[q].agent = request[q].agent
        /\ \A a \in Agent : cookie'[a].uid = cookie[a].uid
    BY <1>2, TimeKeepsTypes
  <2>2. signed_out' = signed_out
    BY <1>2 DEF ClockTick
  <2>3. \A q \in Request : /\ Carried(request'[q]) => Carried(request[q])
                           /\ request'[q].agent = request[q].agent
    BY <2>1 DEF Carried
  <2>4. ASSUME NEW a \in Agent, signed_out'[a] = "clean"
        PROVE  /\ cookie'[a].uid = "none"
               /\ \A q \in Request : ~(Carried(request'[q]) /\ request'[q].agent = a)
    BY <2>1, <2>2, <2>3, <2>4, ZenonT(60) DEF LoggedOut
  <2> QED
    BY <2>4 DEF LoggedOut
<1>3. CASE Forget
  <2>1. \A q \in Request : request'[q].step = "idle"
    BY <1>3, NothingAsked DEF Forget
  <2> QED
    BY <1>3, <2>1 DEF Forget, LoggedOut, Carried
<1>4. CASE UNCHANGED accessVars
  BY <1>4 DEF accessVars, observers, LoggedOut
<1> QED
  BY <1>1, <1>2, <1>3, <1>4, AccessKinds

\* A logout holds against any number of browsers and requests, as long as none of the
\* browser's other requests was on its way with the session.
THEOREM LogoutAlwaysSticks == PerimeterSpec => []LogoutSticks
<1>1. PerimeterInit => LoggedOut
  BY DEF PerimeterInit, Init, LoggedOut
<1>2. AccessTypes /\ LoggedOut /\ [PerimeterNext]_perimeterVars => LoggedOut'
  BY BothSides, LoggedOutStays
<1>3. LoggedOut => LogoutSticks
  BY DEF LoggedOut, LogoutSticks
<1> QED
  BY <1>1, <1>2, <1>3, RequestsAreFormed, PTL DEF PerimeterSpec

-----------------------------------------------------------------------------
(* Failures of a key: proofs. *)

LEMMA OthersCount == Others \in Nat
<1>1. Cardinality(Request) \in Nat /\ Cardinality(Request) # 0
  BY RequestAssumption, FS_CardinalityType, FS_EmptySet
<1> QED
  BY <1>1 DEF Others

\* A key nobody has failed with.
LEMMA NewKey ==
  ASSUME NEW pending \in 0 .. Others + 1
  PROVE  KeyInv(Forgotten, << >>, pending)
<1>1. InView(<< >>)
  BY DEF InView
<1>2. Counted(Forgotten, << >>) /\ LockedIn(Forgotten, << >>, pending)
  BY OthersCount DEF Counted, LockedIn, Forgotten
<1>3. Len(Forgotten.failure_times) < MaxAttempts
  BY TrackerAssumption DEF Forgotten
<1> QED
  BY <1>1, <1>2, <1>3, TrackerForms DEF KeyInv

\* A request leaves without a result.
LEMMA KeyLeft ==
  ASSUME NEW state, NEW ages, NEW pending \in Nat, NEW fewer \in 0 .. pending,
         KeyInv(state, ages, pending)
  PROVE  KeyInv(state, ages, fewer)
<1>1. LockedIn(state, ages, fewer)
  <2> SUFFICES ASSUME state.locked # NotLocked
               PROVE  /\ fewer <= Others
                      /\ Len(ages) + fewer <= MaxAttempts + 2 * Others
                      /\ \A i \in 1 .. Len(ages) : i + fewer > Others => Last(ages, i) >= Lockout - state.locked
    BY DEF LockedIn
  <2>1. Len(ages) \in Nat
    BY DEF KeyInv, InView
  <2> QED
    BY <2>1, OthersCount, TrackerAssumption DEF KeyInv, LockedIn
<1> QED
  BY <1>1 DEF KeyInv

\* is_locked, and a request that is let in.
LEMMA KeyChecked ==
  ASSUME NEW state, NEW ages, NEW pending \in Nat, NEW more \in 0 .. Others + 1,
         KeyInv(state, ages, pending),
         more = pending \/ (more = pending + 1 /\ ~IsLocked(state))
  PROVE  KeyInv(Checked(state), ages, more)
<1>1. state \in KeyState /\ state.locked \in NotLocked .. Lockout
  BY DEF KeyInv, KeyState
<1>2. /\ ages \in Seq(Nat) /\ Len(ages) \in Nat
      /\ \A i \in 1 .. Len(ages) : Last(ages, i) < Lockout
  <2>1. ages \in Seq(Nat) /\ Len(ages) \in Nat
    BY DEF KeyInv, InView
  <2>2. \A i \in 1 .. Len(ages) : Len(ages) + 1 - i \in 1 .. Len(ages)
    BY <2>1
  <2> QED
    BY <2>1, <2>2 DEF KeyInv, InView, Last
<1>3. CASE state.locked = 0
  <2>1. Len(ages) <= Others
    <3> SUFFICES ASSUME Len(ages) > Others PROVE FALSE
      BY <1>2, OthersCount
    <3>1. Len(ages) \in 1 .. Len(ages)
      BY <1>2, OthersCount
    <3>2. Last(ages, Len(ages)) \in Nat
      BY <1>2, <3>1 DEF Last
    <3>3. Last(ages, Len(ages)) >= Lockout - 0
      BY <1>2, <1>3, <3>1, OthersCount DEF KeyInv, LockedIn, NotLocked
    <3> QED
      BY <1>2, <3>1, <3>2, <3>3, TrackerAssumption
  <2>2. Checked(state) = Forgotten
    BY <1>3 DEF Checked
  <2>3. Counted(Forgotten, ages) /\ LockedIn(Forgotten, ages, more)
    BY <1>2, <2>1, OthersCount DEF Counted, LockedIn, Forgotten
  <2>4. Len(Forgotten.failure_times) < MaxAttempts
    BY TrackerAssumption DEF Forgotten
  <2> QED
    BY <2>2, <2>3, <2>4, TrackerForms DEF KeyInv
<1>4. CASE state.locked > 0
  <2>1. Checked(state) = state /\ more = pending
    BY <1>1, <1>4 DEF Checked, IsLocked
  <2> QED
    BY <2>1
<1>5. CASE state.locked = NotLocked
  <2>1. Checked(state) = state
    BY <1>5 DEF Checked, NotLocked
  <2>2. LockedIn(state, ages, more)
    BY <1>5 DEF LockedIn
  <2> QED
    BY <2>1, <2>2 DEF KeyInv
<1> QED
  BY <1>1, <1>3, <1>4, <1>5, TrackerAssumption DEF NotLocked

\* A failure in view, as the newest.
LEMMA Appended ==
  ASSUME NEW S, NEW times \in Seq(S), NEW t \in S
  PROVE  /\ Append(times, t) \in Seq(S)
         /\ Len(Append(times, t)) = Len(times) + 1
         /\ Len(times) \in Nat
         /\ Last(Append(times, t), 1) = t
         /\ \A i \in 1 .. Len(times) : Last(Append(times, t), i + 1) = Last(times, i)
         /\ \A i \in 1 .. Len(times) : Append(times, t)[i] = times[i]
         /\ Append(times, t)[Len(times) + 1] = t
<1>1. /\ Append(times, t) \in Seq(S)
      /\ Len(Append(times, t)) = Len(times) + 1
      /\ \A i \in 1 .. Len(times) : Append(times, t)[i] = times[i]
      /\ Append(times, t)[Len(times) + 1] = t
      /\ Len(times) \in Nat
  BY AppendProperties
<1>2. Last(Append(times, t), 1) = t
  BY <1>1 DEF Last
<1>3. ASSUME NEW i \in 1 .. Len(times) PROVE Last(Append(times, t), i + 1) = Last(times, i)
  <2>1. Len(times) + 1 - i \in 1 .. Len(times) /\ (Len(times) + 1) + 1 - (i + 1) = Len(times) + 1 - i
    BY <1>1
  <2> QED
    BY <1>1, <2>1 DEF Last
<1> QED
  BY <1>1, <1>2, <1>3

LEMMA ViewGrows == ASSUME NEW ages, InView(ages) PROVE InView(Append(ages, 0))
<1> DEFINE more == Append(ages, 0)
           n == Len(ages)
<1>1. /\ ages \in Seq(Nat) /\ n \in Nat
      /\ more \in Seq(Nat) /\ Len(more) = n + 1
      /\ \A i \in 1 .. n : more[i] = ages[i]
      /\ more[n + 1] = 0
  BY Appended DEF InView
<1> HIDE DEF more, n
<1>2. \A i \in 1 .. n : ages[i] \in Nat
  BY <1>1 DEF n
<1>3. ASSUME NEW i \in 1 .. n + 1 PROVE more[i] <= Window /\ more[i] < Lockout /\ more[i] >= 0
  <2>1. CASE i = n + 1
    BY <1>1, <2>1, TrackerAssumption
  <2>2. CASE i # n + 1
    BY <1>1, <1>2, <2>2 DEF InView, n
  <2> QED
    BY <2>1, <2>2
<1>4. ASSUME NEW i \in 1 .. n + 1, NEW j \in 1 .. n + 1, i <= j PROVE more[i] >= more[j]
  <2>1. CASE j = n + 1
    BY <1>1, <1>3, <2>1
  <2>2. CASE j # n + 1
    <3>1. i \in 1 .. n /\ j \in 1 .. n
      BY <1>1, <1>4, <2>2
    <3> QED
      BY <1>1, <1>4, <3>1 DEF InView, n
  <2> QED
    BY <2>1, <2>2
<1>5. InView(more)
  BY <1>1, <1>3, <1>4 DEF InView
<1> QED
  BY <1>5 DEF more

LEMMA LatestFromTheEnd ==
  ASSUME NEW S \in SUBSET Int, NEW times \in Seq(S), NEW limit \in Int
  PROVE  \E n \in 0 .. Len(times) :
            /\ Latest(times, limit) \in Seq(S)
            /\ Len(Latest(times, limit)) = n
            /\ \A i \in 1 .. n : Latest(times, limit)[i] = times[Len(times) - n + i]
            /\ \A i \in 1 .. n : Last(Latest(times, limit), i) = Last(times, i)
            /\ \A i \in 1 .. Len(times) : i > n => Last(times, i) > limit
            /\ n > 0 => Last(times, n) <= limit
<1>0. Len(times) \in Nat
  OBVIOUS
<1>1. PICK m \in 0 .. Len(times) :
         /\ \A i \in 1 .. m : times[i] > limit
         /\ m < Len(times) => times[m + 1] <= limit
         /\ Latest(times, limit) \in Seq(S)
         /\ Len(Latest(times, limit)) = Len(times) - m
         /\ \A i \in 1 .. Len(times) - m : Latest(times, limit)[i] = times[m + i]
  BY LatestForm
<1>2. PICK n \in 0 .. Len(times) : n = Len(times) - m
  <2>1. Len(times) - m \in 0 .. Len(times)
    BY <1>0
  <2> QED
    BY <2>1, Zenon
<1>3. ASSUME NEW i \in 1 .. n PROVE /\ Latest(times, limit)[i] = times[Len(times) - n + i]
                                   /\ Last(Latest(times, limit), i) = Last(times, i)
  <2>1. m = Len(times) - n /\ n + 1 - i \in 1 .. Len(times) - m /\ m + (n + 1 - i) = Len(times) + 1 - i
    BY <1>0, <1>2
  <2>2. Last(Latest(times, limit), i) = Latest(times, limit)[n + 1 - i]
    BY <1>1, <1>2 DEF Last
  <2>3. Latest(times, limit)[n + 1 - i] = times[m + (n + 1 - i)]
    BY <1>1, <2>1
  <2>4. Latest(times, limit)[i] = times[m + i]
    BY <1>0, <1>1, <1>2
  <2> QED
    BY <2>1, <2>2, <2>3, <2>4 DEF Last
<1>4. ASSUME NEW i \in 1 .. Len(times), i > n PROVE Last(times, i) > limit
  <2>1. Len(times) + 1 - i \in 1 .. m
    BY <1>0, <1>2, <1>4
  <2> QED
    BY <1>1, <2>1 DEF Last
<1>5. n > 0 => Last(times, n) <= limit
  <2>1. Len(times) + 1 - n = m + 1 /\ (n > 0 => m < Len(times))
    BY <1>0, <1>2
  <2> QED
    BY <1>1, <2>1 DEF Last
<1> QED
  BY <1>1, <1>2, <1>3, <1>4, <1>5

\* record_failure by a request that was let in with the key.
LEMMA KeyFails ==
  ASSUME NEW state, NEW ages, NEW pending \in 1 .. Others + 1, KeyInv(state, ages, pending)
  PROVE  KeyInv(AfterFailure(state), Append(ages, 0), pending - 1)
<1> DEFINE S == 0 .. Window + 1
           F == state.failure_times
           P == Pruned(state)
           times == Append(P, 0)
           more == Append(ages, 0)
<1> USE TrackerAssumption, OthersCount
<1>1. /\ state \in KeyState /\ F \in Seq(S) /\ Len(F) \in Nat /\ Len(F) < MaxAttempts
      /\ state.locked \in NotLocked .. Lockout
      /\ ages \in Seq(Nat) /\ Len(ages) \in Nat
  BY DEF KeyInv, InView, KeyState
<1>2. PICK n \in 0 .. Len(F) :
         /\ P \in Seq(S)
         /\ Len(P) = n
         /\ \A i \in 1 .. n : Last(P, i) = Last(F, i)
         /\ \A i \in 1 .. Len(F) : i > n => Last(F, i) > Window
  <2>1. S \in SUBSET Int /\ Window \in Int
    OBVIOUS
  <2>2. P = Latest(F, Window)
    BY DEF Pruned
  <2> HIDE DEF S, P, F
  <2> QED
    BY <1>1, <2>1, <2>2, LatestFromTheEnd
<1>3. /\ times \in Seq(S) /\ Len(times) = n + 1 /\ Last(times, 1) = 0
      /\ \A i \in 1 .. n : Last(times, i + 1) = Last(F, i)
  <2>1. 0 \in S
    OBVIOUS
  <2> HIDE DEF S, P
  <2> QED
    BY <1>2, <2>1, Appended
<1>4. /\ InView(more) /\ Len(more) = Len(ages) + 1 /\ Last(more, 1) = 0
      /\ \A i \in 1 .. Len(ages) : Last(more, i + 1) = Last(ages, i)
  BY <1>1, ViewGrows, Appended DEF KeyInv
<1>5. AfterFailure(state) = IF Len(times) >= MaxAttempts
                            THEN [failure_times |-> << >>, locked |-> Lockout]
                            ELSE [state EXCEPT !.failure_times = times]
  BY DEF AfterFailure
<1>6. AfterFailure(state) \in KeyState
  BY <1>1, TrackerForms
<1> HIDE DEF S, P, times, more
<1>7. \A i \in 1 .. Len(ages) : Last(ages, i) \in Nat /\ Last(ages, i) <= Window
  <2>1. \A i \in 1 .. Len(ages) : Len(ages) + 1 - i \in 1 .. Len(ages)
    BY <1>1
  <2> QED
    BY <1>1, <2>1 DEF KeyInv, InView, Last
<1>8. CASE Len(times) >= MaxAttempts
  <2> DEFINE t == AfterFailure(state)
  <2>1. t.locked = Lockout /\ Len(t.failure_times) = 0
    BY <1>5, <1>8
  <2> HIDE DEF t
  <2>2. \A i \in 1 .. Len(more) : Last(more, i) >= 0
    <3>1. \A i \in 1 .. Len(more) : Len(more) + 1 - i \in 1 .. Len(more)
      BY <1>1, <1>4
    <3>2. \A i \in 1 .. Len(more) : more[i] >= 0
      BY <1>4 DEF InView
    <3> QED
      BY <3>1, <3>2 DEF Last
  <2>3. Len(more) + (pending - 1) <= MaxAttempts + 2 * Others
    <3>1. CASE state.locked # NotLocked
      BY <1>1, <1>4, <3>1 DEF KeyInv, LockedIn
    <3>2. CASE state.locked = NotLocked
      <4>1. ASSUME Len(ages) - Others >= 1 PROVE Len(ages) - Others <= Len(F)
        <5>1. Len(ages) - Others \in 1 .. Len(ages) - Others
          BY <1>1, <4>1
        <5> QED
          BY <3>2, <5>1 DEF KeyInv, Counted
      <4> QED
        BY <1>1, <1>4, <4>1
    <3> QED
      BY <3>1, <3>2
  <2>4. Counted(t, more) /\ LockedIn(t, more, pending - 1)
    BY <2>1, <2>2, <2>3 DEF Counted, LockedIn, NotLocked
  <2> QED
    BY <1>4, <1>6, <2>1, <2>4 DEF KeyInv, t, more
<1>9. CASE Len(times) < MaxAttempts
  <2> DEFINE t == AfterFailure(state)
  <2>1. t.locked = state.locked /\ t.failure_times = times
    BY <1>1, <1>3, <1>5, <1>9 DEF KeyState
  <2> HIDE DEF t
  <2>2. Counted(t, more)
    <3> SUFFICES ASSUME state.locked = NotLocked, NEW i \in 1 .. Len(more) - Others
                 PROVE  /\ i <= Len(times)
                        /\ \A j \in 1 .. i : Last(times, j) <= Last(more, j)
      BY <2>1 DEF Counted
    <3>1. CASE i = 1
      BY <1>3, <1>4, <3>1
    <3>2. CASE i # 1
      <4>1. i - 1 \in 1 .. Len(ages) - Others /\ i - 1 \in 1 .. Len(ages)
        BY <1>1, <1>4, <3>2
      <4>2. i - 1 <= Len(F) /\ \A j \in 1 .. i - 1 : Last(F, j) <= Last(ages, j)
        BY <4>1 DEF KeyInv, Counted
      <4>3. i - 1 <= n
        <5> SUFFICES ASSUME i - 1 > n PROVE FALSE
          BY <1>1, <4>1
        <5>1. i - 1 \in 1 .. Len(F)
          BY <1>1, <4>1, <4>2
        <5>2. Last(F, i - 1) > Window
          BY <1>2, <5>1
        <5>3. Last(F, i - 1) <= Last(ages, i - 1) /\ Last(ages, i - 1) <= Window
          BY <1>7, <4>1, <4>2
        <5>4. Last(F, i - 1) \in Int /\ Last(ages, i - 1) \in Int
          <6>1. Len(F) + 1 - (i - 1) \in 1 .. Len(F)
            BY <1>1, <5>1
          <6>2. Last(F, i - 1) \in S
            BY <1>1, <6>1 DEF Last
          <6> QED
            BY <1>7, <4>1, <6>2 DEF S
        <5> QED
          BY <5>2, <5>3, <5>4
      <4>4. ASSUME NEW j \in 1 .. i PROVE Last(times, j) <= Last(more, j)
        <5>1. CASE j = 1
          BY <1>3, <1>4, <5>1
        <5>2. CASE j # 1
          <6>1. j - 1 \in 1 .. i - 1 /\ j - 1 \in 1 .. n /\ j - 1 \in 1 .. Len(ages) /\ (j - 1) + 1 = j
            BY <1>1, <4>1, <4>3, <5>2
          <6>2. Last(times, j) = Last(F, j - 1) /\ Last(more, j) = Last(ages, j - 1)
            BY <1>3, <1>4, <6>1
          <6> QED
            BY <4>2, <6>1, <6>2
        <5> QED
          BY <5>1, <5>2
      <4> QED
        BY <1>1, <1>3, <4>1, <4>3, <4>4
    <3> QED
      BY <3>1, <3>2
  <2>3. LockedIn(t, more, pending - 1)
    <3> SUFFICES ASSUME state.locked # NotLocked
                 PROVE  /\ pending - 1 <= Others
                        /\ Len(more) + (pending - 1) <= MaxAttempts + 2 * Others
                        /\ \A i \in 1 .. Len(more) : i + (pending - 1) > Others =>
                              Last(more, i) >= Lockout - state.locked
      BY <2>1 DEF LockedIn
    <3>1. /\ pending <= Others
          /\ Len(ages) + pending <= MaxAttempts + 2 * Others
          /\ \A i \in 1 .. Len(ages) : i + pending > Others => Last(ages, i) >= Lockout - state.locked
      BY DEF KeyInv, LockedIn
    <3>2. ASSUME NEW i \in 1 .. Len(more), i + (pending - 1) > Others
          PROVE  Last(more, i) >= Lockout - state.locked
      <4>1. i - 1 \in 1 .. Len(ages) /\ (i - 1) + pending > Others /\ (i - 1) + 1 = i
        BY <1>1, <1>4, <3>1, <3>2
      <4>2. Last(more, i) = Last(ages, i - 1)
        BY <1>4, <4>1
      <4> QED
        BY <3>1, <4>1, <4>2
    <3> QED
      BY <1>1, <1>4, <3>1, <3>2
  <2> QED
    BY <1>4, <1>6, <1>9, <2>1, <2>2, <2>3 DEF KeyInv, t, more
<1> QED
  BY <1>1, <1>3, <1>8, <1>9

\* A clock tick.
LEMMA KeyAges ==
  ASSUME NEW state, NEW ages, NEW pending \in Nat, KeyInv(state, ages, pending)
  PROVE  KeyInv(Older(state), Latest([i \in DOMAIN ages |-> ages[i] + 1], Horizon - 1), pending)
<1> DEFINE F == state.failure_times
           left == IF state.locked > 0 THEN state.locked - 1 ELSE state.locked
           times == [i \in DOMAIN F |-> IF F[i] > Window THEN F[i] ELSE F[i] + 1]
           older == [i \in DOMAIN ages |-> ages[i] + 1]
           view == Latest(older, Horizon - 1)
           t == Older(state)
<1> USE TrackerAssumption, OthersCount
<1>1. /\ state \in KeyState /\ F \in Seq(0 .. Window + 1) /\ Len(F) \in Nat /\ Len(F) < MaxAttempts
      /\ DOMAIN F = 1 .. Len(F)
      /\ state.locked \in NotLocked .. Lockout
      /\ ages \in Seq(Nat) /\ Len(ages) \in Nat /\ DOMAIN ages = 1 .. Len(ages)
  BY DEF KeyInv, InView, KeyState
<1>2. /\ t.locked = left /\ t.failure_times = times /\ t \in KeyState
      /\ left >= state.locked - 1
      /\ left = NotLocked <=> state.locked = NotLocked
  <2>1. t.locked = left /\ t.failure_times = times
    BY DEF Older
  <2>2. t \in KeyState
    BY <1>1, TrackerForms
  <2>3. left >= state.locked - 1 /\ (left = NotLocked <=> state.locked = NotLocked)
    BY <1>1 DEF NotLocked
  <2> QED
    BY <2>1, <2>2, <2>3
<1>3. \A i \in 1 .. Len(F) : F[i] \in 0 .. Window + 1
  BY <1>1
<1>4. times \in Seq(0 .. Window + 1) /\ Len(times) = Len(F)
      /\ \A i \in 1 .. Len(F) : times[i] <= F[i] + 1
  <2>1. times \in [1 .. Len(F) -> 0 .. Window + 1]
    BY <1>1, <1>3
  <2>2. times \in Seq(0 .. Window + 1)
    BY <1>1, <2>1, SeqDef
  <2>3. Len(times) = Len(F)
    BY <1>1, <2>1, <2>2
  <2> QED
    BY <1>1, <1>3, <2>2, <2>3
<1>5. older \in Seq(Nat) /\ Len(older) = Len(ages) /\ \A i \in 1 .. Len(ages) : older[i] = ages[i] + 1
  <2>1. \A i \in 1 .. Len(ages) : ages[i] \in Nat
    BY <1>1
  <2>2. older \in [1 .. Len(ages) -> Nat]
    BY <1>1, <2>1
  <2>3. older \in Seq(Nat)
    BY <1>1, <2>2, SeqDef
  <2>4. Len(older) = Len(ages)
    BY <1>1, <2>2, <2>3
  <2> QED
    BY <1>1, <2>3, <2>4
<1> HIDE DEF times, older, left, t
<1>6. Horizon \in Nat /\ Horizon <= Window /\ Horizon <= Lockout
  BY DEF Horizon
<1>7. PICK n \in 0 .. Len(ages) :
         /\ view \in Seq(Nat)
         /\ Len(view) = n
         /\ \A i \in 1 .. n : view[i] = older[Len(ages) - n + i]
         /\ \A i \in 1 .. n : Last(view, i) = Last(older, i)
         /\ n > 0 => Last(older, n) <= Horizon - 1
  <2>1. Nat \in SUBSET Int /\ Horizon - 1 \in Int
    BY <1>6
  <2>2. PICK limit : limit = Horizon - 1
    OBVIOUS
  <2>3. limit \in Int /\ view = Latest(older, limit)
    BY <2>1, <2>2
  <2> HIDE DEF view
  <2>4. older \in Seq(Nat)
    BY <1>5
  <2>5. PICK n \in 0 .. Len(older) :
           /\ Latest(older, limit) \in Seq(Nat)
           /\ Len(Latest(older, limit)) = n
           /\ \A i \in 1 .. n : Latest(older, limit)[i] = older[Len(older) - n + i]
           /\ \A i \in 1 .. n : Last(Latest(older, limit), i) = Last(older, i)
           /\ n > 0 => Last(older, n) <= limit
    BY <2>1, <2>3, <2>4, LatestFromTheEnd, Zenon
  <2> QED
    BY <1>5, <2>2, <2>3, <2>5
<1> HIDE DEF view
<1>8. \A i \in 1 .. n : Last(view, i) = Last(ages, i) + 1
  <2>1. \A i \in 1 .. n : Len(ages) + 1 - i \in 1 .. Len(ages)
    BY <1>1
  <2> QED
    BY <1>5, <1>7, <2>1 DEF Last
<1>9. InView(view)
  <2>1. \A i \in 1 .. n : Len(ages) - n + i \in 1 .. Len(ages)
    BY <1>1
  <2>2. \A i \in 1 .. n : view[i] = ages[Len(ages) - n + i] + 1
    BY <1>5, <1>7, <2>1
  <2>3. ASSUME NEW i \in 1 .. n, NEW j \in 1 .. n, i <= j PROVE view[i] >= view[j]
    <3>1. Len(ages) - n + i <= Len(ages) - n + j
      BY <1>1, <2>3
    <3>2. ages[Len(ages) - n + i] >= ages[Len(ages) - n + j]
      BY <2>1, <3>1 DEF KeyInv, InView
    <3>3. ages[Len(ages) - n + i] \in Nat /\ ages[Len(ages) - n + j] \in Nat
      <4>1. \A m \in 1 .. Len(ages) : ages[m] \in Nat
        BY <1>1
      <4> QED
        BY <2>1, <4>1
    <3> QED
      BY <2>2, <3>2, <3>3
  <2>4. ASSUME NEW i \in 1 .. n PROVE view[i] <= Window /\ view[i] < Lockout
    <3>1. n > 0 /\ 1 \in 1 .. n /\ 1 <= i
      OBVIOUS
    <3>2. view[1] = Last(older, n)
      <4>1. Len(older) + 1 - n = Len(ages) - n + 1
        BY <1>1, <1>5
      <4> QED
        BY <1>7, <3>1, <4>1 DEF Last
    <3>3. view[i] <= view[1]
      BY <2>3, <3>1
    <3>4. view[i] \in Nat /\ view[1] \in Nat
      BY <1>7, <3>1
    <3> QED
      BY <1>6, <1>7, <3>1, <3>2, <3>3, <3>4
  <2> QED
    BY <1>7, <2>3, <2>4 DEF InView
<1>10. \A i \in 1 .. Len(ages) : Last(ages, i) \in Nat
  <2>1. \A i \in 1 .. Len(ages) : Len(ages) + 1 - i \in 1 .. Len(ages)
    BY <1>1
  <2> QED
    BY <1>1, <2>1 DEF Last
<1>11. \A i \in 1 .. Len(F) : Last(F, i) \in Int /\ Last(times, i) \in Int /\ Last(times, i) <= Last(F, i) + 1
  <2>1. \A i \in 1 .. Len(F) : Len(F) + 1 - i \in 1 .. Len(F)
    BY <1>1
  <2>2. \A i \in 1 .. Len(F) : times[i] \in 0 .. Window + 1
    BY <1>4
  <2> QED
    BY <1>3, <1>4, <2>1, <2>2, SMTT(30) DEF Last
<1>12. Counted(t, view)
  <2> SUFFICES ASSUME state.locked = NotLocked, NEW i \in 1 .. n - Others
               PROVE  i <= Len(times) /\ \A j \in 1 .. i : Last(times, j) <= Last(view, j)
    BY <1>2, <1>7 DEF Counted
  <2>1. i \in 1 .. Len(ages) - Others
    BY <1>1
  <2>2. i <= Len(F) /\ \A j \in 1 .. i : Last(F, j) <= Last(ages, j)
    BY <2>1 DEF KeyInv, Counted
  <2>3. ASSUME NEW j \in 1 .. i PROVE Last(times, j) <= Last(view, j)
    <3>1. j \in 1 .. n /\ j \in 1 .. Len(F) /\ j \in 1 .. Len(ages)
      BY <1>1, <2>1, <2>2
    <3>2. Last(view, j) = Last(ages, j) + 1 /\ Last(F, j) <= Last(ages, j)
      BY <1>8, <2>2, <3>1
    <3> QED
      BY <1>10, <1>11, <3>1, <3>2
  <2> QED
    BY <1>4, <2>2, <2>3
<1>13. LockedIn(t, view, pending)
  <2> SUFFICES ASSUME state.locked # NotLocked
               PROVE  /\ pending <= Others
                      /\ n + pending <= MaxAttempts + 2 * Others
                      /\ \A i \in 1 .. n : i + pending > Others => Last(view, i) >= Lockout - left
    BY <1>2, <1>7 DEF LockedIn
  <2>1. /\ pending <= Others
        /\ Len(ages) + pending <= MaxAttempts + 2 * Others
        /\ \A i \in 1 .. Len(ages) : i + pending > Others => Last(ages, i) >= Lockout - state.locked
    BY DEF KeyInv, LockedIn
  <2>2. ASSUME NEW i \in 1 .. n, i + pending > Others PROVE Last(view, i) >= Lockout - left
    <3>1. i \in 1 .. Len(ages)
      BY <1>1
    <3>2. Last(ages, i) >= Lockout - state.locked /\ Last(view, i) = Last(ages, i) + 1
      BY <1>8, <2>1, <2>2, <3>1
    <3>3. left \in Int /\ state.locked \in Int
      BY <1>1, <1>2 DEF NotLocked, left
    <3> QED
      BY <1>2, <1>10, <3>1, <3>2, <3>3
  <2> QED
    BY <1>1, <2>1, <2>2
<1>14. KeyInv(t, view, pending)
  BY <1>1, <1>2, <1>4, <1>9, <1>12, <1>13 DEF KeyInv
<1> QED
  BY <1>14 DEF t, view, older

-----------------------------------------------------------------------------
(* Failures of all keys. *)

\* How the requests let in with a key change when request q becomes r.
LEMMA PendingForm ==
  ASSUME AccessTypes, NEW q \in Request, NEW r \in RequestState, Goto(q, r), NEW k \in Key
  PROVE  LET old == Cardinality(Pending(k))
             new == Cardinality(Pending(k)')
         IN  /\ old \in 0 .. Others + 1 /\ new \in 0 .. Others + 1
             /\ r.step # "verify" => new <= old
             /\ new <= old + 1
             /\ r.step # "verify" /\ q \in Pending(k) => new = old - 1
             /\ r.step = "verify" /\ k \notin r.keys => new <= old
<1> DEFINE old == Pending(k)
           new == {p \in Request : request'[p].step = "verify" /\ k \in request'[p].keys}
<1>0. Pending(k)' = new
  BY DEF Pending
<1>1. old \subseteq Request /\ new \subseteq Request /\ IsFiniteSet(Request)
  BY RequestAssumption DEF Pending
<1>2. /\ IsFiniteSet(old) /\ IsFiniteSet(new)
      /\ Cardinality(old) <= Cardinality(Request) /\ Cardinality(new) <= Cardinality(Request)
  BY <1>1, FS_Subset
<1>3. /\ Cardinality(old) \in Nat /\ Cardinality(new) \in Nat /\ Cardinality(Request) \in Nat
  BY <1>1, <1>2, FS_CardinalityType
<1>4. Cardinality(old) \in 0 .. Others + 1 /\ Cardinality(new) \in 0 .. Others + 1
  BY <1>2, <1>3 DEF Others
<1>5. request'[q] = r /\ \A p \in Request \ {q} : request'[p] = request[p]
  BY OthersStay
<1>6. /\ new \subseteq old \cup {q}
      /\ r.step # "verify" \/ k \notin r.keys => new = old \ {q}
  BY <1>5 DEF Pending
<1> HIDE DEF old, new
<1>7. Cardinality(new) <= Cardinality(old) + 1
  <2>1. Cardinality(old \cup {q}) <= Cardinality(old) + 1 /\ IsFiniteSet(old \cup {q})
    <3>1. /\ IsFiniteSet(old \cup {q})
          /\ Cardinality(old \cup {q}) = IF q \in old THEN Cardinality(old) ELSE Cardinality(old) + 1
      BY <1>2, FS_AddElement
    <3> QED
      BY <1>3, <3>1
  <2>2. Cardinality(new) <= Cardinality(old \cup {q})
    BY <1>6, <2>1, FS_Subset
  <2>3. Cardinality(old \cup {q}) \in Nat
    BY <2>1, FS_CardinalityType
  <2> QED
    BY <1>3, <2>1, <2>2, <2>3
<1>8. ASSUME new = old \ {q}
      PROVE  Cardinality(new) = IF q \in old THEN Cardinality(old) - 1 ELSE Cardinality(old)
  BY <1>2, <1>8, FS_RemoveElement
<1>9. r.step # "verify" \/ k \notin r.keys => Cardinality(new) <= Cardinality(old)
  BY <1>3, <1>6, <1>8
<1>10. r.step # "verify" /\ q \in old => Cardinality(new) = Cardinality(old) - 1
  BY <1>6, <1>8
<1> QED
  BY <1>0, <1>4, <1>7, <1>9, <1>10 DEF old

LEMMA FailuresStay == ASSUME AccessTypes, Failures, [Next]_accessVars PROVE Failures'
<1> USE DEF AccessTypes, TypeOK
<1>1. ASSUME NEW q \in Request, Handle(q) PROVE Failures'
  <2>1. PICK r : /\ Goto(q, r)
                 /\ Fits(q, r)
                 /\ \/ r.step # "verify"
                    \/ \E a \in Agent, n \in Name, addr \in Address : StartLogin(q, a, {n, addr})
    BY <1>1, HandlesFit
  <2>2. r \in RequestState
    BY <2>1 DEF Fits, WellFormed
  <2>3. request'[q] = r
    BY <2>1, <2>2, OthersStay
  <2> SUFFICES ASSUME NEW k \in Key
               PROVE  KeyInv(tracker'[k], recent'[k], Cardinality(Pending(k)'))
    BY DEF Failures
  <2>4. PICK old, new : old = Cardinality(Pending(k)) /\ new = Cardinality(Pending(k)')
    OBVIOUS
  <2>5. /\ old \in 0 .. Others + 1 /\ new \in 0 .. Others + 1
        /\ r.step # "verify" => new <= old
        /\ new <= old + 1
        /\ r.step # "verify" /\ q \in Pending(k) => new = old - 1
        /\ r.step = "verify" /\ k \notin r.keys => new <= old
    BY <2>1, <2>2, <2>4, PendingForm
  <2>6. KeyInv(tracker[k], recent[k], old) /\ old \in Nat /\ new \in Nat
    BY <2>4, <2>5, OthersCount DEF Failures
  <2>7. CASE r.step # "verify" /\ UNCHANGED << tracker, recent >>
    BY <2>4, <2>5, <2>6, <2>7, KeyLeft
  <2>8. CASE LoginFails(q)
    <3>1. r.step # "verify"
      <4>1. request'[q].step = "respond"
        BY <2>8, NothingAsked DEF LoginFails, Answer, Goto, RequestState
      <4> QED
        BY <2>3, <4>1
    <3>2. CASE k \in request[q].keys
      <4>1. q \in Pending(k) /\ tracker'[k] = AfterFailure(tracker[k]) /\ recent'[k] = Append(recent[k], 0)
        BY <2>8, <3>2 DEF LoginFails, Pending, At
      <4>2. new = old - 1 /\ old \in 1 .. Others + 1
        BY <2>5, <2>6, <3>1, <4>1, OthersCount
      <4> QED
        BY <2>4, <2>6, <4>1, <4>2, KeyFails
    <3>3. CASE k \notin request[q].keys
      <4>1. tracker'[k] = tracker[k] /\ recent'[k] = recent[k]
        BY <2>8, <3>3 DEF LoginFails
      <4> QED
        BY <2>4, <2>5, <2>6, <3>1, <4>1, KeyLeft
    <3> QED
      BY <3>2, <3>3
  <2>9. CASE LoginSucceeds(q)
    <3>1. r.step # "verify"
      <4>1. request'[q].step = "respond"
        BY <2>9, NothingAsked DEF LoginSucceeds, Answer, Goto, RequestState
      <4> QED
        BY <2>3, <4>1
    <3>2. CASE k \in request[q].keys
      <4>1. tracker'[k] = Forgotten /\ recent'[k] = << >>
        BY <2>9, <3>2 DEF LoginSucceeds, AfterSuccess
      <4> QED
        BY <2>4, <2>5, <4>1, NewKey
    <3>3. CASE k \notin request[q].keys
      <4>1. tracker'[k] = tracker[k] /\ recent'[k] = recent[k]
        BY <2>9, <3>3 DEF LoginSucceeds
      <4> QED
        BY <2>4, <2>5, <2>6, <3>1, <4>1, KeyLeft
    <3> QED
      BY <3>2, <3>3
  <2>10. ASSUME NEW a \in Agent, NEW j \in Key, Unlock(q, a, j)
         PROVE  KeyInv(tracker'[k], recent'[k], new)
    <3>1. request'[q].step = "respond"
      <4> DEFINE come == Arrived(a, "unlock")
      <4>1. come \in RequestState
        BY ArrivedForm DEF Ops
      <4>2. request' = [request EXCEPT ![q] = [come EXCEPT !.step = "respond"]]
        BY <2>10 DEF Unlock, Goto
      <4> HIDE DEF come
      <4> QED
        BY <4>1, <4>2 DEF RequestState
    <3>2. r.step # "verify"
      BY <2>3, <3>1
    <3>3. CASE k = j
      <4>1. tracker'[k] = Forgotten /\ recent'[k] = << >>
        BY <2>10, <3>3 DEF Unlock
      <4> QED
        BY <2>5, <4>1, NewKey
    <3>4. CASE k # j
      <4>1. tracker'[k] = tracker[k] /\ recent'[k] = recent[k]
        BY <2>10, <3>4 DEF Unlock
      <4> QED
        BY <2>5, <2>6, <3>2, <4>1, KeyLeft
    <3> QED
      BY <3>3, <3>4
  <2>11. ASSUME NEW a \in Agent, NEW n \in Name, NEW addr \in Address, StartLogin(q, a, {n, addr})
         PROVE  KeyInv(tracker'[k], recent'[k], new)
    <3>1. recent'[k] = recent[k]
      BY <2>11 DEF StartLogin, observers
    <3>2. CASE \E m \in {n, addr} : IsLocked(tracker[m])
      <4>1. request'[q].step = "respond"
        BY <2>11, <3>2, NothingAsked, ZenonT(60) DEF StartLogin, Goto, RequestState
      <4>2. new \in 0 .. old
        BY <2>3, <2>5, <2>6, <4>1
      <4>3. KeyInv(tracker[k], recent[k], new)
        BY <2>6, <4>2, KeyLeft
      <4>4. KeyInv(Checked(tracker[k]), recent[k], new)
        BY <2>5, <2>6, <4>3, KeyChecked
      <4> QED
        BY <2>11, <3>1, <4>3, <4>4 DEF StartLogin
    <3>3. CASE ~\E m \in {n, addr} : IsLocked(tracker[m])
      <4> DEFINE asks == [NoRequest EXCEPT !.step = "verify", !.op = "login", !.agent = a,
                                           !.session = cookie[a], !.keys = {n, addr}]
      <4>1. request' = [request EXCEPT ![q] = asks]
        BY <2>11, <3>3 DEF StartLogin, Goto
      <4>2. asks.step = "verify" /\ asks.keys = {n, addr}
        BY NothingAsked DEF RequestState
      <4> HIDE DEF asks
      <4>3. r.step = "verify" /\ r.keys = {n, addr}
        BY <2>3, <4>1, <4>2
      <4>4. CASE k \in {n, addr}
        <5>1. tracker'[k] = Checked(tracker[k]) /\ ~IsLocked(tracker[k])
          BY <2>11, <3>3, <4>4 DEF StartLogin
        <5>2. CASE new <= old
          <6>1. KeyInv(tracker[k], recent[k], new)
            BY <2>5, <2>6, <5>2, KeyLeft
          <6> QED
            BY <2>5, <2>6, <3>1, <5>1, <6>1, KeyChecked
        <5>3. CASE new = old + 1
          BY <2>5, <2>6, <3>1, <5>1, <5>3, KeyChecked
        <5> QED
          BY <2>5, <2>6, <5>2, <5>3
      <4>5. CASE k \notin {n, addr}
        <5>1. tracker'[k] = tracker[k]
          BY <2>11, <4>5 DEF StartLogin
        <5>2. new \in 0 .. old
          BY <2>5, <2>6, <4>3, <4>5
        <5> QED
          BY <2>6, <3>1, <5>1, <5>2, KeyLeft
      <4> QED
        BY <4>4, <4>5
    <3> QED
      BY <3>2, <3>3
  <2> QED
    BY <1>1, <2>1, <2>4, <2>7, <2>8, <2>9, <2>10, <2>11, WhatHandlesChange
<1>2. ASSUME ClockTick, NEW k \in Key PROVE KeyInv(tracker'[k], recent'[k], Cardinality(Pending(k)'))
  <2>1. Pending(k)' = Pending(k)
    <3>1. \A q \in Request : request'[q].step = request[q].step /\ request'[q].keys = request[q].keys
      BY <1>2, TimeKeepsTypes
    <3> QED
      BY <3>1 DEF Pending
  <2>2. PICK old : old = Cardinality(Pending(k)) /\ old \in Nat
    <3>1. Pending(k) \subseteq Request
      BY DEF Pending
    <3>2. Cardinality(Pending(k)) \in Nat
      BY <3>1, RequestAssumption, FS_Subset, FS_CardinalityType
    <3> QED
      BY <3>2
  <2>3. KeyInv(tracker[k], recent[k], old)
    BY <2>2 DEF Failures
  <2>4. KeyInv(Older(tracker[k]), Latest([i \in DOMAIN recent[k] |-> recent[k][i] + 1], Horizon - 1), old)
    BY <2>2, <2>3, KeyAges
  <2>5. tracker'[k] = Older(tracker[k]) /\ recent'[k] = Latest([i \in DOMAIN recent[k] |-> recent[k][i] + 1], Horizon - 1)
    BY <1>2 DEF ClockTick
  <2> QED
    BY <2>1, <2>2, <2>4, <2>5
<1>3. ASSUME Forget, NEW k \in Key PROVE KeyInv(tracker'[k], recent'[k], Cardinality(Pending(k)'))
  <2>1. \A q \in Request : request'[q].step = "idle"
    BY <1>3, NothingAsked DEF Forget
  <2>2. Pending(k)' = {}
    BY <2>1 DEF Pending
  <2>3. Cardinality(Pending(k)') = 0
    BY <2>2, FS_EmptySet
  <2>4. tracker'[k] = Forgotten /\ recent'[k] = << >>
    BY <1>3 DEF Forget
  <2> QED
    BY <2>3, <2>4, NewKey, OthersCount
<1>4. CASE UNCHANGED accessVars
  BY <1>4 DEF accessVars, observers, Failures, Pending
<1>5. (\A k \in Key : KeyInv(tracker'[k], recent'[k], Cardinality(Pending(k)'))) => Failures'
  BY DEF Failures
<1> QED
  BY <1>1, <1>2, <1>3, <1>4, <1>5, AccessKinds

\* With any number of requests in flight: the failures in view of a key are at most those
\* the tracker allows and two for each other request, although is_locked is asked before
\* the password is verified and record_failure comes after it.
THEOREM FailuresAlwaysLimited == PerimeterSpec => []FailuresLimited
<1>1. PerimeterInit => Failures
  <2> SUFFICES ASSUME Init, NEW k \in Key
               PROVE  KeyInv(tracker[k], recent[k], Cardinality(Pending(k)))
    BY DEF PerimeterInit, Failures
  <2>1. Pending(k) = {}
    BY NothingAsked DEF Init, Pending
  <2>2. Cardinality(Pending(k)) = 0
    BY <2>1, FS_EmptySet
  <2>3. tracker[k] = Forgotten /\ recent[k] = << >>
    BY DEF Init
  <2> QED
    BY <2>2, <2>3, NewKey, OthersCount
<1>2. AccessTypes /\ Failures /\ [PerimeterNext]_perimeterVars => Failures'
  BY BothSides, FailuresStay
<1>3. AccessTypes /\ Failures => FailuresLimited
  <2> SUFFICES ASSUME AccessTypes, Failures, NEW k \in Key
               PROVE  Len(recent[k]) <= MaxAttempts + 2 * Others
    BY DEF FailuresLimited, Others
  <2>1. PICK state, ages, pending :
           /\ state = tracker[k] /\ ages = recent[k] /\ pending = Cardinality(Pending(k))
    OBVIOUS
  <2>2. pending \in Nat
    <3>1. Pending(k) \subseteq Request
      BY DEF Pending
    <3> QED
      BY <2>1, <3>1, RequestAssumption, FS_Subset, FS_CardinalityType
  <2>3. KeyInv(state, ages, pending)
    BY <2>1 DEF Failures
  <2>4. state.failure_times \in Seq(0 .. Window + 1) /\ Len(state.failure_times) \in Nat /\ Len(ages) \in Nat
    BY <2>3 DEF KeyInv, KeyState, InView
  <2>5. CASE state.locked = NotLocked
    <3>1. ASSUME Len(ages) - Others >= 1 PROVE Len(ages) - Others <= Len(state.failure_times)
      <4>1. Len(ages) - Others \in 1 .. Len(ages) - Others
        BY <2>4, <3>1, OthersCount
      <4> QED
        BY <2>3, <2>5, <4>1 DEF KeyInv, Counted
    <3> QED
      BY <2>1, <2>3, <2>4, <3>1, OthersCount, TrackerAssumption DEF KeyInv
  <2>6. CASE state.locked # NotLocked
    BY <2>1, <2>2, <2>3, <2>4, <2>6, OthersCount, TrackerAssumption DEF KeyInv, LockedIn
  <2> QED
    BY <2>5, <2>6
<1> QED
  BY <1>1, <1>2, <1>3, RequestsAreFormed, PTL DEF PerimeterSpec

=============================================================================
