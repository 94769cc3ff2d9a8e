-------------------------------- MODULE Access --------------------------------
(***************************************************************************)
(* Accounts, the cookies their sessions live in, logging in and out, and   *)
(* the administrators who manage each other.                               *)
(*                                                                         *)
(*   app/api/routes/auth.py, app/api/routes/admin.py   the handlers        *)
(*   app/api/deps.py, app/core/session.py              sessions            *)
(*   app/crud/user.py                                  the table           *)
(*   app/services/rate_limiter.py                      LoginTracker        *)
(*                                                                         *)
(* A handler is a request with one step for each await.  The session is a  *)
(* cookie of the browser: a request works on the copy it came with, and    *)
(* its response brings that copy back, whatever the browser holds by then. *)
(***************************************************************************)
EXTENDS LoginTracker, FiniteSets

CONSTANTS
    User,        \* account ids: that of a deleted account is not used again
    FirstAdmin,  \* the account _init_db has created
    Name,        \* what accounts log in with; unique in the table
    NameOf,      \* NameOf[u]: the name account u registers with
    Address,     \* client addresses
    Agent,       \* browsers, with a cookie each
    Request,     \* requests in flight
    Mixes,       \* the kinds of requests one behaviour mixes
    IdleLimit,   \* SESSION_IDLE_TIMEOUT_HOURS, in clock ticks
    AbsLimit     \* SESSION_ABSOLUTE_TIMEOUT_HOURS, in clock ticks

ASSUME AccountAssumption == /\ FirstAdmin \in User
                            /\ NameOf \in [User -> Name]
ASSUME LimitAssumption   == IdleLimit \in Nat /\ AbsLimit \in Nat
ASSUME RequestAssumption == IsFiniteSet(Request) /\ Request # {}

VARIABLES
    users,     \* the table
    tracker,   \* login_tracker: a state for each key
    cookie,    \* cookie[a]: the session browser a would send
    request,   \* request[q]: a handler between two awaits
    mix,       \* the kinds of requests of this behaviour; never changes
    \* observers
    recent,    \* ages of the failures of a key that its last success or reset did not forget
    raced,     \* an administrator was changed while one of its own requests was under way
    signed_out \* a browser's last word on its session was a logout

observers  == << recent, raced, signed_out >>
accessVars == << users, tracker, cookie, request, mix, observers >>

Key  == Name \cup Address
Role == {"admin", "user"}

\* A row; name, password and timestamps are left out.
Row       == [existence : {"unused", "live", "deleted"}, role : Role, is_active : BOOLEAN]
UnusedRow == [existence |-> "unused", role |-> "user", is_active |-> FALSE]
NewRow(role) == [existence |-> "live", role |-> role, is_active |-> TRUE]

\* Ages since sess_created and sess_activity; no uid without a login.
NoSession    == [uid |-> "none", created |-> 0, activity |-> 0]
Session      == [uid : User \cup {"none"}, created : 0 .. AbsLimit + 1, activity : 0 .. IdleLimit + 1]
NewSession(u) == [uid |-> u, created |-> 0, activity |-> 0]

Ops      == {"page", "login", "logout", "register", "create", "toggle", "role", "delete", "unlock"}
AdminOps == {"create", "toggle", "role", "delete", "unlock"}
Steps    == {"idle", "verify", "check", "insert", "load", "commit", "respond"}

\* session: the request's copy; keys: login name and address; user: the account the
\* handler is about; loaded: its row as the handler read it; role: of the form.
RequestState == [step : Steps, op : Ops, agent : Agent \cup {"none"}, session : Session,
                 keys : SUBSET Key, user : User \cup {"none"}, loaded : Row, role : Role]

NoRequest == [step |-> "idle", op |-> "page", agent |-> "none", session |-> NoSession,
              keys |-> {}, user |-> "none", loaded |-> UnusedRow, role |-> "user"]

ActiveAdmin(u) == /\ users[u].existence = "live"
                  /\ users[u].role = "admin"
                  /\ users[u].is_active

Live(u)  == users[u].existence = "live"
Taken(n) == \E u \in User : Live(u) /\ NameOf[u] = n

TypeOK ==
    /\ users \in [User -> Row]
    /\ tracker \in [Key -> KeyState]
    /\ cookie \in [Agent -> Session]
    /\ request \in [Request -> RequestState]
    /\ mix \in Mixes
    /\ recent \in [Key -> Seq(Nat)]
    /\ raced \in BOOLEAN
    /\ signed_out \in [Agent -> {"no", "clean", "overtaken"}]

Seeded == [u \in User |-> IF u = FirstAdmin THEN NewRow("admin") ELSE UnusedRow]

\* The process has started on an empty database.
Init ==
    /\ users = Seeded
    /\ tracker = [k \in Key |-> Forgotten]
    /\ cookie = [a \in Agent |-> NoSession]
    /\ request = [q \in Request |-> NoRequest]
    /\ mix \in Mixes
    /\ recent = [k \in Key |-> << >>]
    /\ raced = FALSE
    /\ signed_out = [a \in Agent |-> "no"]

-----------------------------------------------------------------------------
(* Sessions. *)

Goto(q, r)  == request' = [request EXCEPT ![q] = r]
At(q, step) == request[q].step = step
Idle(q, op) == At(q, "idle") /\ op \in mix
OnlyRequest == UNCHANGED << users, tracker, cookie, mix, observers >>

Expired(s) == s.created > AbsLimit \/ s.activity > IdleLimit

\* Mutant: looking at a page counts as logging in.
TouchedAnew(s) == [s EXCEPT !.created = 0, !.activity = 0]

Touched(s) == [s EXCEPT !.activity = 0]

\* get_current_user finds somebody.
SignedIn(s) ==
    /\ s.uid # "none"
    /\ ~Expired(s)
    /\ Live(s.uid) /\ users[s.uid].is_active

\* The session a request goes on with after get_current_user.
Resolved(s) ==
    IF s.uid = "none" THEN s
    ELSE IF Expired(s) THEN NoSession
    ELSE IF SignedIn(s) THEN Touched(s)
    ELSE s

Arrived(a, op) == [NoRequest EXCEPT !.op = op, !.agent = a, !.session = Resolved(cookie[a])]

\* require_login, require_admin
Admitted(a, op) == /\ SignedIn(cookie[a])
                   /\ op \in AdminOps => users[cookie[a].uid].role = "admin"

\* A request for which there is nothing more to do than to answer.
Turned(q, a, op) ==
    /\ Idle(q, op)
    /\ op \notin {"login", "register"}
    /\ ~Admitted(a, op)
    /\ Goto(q, [Arrived(a, "page") EXCEPT !.step = "respond"])
    /\ OnlyRequest

ViewPage(q, a) ==
    /\ Idle(q, "page")
    /\ Admitted(a, "page")
    /\ Goto(q, [Arrived(a, "page") EXCEPT !.step = "respond"])
    /\ OnlyRequest

\* Mutant: the session survives.
LogoutKeeps(q, a) ==
    /\ Idle(q, "logout")
    /\ Admitted(a, "logout")
    /\ Goto(q, [Arrived(a, "logout") EXCEPT !.step = "respond"])
    /\ OnlyRequest

Logout(q, a) ==
    /\ Idle(q, "logout")
    /\ Admitted(a, "logout")
    /\ Goto(q, [Arrived(a, "logout") EXCEPT !.step = "respond", !.session = NoSession])
    /\ OnlyRequest

\* Somebody else's request carries a session of browser a.
CarriesSession(q, a) == ~At(q, "idle") /\ request[q].agent = a /\ request[q].session.uid # "none"

\* The response sets the cookie.
Respond(q) ==
    LET r == request[q]
        others == {p \in Request \ {q} : CarriesSession(p, r.agent)}
    IN  /\ At(q, "respond")
        /\ cookie' = [cookie EXCEPT ![r.agent] = r.session]
        /\ Goto(q, NoRequest)
        /\ signed_out' =
               [signed_out EXCEPT ![r.agent] =
                    IF r.op = "logout" THEN (IF others = {} THEN "clean" ELSE "overtaken")
                    ELSE IF r.op \in {"login", "register"} /\ r.session.uid # "none" THEN "no"
                    ELSE @]
        /\ UNCHANGED << users, tracker, mix, recent, raced >>

-----------------------------------------------------------------------------
(* Logging in and registering. *)

Answer(q, session) == Goto(q, [NoRequest EXCEPT !.step = "respond", !.op = request[q].op,
                                                !.agent = request[q].agent,
                                                !.session = session])

\* The check for lockouts, before the password is looked at.
StartLogin(q, a, keys) ==
    /\ Idle(q, "login")
    /\ tracker' = [k \in Key |-> IF k \in keys THEN Checked(tracker[k]) ELSE tracker[k]]
    /\ IF \E k \in keys : IsLocked(tracker[k])
       THEN Goto(q, [NoRequest EXCEPT !.step = "respond", !.op = "login", !.agent = a,
                                      !.session = cookie[a]])
       ELSE Goto(q, [NoRequest EXCEPT !.step = "verify", !.op = "login", !.agent = a,
                                      !.session = cookie[a], !.keys = keys])
    /\ UNCHANGED << users, cookie, mix, observers >>

Accounts(keys) == {u \in User : Live(u) /\ NameOf[u] \in keys}

\* A wrong password, or nobody of that name: recorded for both keys.
LoginFails(q) ==
    LET keys == request[q].keys
    IN  /\ At(q, "verify")
        /\ "guess" \in mix \/ Accounts(keys) = {}
        /\ tracker' = [k \in Key |-> IF k \in keys THEN AfterFailure(tracker[k]) ELSE tracker[k]]
        /\ recent' = [k \in Key |-> IF k \in keys THEN Append(recent[k], 0) ELSE recent[k]]
        /\ Answer(q, request[q].session)
        /\ UNCHANGED << users, cookie, mix, raced, signed_out >>

\* The right password of a disabled account is neither a failure nor a success.
LoginDisabled(q) ==
    /\ At(q, "verify")
    /\ \E u \in Accounts(request[q].keys) : ~users[u].is_active
    /\ Answer(q, request[q].session)
    /\ OnlyRequest

LoginSucceeds(q) ==
    LET keys == request[q].keys
    IN  /\ At(q, "verify")
        /\ tracker' = [k \in Key |-> IF k \in keys THEN AfterSuccess(tracker[k]) ELSE tracker[k]]
        /\ recent' = [k \in Key |-> IF k \in keys THEN << >> ELSE recent[k]]
        /\ \E u \in Accounts(keys) : users[u].is_active /\ Answer(q, NewSession(u))
        /\ UNCHANGED << users, cookie, mix, raced, signed_out >>

\* register and create_user: get_by_email, get_by_username.
StartRegister(q, a, u) ==
    /\ Idle(q, "register")
    /\ users[u].existence = "unused"
    /\ Goto(q, [NoRequest EXCEPT !.step = IF Taken(NameOf[u]) THEN "respond" ELSE "insert",
                                  !.op = "register", !.agent = a, !.session = cookie[a],
                                  !.user = u])
    /\ OnlyRequest

StartCreate(q, a, u, role) ==
    /\ Idle(q, "create")
    /\ Admitted(a, "create")
    /\ users[u].existence = "unused"
    /\ Goto(q, [Arrived(a, "create") EXCEPT !.step = "check", !.user = u, !.role = role])
    /\ OnlyRequest

CheckName(q) ==
    /\ At(q, "check")
    /\ Goto(q, [request[q] EXCEPT !.step =
                   IF Taken(NameOf[request[q].user]) THEN "respond" ELSE "insert"])
    /\ OnlyRequest

\* The id is generated here; a registration logs its account in.
InsertUser(q) ==
    LET u == request[q].user
    IN  /\ At(q, "insert")
        /\ users[u].existence = "unused"
        /\ ~Taken(NameOf[u])
        /\ users' = [users EXCEPT ![u] = NewRow(request[q].role)]
        /\ Answer(q, IF request[q].op = "register" THEN NewSession(u) ELSE request[q].session)
        /\ UNCHANGED << tracker, cookie, mix, observers >>

\* The unique key refuses the row, and the handler fails without an answer.
InsertRefused(q) ==
    LET u == request[q].user
    IN  /\ At(q, "insert")
        /\ users[u].existence # "unused" \/ Taken(NameOf[u])
        /\ Goto(q, NoRequest)
        /\ OnlyRequest

-----------------------------------------------------------------------------
(* Administrators. *)

\* require_admin has read the administrator's row.
StartChange(q, a, op, u, role) ==
    /\ op \in {"toggle", "role", "delete"}
    /\ op # "role" => role = "user"
    /\ Idle(q, op)
    /\ Admitted(a, op)
    /\ users[u].existence # "unused"
    /\ Goto(q, [Arrived(a, op) EXCEPT !.step = "load", !.user = u, !.role = role])
    /\ OnlyRequest

\* Mutant: the guard against demoting oneself is gone.
OwnAccountDeletes(r) == r.user = r.session.uid /\ r.op # "role"

\* The handlers refuse to touch the administrator's own account; giving oneself
\* the role one has changes nothing.
OwnAccount(r) == r.user = r.session.uid

LoadTarget(q) ==
    LET r == request[q]
    IN  /\ At(q, "load")
        /\ IF ~Live(r.user) \/ OwnAccount(r)
           THEN Answer(q, r.session)
           ELSE Goto(q, [r EXCEPT !.step = "commit", !.loaded = users[r.user]])
        /\ OnlyRequest

\* The row as the handler wants it; columns equal to those loaded are not sent.
Changed(row, r) ==
    CASE r.op = "toggle" -> [row EXCEPT !.is_active = ~r.loaded.is_active]
      [] r.op = "role"   -> [row EXCEPT !.role = IF r.role = r.loaded.role THEN @ ELSE r.role]
      [] r.op = "delete" -> [UnusedRow EXCEPT !.existence = "deleted"]

\* Account u has a request of its own past the check that it is an administrator.
UnderWay(q, u) == \E p \in Request \ {q} : /\ request[p].op \in AdminOps
                                          /\ request[p].step \in {"load", "commit"}
                                          /\ request[p].session.uid = u

CommitChange(q) ==
    LET r == request[q]
    IN  /\ At(q, "commit")
        /\ Live(r.user)
        /\ users' = [users EXCEPT ![r.user] = Changed(@, r)]
        /\ raced' = (raced \/ UnderWay(q, r.user))
        /\ Answer(q, r.session)
        /\ UNCHANGED << tracker, cookie, mix, recent, signed_out >>

\* The row is gone: an UPDATE, or the refresh after none, raises; a DELETE does not.
CommitGone(q) ==
    /\ At(q, "commit")
    /\ ~Live(request[q].user)
    /\ IF request[q].op = "delete" THEN Answer(q, request[q].session) ELSE Goto(q, NoRequest)
    /\ OnlyRequest

\* unlock_identifier: nothing is awaited between the admission and reset.
Unlock(q, a, k) ==
    /\ Idle(q, "unlock")
    /\ Admitted(a, "unlock")
    /\ tracker' = [tracker EXCEPT ![k] = Forgotten]
    /\ recent' = [recent EXCEPT ![k] = << >>]
    /\ Goto(q, [Arrived(a, "unlock") EXCEPT !.step = "respond"])
    /\ UNCHANGED << users, cookie, mix, raced, signed_out >>

-----------------------------------------------------------------------------
(* Time and restarts. *)

Aged(s) == IF s.uid = "none" THEN s
           ELSE [s EXCEPT !.created  = IF @ > AbsLimit THEN @ ELSE @ + 1,
                          !.activity = IF @ > IdleLimit THEN @ ELSE @ + 1]

\* A failure stays in view for as long as it can count for a lockout.
Horizon == IF Window < Lockout THEN Window ELSE Lockout

ClockTick ==
    /\ "time" \in mix
    /\ tracker' = [k \in Key |-> Older(tracker[k])]
    /\ cookie' = [a \in Agent |-> Aged(cookie[a])]
    /\ request' = [q \in Request |-> [request[q] EXCEPT !.session = Aged(@)]]
    /\ recent' = [k \in Key |-> Latest([i \in DOMAIN recent[k] |-> recent[k][i] + 1], Horizon - 1)]
    /\ UNCHANGED << users, mix, raced, signed_out >>

\* What a new process does not have: the tracker, the requests.
Forget == /\ tracker' = [k \in Key |-> Forgotten]
          /\ request' = [q \in Request |-> NoRequest]
          /\ recent' = [k \in Key |-> << >>]
          /\ UNCHANGED << cookie, mix, raced, signed_out >>

\* _init_db creates the first administrator, but only in an empty table.
Restart ==
    /\ \E u \in User : Live(u)
    /\ Forget
    /\ UNCHANGED users

RestartEmpty(u) ==
    /\ ~\E v \in User : Live(v)
    /\ users[u].existence = "unused"
    /\ users' = [users EXCEPT ![u] = NewRow("admin")]
    /\ Forget

Handle(q) ==
    \/ \E a \in Agent :
          \/ \E op \in Ops : Turned(q, a, op)
          \/ ViewPage(q, a) \/ Logout(q, a)
          \/ \E n \in Name, addr \in Address : StartLogin(q, a, {n, addr})
          \/ \E u \in User : StartRegister(q, a, u)
          \/ \E u \in User, role \in Role : StartCreate(q, a, u, role)
          \/ \E u \in User, role \in Role, op \in AdminOps : StartChange(q, a, op, u, role)
          \/ \E k \in Key : Unlock(q, a, k)
    \/ LoginFails(q) \/ LoginDisabled(q) \/ LoginSucceeds(q)
    \/ CheckName(q) \/ InsertUser(q) \/ InsertRefused(q)
    \/ LoadTarget(q) \/ CommitChange(q) \/ CommitGone(q)
    \/ Respond(q)

\* The answer to a login that succeeded, or to a registration, reaches browser a.
LogsIn(a) == \E q \in Request : /\ request[q].agent = a
                                /\ request[q].session.uid # "none"
                                /\ request[q].op \in {"login", "register"}
                                /\ Respond(q)

Next == (\E q \in Request : Handle(q)) \/ ClockTick \/ Restart \/ (\E u \in User : RestartEmpty(u))

Spec == Init /\ [][Next]_accessVars

-----------------------------------------------------------------------------
(* Properties. *)

\* An active administrator is left, unless one was changed in the middle of a
\* request of its own: the handlers protect the administrator who acts, and rely
\* on that account being what it was when the request came.
AdminRemains == raced \/ \E u \in User : ActiveAdmin(u)

\* Guessing is limited although the check comes before the password is verified
\* and the failure is recorded after it: in any interval shorter than window and
\* lockout a key sees one failure for each attempt it is allowed, and two more
\* for each other request, one let in before a lockout that has just ended and
\* one before the next.
FailuresLimited ==
    \A k \in Key : Len(recent[k]) <= MaxAttempts + 2 * (Cardinality(Request) - 1)

\* No lockout lasts for ever, whatever is tried meanwhile.
LockoutEnds == \A k \in Key : "time" \in mix => []<>~IsLocked(tracker[k])

\* Where nobody logs in any more, the last session ends, however busy the browser
\* and however many requests overlap: only the idle time starts anew.
SessionsEnd ==
    \A a \in Agent :
        "time" \in mix => \/ []<><<LogsIn(a)>>_accessVars
                         \/ <>[](~SignedIn(cookie[a]))

\* After a logout the browser holds no session until the next login, unless an
\* answer to an earlier request was still on its way and brings it back.
LogoutSticks ==
    \A a \in Agent : signed_out[a] = "clean" => cookie[a].uid = "none"

=============================================================================
