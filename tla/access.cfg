\* Two requests of one browser: guesses and lockouts, sessions and logouts, registration
\* and deletion, administrators who change each other;
\* and the whitelist with two reloads.
SPECIFICATION PerimeterSpec
CONSTANTS
    MaxAttempts = 2
    Window = 2
    Lockout = 2
    User = {"u1", "u2", "u3"}
    FirstAdmin = "u1"
    Name = {"ann", "bob"}
    NameOf <- MCNameOf
    Address = {"home"}
    Agent = {"a1"}
    Request = {q1, q2}
    Mixes <- MCMixes
    Host = {"home", "away"}
    Lists <- MCLists
    Visitor = {v1, v2}
    TTL = 3
    MaxRead = 1
    IdleLimit = 1
    AbsLimit = 2
INVARIANTS AdminRemains FailuresLimited LogoutSticks RecentListDecides
PROPERTIES LockoutEnds SessionsEnd
