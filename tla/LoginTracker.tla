----------------------------- MODULE LoginTracker -----------------------------
(***************************************************************************)
(* What the login attempt tracker knows of one key, an address or a login  *)
(* name, and what each call does to it.                                    *)
(*                                                                         *)
(*   app/services/rate_limiter.py   LoginAttemptTracker, _KeyState         *)
(*                                                                         *)
(* Times are kept as ages: how long ago a failure was, how long a lockout  *)
(* still lasts.                                                            *)
(***************************************************************************)
EXTENDS Sequences, Integers

CONSTANTS
    MaxAttempts,   \* LOGIN_MAX_ATTEMPTS
    Window,        \* LOGIN_WINDOW_MINUTES, in clock ticks
    Lockout        \* LOGIN_LOCKOUT_MINUTES, in clock ticks

ASSUME TrackerAssumption == /\ MaxAttempts \in Nat \ {0}
                            /\ Window \in Nat
                            /\ Lockout \in Nat \ {0}

\* locked_until is None; 0 is a lockout that is over and not cleaned up yet.
NotLocked == -1

KeyState == [failure_times : Seq(0 .. Window + 1), locked : NotLocked .. Lockout]

Forgotten == [failure_times |-> << >>, locked |-> NotLocked]

IsLocked(state) == state.locked > 0

\* Mutant: an attempt during a lockout renews it.
CheckedRenews(state) ==
    CASE state.locked > 0 -> [state EXCEPT !.locked = Lockout]
      [] state.locked = 0 -> Forgotten
      [] OTHER            -> state

\* is_locked also cleans up a lockout that is over.
Checked(state) == IF state.locked = 0 THEN Forgotten ELSE state

\* The oldest come first: how many go, one by one, while they are older than limit.
Stale(times, limit) ==
    CHOOSE n \in 0 .. Len(times) : /\ \A i \in 1 .. n : times[i] > limit
                                   /\ n < Len(times) => times[n + 1] <= limit

Latest(times, limit) == SubSeq(times, Stale(times, limit) + 1, Len(times))

Pruned(state) == Latest(state.failure_times, Window)

\* Mutant: one failure too many before the lockout.
AfterFailureLate(state) ==
    LET times == Append(Pruned(state), 0)
    IN  IF Len(times) > MaxAttempts
        THEN [failure_times |-> << >>, locked |-> Lockout]
        ELSE [state EXCEPT !.failure_times = times]

\* record_failure
AfterFailure(state) ==
    LET times == Append(Pruned(state), 0)
    IN  IF Len(times) >= MaxAttempts
        THEN [failure_times |-> << >>, locked |-> Lockout]
        ELSE [state EXCEPT !.failure_times = times]

\* record_success keeps the entry, reset drops it: the same from then on.
AfterSuccess(state) == Forgotten

\* A clock tick, as datetime.now() shows it.
Older(state) ==
    [failure_times |-> [i \in DOMAIN state.failure_times |->
                            IF state.failure_times[i] > Window THEN state.failure_times[i]
                            ELSE state.failure_times[i] + 1],
     locked        |-> IF state.locked > 0 THEN state.locked - 1 ELSE state.locked]

=============================================================================
