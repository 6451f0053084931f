--------------------------- MODULE LoginRateLimit ---------------------------
(***************************************************************************)
(* The login throttle of backend/app/routers/auth.py.  login() awaits      *)
(* nothing between the check and the record, so a request is one step.     *)
(* A username's list of failure times is a set of numbered attempts.       *)
(***************************************************************************)
EXTENDS Integers, FiniteSets

CONSTANTS
  Users,            \* usernames that are tried
  Admins,           \* the usernames for which the request may be right
  FailureWindow,    \* _LOGIN_FAILURE_WINDOW
  MaxFailures,      \* _LOGIN_MAX_FAILURES
  LockoutDuration,  \* _LOGIN_LOCKOUT_DURATION
  MaxTime,          \* bound of the clock
  MaxAttempts       \* bound on the attempts that are evaluated

ASSUME ThrottleAssumption ==
  /\ FailureWindow \in Nat /\ MaxFailures \in Nat \ {0}
  /\ LockoutDuration \in Nat /\ LockoutDuration > FailureWindow
  /\ MaxTime \in Nat /\ MaxAttempts \in Nat /\ Admins \subseteq Users

VARIABLES
  now,       \* time.monotonic, in seconds since the start of the process
  attempts,  \* how many attempts have had their password compared
  failures,  \* _failed_attempts
  unlockAt,  \* _lockout_until, NoLockout for a user without an entry
  guesses,   \* history: wrong passwords since the user's last right one
  lockouts   \* history: the lockouts triggered

vars == <<now, attempts, failures, unlockAt, guesses, lockouts>>

Attempt == [id : Nat, at : Nat]
Lockout == [user : Users, id : Nat, at : Nat, failures : SUBSET Attempt]

TypeOK ==
  /\ now \in 0..MaxTime /\ attempts \in 0..MaxAttempts
  /\ failures \in [Users -> SUBSET Attempt]
  /\ unlockAt \in [Users -> Nat]
  /\ guesses \in [Users -> SUBSET Attempt]
  /\ lockouts \subseteq Lockout

-----------------------------------------------------------------------------
Recent(u) == {f \in failures[u] : f.at >= now - FailureWindow}
Locked(u) == now < unlockAt[u]

\* Mutant: a lockout no longer than the window.
LockoutEnd_Window == now + FailureWindow

LockoutEnd == now + LockoutDuration

\* What a user without an entry in _lockout_until has.
NoLockout == 0

Init ==
  /\ now = 0 /\ attempts = 0
  /\ failures = [u \in Users |-> {}]
  /\ unlockAt = [u \in Users |-> NoLockout]
  /\ guesses = [u \in Users |-> {}]
  /\ lockouts = {}

Tick ==
  /\ now < MaxTime
  /\ now' = now + 1
  /\ UNCHANGED <<attempts, failures, unlockAt, guesses, lockouts>>

\* A request for a locked user is refused, whatever its password.
Refuse(u) == Locked(u) /\ UNCHANGED vars

\* _check_rate_limit finds the window full: the lockout starts.
LockOut(u) ==
  /\ ~ Locked(u)
  /\ Cardinality(Recent(u)) >= MaxFailures
  /\ unlockAt' = [unlockAt EXCEPT ![u] = LockoutEnd]
  /\ failures' = [failures EXCEPT ![u] = {}]
  /\ lockouts' = lockouts \cup {[user |-> u, id |-> attempts, at |-> now, failures |-> Recent(u)]}
  /\ UNCHANGED <<now, attempts, guesses>>

Admitted(u) ==
  /\ ~ Locked(u)
  /\ Cardinality(Recent(u)) < MaxFailures
  /\ attempts < MaxAttempts
  /\ attempts' = attempts + 1

\* _record_failure
Fail(u) ==
  /\ Admitted(u)
  /\ LET this == [id |-> attempts, at |-> now]
     IN  /\ failures' = [failures EXCEPT ![u] = Recent(u) \cup {this}]
         /\ guesses' = [guesses EXCEPT ![u] = @ \cup {this}]
  /\ UNCHANGED <<now, unlockAt, lockouts>>

\* _clear_rate_limit
Succeed(u) ==
  /\ u \in Admins /\ Admitted(u)
  /\ failures' = [failures EXCEPT ![u] = {}]
  /\ unlockAt' = [unlockAt EXCEPT ![u] = NoLockout]
  /\ guesses' = [guesses EXCEPT ![u] = {}]
  /\ UNCHANGED <<now, lockouts>>

Next == Tick \/ \E u \in Users : Refuse(u) \/ LockOut(u) \/ Fail(u) \/ Succeed(u)

Spec == Init /\ [][Next]_vars

-----------------------------------------------------------------------------
(* Properties *)

\* However requests, lockouts and waiting alternate, no FailureWindow seconds
\* see more than MaxFailures wrong passwords for a user compared, a right one
\* apart (auth.py 27-33): forgetting the failures at a lockout is safe because
\* the lockout outlasts the window.
GuessesBounded ==
  \A u \in Users : \A last \in guesses[u] :
    Cardinality({g \in guesses[u] : g.at \in (last.at - FailureWindow)..last.at}) <= MaxFailures

\* Nobody's password is compared during a lockout, and only the user's own
\* failures start one.
LockoutsHold ==
  \A l \in lockouts :
    /\ Cardinality(l.failures) >= MaxFailures
    /\ \A g \in guesses[l.user] : g.id >= l.id => g.at >= l.at + LockoutDuration
=============================================================================
