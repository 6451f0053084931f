------------------------ MODULE LoginRateLimitProofs ------------------------
(***************************************************************************)
(* Proofs about LoginRateLimit, for every window, allowance and lockout    *)
(* that outlasts the window.                                               *)
(***************************************************************************)
EXTENDS LoginRateLimit, FiniteSetTheorems, TLAPS

\* Recorded failures are guesses, and nothing carries a time or a number of
\* the future.
Past ==
  \A u \in Users :
    /\ IsFiniteSet(guesses[u])
    /\ failures[u] \subseteq guesses[u]
    /\ \A g \in guesses[u] : g.at <= now /\ g.id < attempts

\* A guess that is no longer recorded has left the window, or a lockout that
\* started after it is the reason.
Forgotten ==
  \A u \in Users : \A g \in guesses[u] \ failures[u] :
    g.at < now - FailureWindow \/ g.at + LockoutDuration <= unlockAt[u]

\* A lockout is still on, or its time is over.
Pending ==
  \A l \in lockouts :
    /\ l.id <= attempts /\ l.at <= now
    /\ now >= l.at + LockoutDuration \/ unlockAt[l.user] >= l.at + LockoutDuration

ThrottleInv ==
  TypeOK /\ Past /\ Forgotten /\ Pending /\ GuessesBounded /\ LockoutsHold

InWindow(u, t) == {g \in guesses[u] : g.at \in (t - FailureWindow)..t}

-----------------------------------------------------------------------------
LEMMA TypeOKStep == TypeOK /\ [Next]_vars => TypeOK'
<1> SUFFICES ASSUME TypeOK, [Next]_vars
             PROVE  TypeOK'
  OBVIOUS
<1> USE ThrottleAssumption DEF TypeOK
<1>1. CASE Tick
  BY <1>1 DEF Tick
<1>2. ASSUME NEW u \in Users, LockOut(u)
      PROVE  TypeOK'
  <2>1. [user |-> u, id |-> attempts, at |-> now, failures |-> Recent(u)] \in Lockout
    BY DEF Lockout, Recent
  <2>2. QED
    BY <1>2, <2>1 DEF LockOut, LockoutEnd
<1>3. ASSUME NEW u \in Users, Fail(u)
      PROVE  TypeOK'
  <2>1. [id |-> attempts, at |-> now] \in Attempt
    BY DEF Attempt
  <2>2. QED
    BY <1>3, <2>1 DEF Fail, Admitted, Recent
<1>4. ASSUME NEW u \in Users, Succeed(u)
      PROVE  TypeOK'
  BY <1>4 DEF Succeed, Admitted, NoLockout
<1>5. CASE UNCHANGED vars
  BY <1>5 DEF vars
<1>6. QED
  BY <1>1, <1>2, <1>3, <1>4, <1>5 DEF Next, Refuse

\* Before a password is compared, every guess of the last FailureWindow
\* seconds is still recorded.
LEMMA WindowIsRecorded ==
  ASSUME ThrottleInv, NEW u \in Users, ~ Locked(u)
  PROVE  InWindow(u, now) \subseteq Recent(u)
<1> SUFFICES ASSUME NEW g \in guesses[u], g.at \in (now - FailureWindow)..now
             PROVE  g \in Recent(u)
  BY DEF InWindow
<1>1. /\ now \in Int /\ unlockAt[u] \in Int /\ g.at \in Int
      /\ FailureWindow \in Int /\ LockoutDuration \in Int /\ LockoutDuration > FailureWindow
  BY ThrottleAssumption DEF ThrottleInv, TypeOK, Attempt
<1>2. unlockAt[u] <= now
  BY <1>1 DEF Locked
<1>3. g \in failures[u]
  BY <1>1, <1>2 DEF ThrottleInv, Forgotten
<1>4. QED
  BY <1>1, <1>3 DEF Recent

\* One more guess keeps every window within the allowance.
LEMMA FailKeepsBound ==
  ASSUME ThrottleInv, NEW u \in Users, Fail(u)
  PROVE  GuessesBounded'
<1> DEFINE this == [id |-> attempts, at |-> now]
<1>1. /\ ~ Locked(u)
      /\ Cardinality(Recent(u)) < MaxFailures
      /\ guesses' = [guesses EXCEPT ![u] = @ \cup {this}]
  BY DEF Fail, Admitted
<1>2. /\ IsFiniteSet(guesses[u])
      /\ failures[u] \subseteq guesses[u]
      /\ guesses \in [Users -> SUBSET Attempt]
      /\ now \in Int /\ FailureWindow \in Nat /\ MaxFailures \in Nat
  BY ThrottleAssumption DEF ThrottleInv, Past, TypeOK
<1>3. IsFiniteSet(Recent(u)) /\ Cardinality(Recent(u)) \in Nat
  BY <1>2, FS_Subset, FS_CardinalityType DEF Recent
<1>4. /\ IsFiniteSet(Recent(u) \cup {this})
      /\ Cardinality(Recent(u) \cup {this}) <= MaxFailures
      /\ Cardinality(Recent(u) \cup {this}) \in Nat
  <2>1. /\ IsFiniteSet(Recent(u) \cup {this})
        /\ Cardinality(Recent(u) \cup {this}) \in {Cardinality(Recent(u)), Cardinality(Recent(u)) + 1}
    <3> HIDE DEF this
    <3>1. QED
      BY <1>3, FS_AddElement
  <2>2. QED
    BY <1>1, <1>2, <1>3, <2>1
<1> SUFFICES ASSUME NEW v \in Users, NEW last \in guesses'[v]
             PROVE  Cardinality({g \in guesses'[v] : g.at \in (last.at - FailureWindow)..last.at})
                      <= MaxFailures
  BY DEF GuessesBounded
<1>5. CASE v = u /\ last.at = now
  <2> DEFINE window == {g \in guesses'[v] : g.at \in (last.at - FailureWindow)..last.at}
  <2>1. window \subseteq InWindow(u, now) \cup {this}
    BY <1>1, <1>2, <1>5 DEF InWindow
  <2>2. window \subseteq Recent(u) \cup {this}
    BY <1>1, <2>1, WindowIsRecorded
  <2> HIDE DEF window
  <2>3. /\ Cardinality(window) <= Cardinality(Recent(u) \cup {this})
        /\ Cardinality(window) \in Nat
    BY <1>4, <2>2, FS_Subset, FS_CardinalityType
  <2>4. Cardinality(window) <= MaxFailures
    BY <1>2, <1>4, <2>3
  <2>5. QED
    BY <2>4 DEF window
<1>6. CASE ~ (v = u /\ last.at = now)
  <2>1. last \in guesses[v]
    BY <1>1, <1>2, <1>6
  <2>2. last.at <= now /\ last.at \in Int
    BY <2>1, <1>2 DEF ThrottleInv, Past, Attempt
  <2>3. {g \in guesses'[v] : g.at \in (last.at - FailureWindow)..last.at}
          = {g \in guesses[v] : g.at \in (last.at - FailureWindow)..last.at}
    BY <1>1, <1>2, <1>6, <2>2
  <2>4. QED
    BY <2>1, <2>3 DEF ThrottleInv, GuessesBounded
<1>7. QED
  BY <1>5, <1>6

-----------------------------------------------------------------------------
LEMMA ThrottleInvStep == ThrottleInv /\ [Next]_vars => ThrottleInv'
<1> SUFFICES ASSUME ThrottleInv, [Next]_vars
             PROVE  ThrottleInv'
  OBVIOUS
<1>0. TypeOK /\ TypeOK'
  BY TypeOKStep DEF ThrottleInv
<1> USE ThrottleAssumption
<1>1. CASE Tick
  <2>1. now' = now + 1 /\ UNCHANGED <<attempts, failures, unlockAt, guesses, lockouts>>
    BY <1>1 DEF Tick
  <2>2. Past' /\ Forgotten' /\ Pending'
    BY <1>0, <2>1 DEF ThrottleInv, Past, Forgotten, Pending, TypeOK, Attempt, Lockout
  <2>3. GuessesBounded' /\ LockoutsHold'
    BY <2>1 DEF ThrottleInv, GuessesBounded, LockoutsHold
  <2>4. QED
    BY <1>0, <2>2, <2>3 DEF ThrottleInv
<1>2. ASSUME NEW u \in Users, LockOut(u)
      PROVE  ThrottleInv'
  <2> DEFINE lockout == [user |-> u, id |-> attempts, at |-> now, failures |-> Recent(u)]
  <2>1. /\ Cardinality(Recent(u)) >= MaxFailures
        /\ unlockAt' = [unlockAt EXCEPT ![u] = now + LockoutDuration]
        /\ failures' = [failures EXCEPT ![u] = {}]
        /\ lockouts' = lockouts \cup {lockout}
        /\ UNCHANGED <<now, attempts, guesses>>
    BY <1>2 DEF LockOut, LockoutEnd
  <2>2. Past'
    BY <1>0, <2>1 DEF ThrottleInv, Past, TypeOK
  <2>3. Forgotten'
    <3> SUFFICES ASSUME NEW v \in Users, NEW g \in guesses[v], g \notin failures'[v]
                 PROVE  g.at < now - FailureWindow \/ g.at + LockoutDuration <= unlockAt'[v]
      BY <2>1 DEF Forgotten
    <3>1. CASE v = u
      BY <1>0, <2>1, <3>1 DEF ThrottleInv, Past, TypeOK, Attempt
    <3>2. CASE v # u
      BY <1>0, <2>1, <3>2 DEF ThrottleInv, Forgotten, TypeOK
    <3>3. QED
      BY <3>1, <3>2
  <2>4. Pending'
    <3>1. \A l \in lockouts : unlockAt'[l.user] >= l.at + LockoutDuration \/ now >= l.at + LockoutDuration
      <4> SUFFICES ASSUME NEW l \in lockouts
                   PROVE  unlockAt'[l.user] >= l.at + LockoutDuration \/ now >= l.at + LockoutDuration
        OBVIOUS
      <4>1. l \in Lockout /\ l.at <= now
        BY <1>0 DEF ThrottleInv, Pending, TypeOK
      <4>2. CASE l.user = u
        BY <1>0, <2>1, <4>1, <4>2 DEF TypeOK, Lockout
      <4>3. CASE l.user # u
        BY <1>0, <2>1, <4>1, <4>3 DEF ThrottleInv, Pending, TypeOK, Lockout
      <4>4. QED
        BY <4>2, <4>3
    <3>2. unlockAt'[u] = now + LockoutDuration
      BY <1>0, <2>1 DEF TypeOK
    <3>3. now \in Int /\ attempts \in Int
      BY <1>0 DEF TypeOK
    <3>4. QED
      BY <2>1, <3>1, <3>2, <3>3 DEF ThrottleInv, Pending
  <2>5. GuessesBounded'
    BY <2>1 DEF ThrottleInv, GuessesBounded
  <2>6. LockoutsHold'
    <3>1. \A g \in guesses[u] : g.id < attempts /\ g.id \in Int
      BY <1>0 DEF ThrottleInv, Past, TypeOK, Attempt
    <3>2. attempts \in Int
      BY <1>0 DEF TypeOK
    <3>3. QED
      BY <2>1, <3>1, <3>2 DEF ThrottleInv, LockoutsHold
  <2>7. QED
    BY <1>0, <2>2, <2>3, <2>4, <2>5, <2>6 DEF ThrottleInv
<1>3. ASSUME NEW u \in Users, Fail(u)
      PROVE  ThrottleInv'
  <2> DEFINE this == [id |-> attempts, at |-> now]
  <2>1. /\ ~ Locked(u)
        /\ attempts' = attempts + 1
        /\ failures' = [failures EXCEPT ![u] = Recent(u) \cup {this}]
        /\ guesses' = [guesses EXCEPT ![u] = @ \cup {this}]
        /\ UNCHANGED <<now, unlockAt, lockouts>>
    BY <1>3 DEF Fail, Admitted
  <2>2. /\ now \in Int /\ attempts \in Int
        /\ failures \in [Users -> SUBSET Attempt]
        /\ guesses \in [Users -> SUBSET Attempt]
        /\ unlockAt \in [Users -> Nat]
        /\ lockouts \subseteq Lockout
    BY <1>0 DEF TypeOK
  <2>3. Past'
    <3> SUFFICES ASSUME NEW v \in Users
                 PROVE  /\ IsFiniteSet(guesses'[v])
                        /\ failures'[v] \subseteq guesses'[v]
                        /\ \A g \in guesses'[v] : g.at <= now /\ g.id < attempts + 1
      BY <2>1 DEF Past
    <3>1. IsFiniteSet(guesses[v]) /\ IsFiniteSet(guesses[v] \cup {this})
      BY FS_AddElement DEF ThrottleInv, Past
    <3>2. /\ failures[v] \subseteq guesses[v]
          /\ \A g \in guesses[v] : g.at <= now /\ g.id < attempts /\ g.id \in Int
      BY <2>2 DEF ThrottleInv, Past, Attempt
    <3>3. guesses'[v] = IF v = u THEN guesses[v] \cup {this} ELSE guesses[v]
      BY <2>1, <2>2
    <3>4. failures'[v] \subseteq IF v = u THEN failures[v] \cup {this} ELSE failures[v]
      BY <2>1, <2>2 DEF Recent
    <3>5. \A g \in guesses'[v] : g.at <= now /\ g.id < attempts + 1
      BY <2>2, <3>2, <3>3
    <3>6. QED
      BY <3>1, <3>2, <3>3, <3>4, <3>5
  <2>4. Forgotten'
    <3> SUFFICES ASSUME NEW v \in Users, NEW g \in guesses'[v], g \notin failures'[v]
                 PROVE  g.at < now - FailureWindow \/ g.at + LockoutDuration <= unlockAt[v]
      BY <2>1 DEF Forgotten
    <3>1. g \in guesses[v] /\ g.at \in Int
      BY <2>1, <2>2 DEF Attempt
    <3>2. CASE g \in failures[v]
      BY <2>1, <2>2, <3>1, <3>2 DEF Recent
    <3>3. CASE g \notin failures[v]
      BY <3>1, <3>3 DEF ThrottleInv, Forgotten
    <3>4. QED
      BY <3>2, <3>3
  <2>5. Pending'
    <3>1. \A l \in lockouts : l.id \in Int
      BY <2>2 DEF Lockout
    <3>2. QED
      BY <2>1, <2>2, <3>1 DEF ThrottleInv, Pending
  <2>6. LockoutsHold'
    <3> SUFFICES ASSUME NEW l \in lockouts, NEW g \in guesses'[l.user], g.id >= l.id
                 PROVE  g.at >= l.at + LockoutDuration
      BY <2>1 DEF ThrottleInv, LockoutsHold
    <3>1. l \in Lockout
      BY <2>2
    <3>2. CASE g \in guesses[l.user]
      BY <3>2 DEF ThrottleInv, LockoutsHold
    <3>3. CASE g \notin guesses[l.user]
      <4>1. l.user = u /\ g.at = now
        BY <2>1, <2>2, <3>1, <3>3 DEF Lockout
      <4>2. unlockAt[l.user] <= now
        BY <2>1, <2>2, <4>1, <1>0 DEF Locked
      <4>3. now >= l.at + LockoutDuration \/ unlockAt[l.user] >= l.at + LockoutDuration
        BY DEF ThrottleInv, Pending
      <4>4. QED
        BY <2>2, <3>1, <4>1, <4>2, <4>3 DEF Lockout
    <3>4. QED
      BY <3>2, <3>3
  <2>7. QED
    BY <1>0, <1>3, <2>3, <2>4, <2>5, <2>6, FailKeepsBound DEF ThrottleInv
<1>4. ASSUME NEW u \in Users, Succeed(u)
      PROVE  ThrottleInv'
  <2>1. /\ ~ Locked(u)
        /\ attempts' = attempts + 1
        /\ failures' = [failures EXCEPT ![u] = {}]
        /\ unlockAt' = [unlockAt EXCEPT ![u] = 0]
        /\ guesses' = [guesses EXCEPT ![u] = {}]
        /\ UNCHANGED <<now, lockouts>>
    BY <1>4 DEF Succeed, Admitted, NoLockout
  <2>2. /\ now \in Int /\ attempts \in Int
        /\ failures \in [Users -> SUBSET Attempt]
        /\ guesses \in [Users -> SUBSET Attempt]
        /\ unlockAt \in [Users -> Nat]
        /\ lockouts \subseteq Lockout
    BY <1>0 DEF TypeOK
  <2>3. Past'
    <3> SUFFICES ASSUME NEW v \in Users
                 PROVE  /\ IsFiniteSet(guesses'[v])
                        /\ failures'[v] \subseteq guesses'[v]
                        /\ \A g \in guesses'[v] : g.at <= now /\ g.id < attempts + 1
      BY <2>1 DEF Past
    <3>1. /\ IsFiniteSet(guesses[v]) /\ failures[v] \subseteq guesses[v]
          /\ \A g \in guesses[v] : g.at <= now /\ g.id < attempts /\ g.id \in Int
      BY <2>2 DEF ThrottleInv, Past, Attempt
    <3>2. QED
      BY <2>1, <2>2, <3>1, FS_EmptySet
  <2>4. Forgotten'
    BY <2>1, <2>2 DEF ThrottleInv, Forgotten
  <2>5. Pending'
    <3> SUFFICES ASSUME NEW l \in lockouts
                 PROVE  /\ l.id <= attempts + 1 /\ l.at <= now
                        /\ now >= l.at + LockoutDuration \/ unlockAt'[l.user] >= l.at + LockoutDuration
      BY <2>1 DEF Pending
    <3>1. /\ l \in Lockout /\ l.id <= attempts /\ l.at <= now
          /\ now >= l.at + LockoutDuration \/ unlockAt[l.user] >= l.at + LockoutDuration
      BY <2>2 DEF ThrottleInv, Pending
    <3>2. l.user = u => unlockAt[l.user] <= now
      BY <2>1, <2>2 DEF Locked
    <3>3. QED
      BY <2>1, <2>2, <3>1, <3>2 DEF Lockout
  <2>6. GuessesBounded'
    BY <2>1, <2>2 DEF ThrottleInv, GuessesBounded
  <2>7. LockoutsHold'
    BY <2>1, <2>2 DEF ThrottleInv, LockoutsHold
  <2>8. QED
    BY <1>0, <2>3, <2>4, <2>5, <2>6, <2>7 DEF ThrottleInv
<1>5. CASE UNCHANGED vars
  BY <1>5, <1>0 DEF vars, ThrottleInv, Past, Forgotten, Pending, GuessesBounded, LockoutsHold
<1>6. QED
  BY <1>1, <1>2, <1>3, <1>4, <1>5 DEF Next, Refuse

\* No window of FailureWindow seconds sees more than MaxFailures wrong
\* passwords of a user, and a lockout is never cut short (auth.py 27-83), for
\* every allowance and every lockout longer than the window.
THEOREM ThrottleCorrect == Spec => [](TypeOK /\ GuessesBounded /\ LockoutsHold)
<1>1. Init => ThrottleInv
  BY FS_EmptySet, ThrottleAssumption
     DEF Init, NoLockout, ThrottleInv, TypeOK, Past, Forgotten, Pending, GuessesBounded, LockoutsHold
<1>2. ThrottleInv => TypeOK /\ GuessesBounded /\ LockoutsHold
  BY DEF ThrottleInv
<1>3. QED
  BY <1>1, <1>2, ThrottleInvStep, PTL DEF Spec
=============================================================================
