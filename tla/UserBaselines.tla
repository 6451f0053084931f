---------------------------- MODULE UserBaselines ----------------------------
(* services/baseline.py, services/anomaly_detector.py and the refresh of         *)
(* routers/ueba.py: refreshes that rewrite every user's profile in one            *)
(* transaction, and detector tasks that start before their event is committed.   *)
EXTENDS Integers, FiniteSets, Functions

CONSTANTS
  UserEvent,       \* rows of security_events that have a user
  PastEvent,       \* those of them that are there, less than an hour old, at the beginning
  UserOf, HourAt, IpOf,   \* [UserEvent -> ...]: their columns
  Nightly, Refresh,\* tasks: the loop's, which repeats, and the manual ones beside it
  MaxUebaFaults    \* bound

ASSUME UebaAssumption == /\ DOMAIN UserOf = UserEvent /\ DOMAIN HourAt = UserEvent /\ DOMAIN IpOf = UserEvent
                         /\ PastEvent \subseteq UserEvent /\ Nightly \in Refresh /\ MaxUebaFaults \in Nat

VARIABLES
  ageOf,       \* [UserEvent -> ...]: "none", "flushed" (its session has not committed),
               \* "recent" (60 minutes), "month" (30 days), "old", "undone"
  profiles,    \* user_behavior_profiles: a function from users to [hours, ips]
  refresh,     \* [Refresh -> record]: run_nightly_update and its session
  detector,    \* [UserEvent -> record]: evaluate_event
  anomalies,   \* events with a row in ueba_anomalies
  uebaFaults

uebaVars == <<ageOf, profiles, refresh, detector, anomalies, uebaFaults>>

NoRefresh == [pc |-> "idle", todo |-> {}, loaded |-> {}, changes |-> <<>>, broken |-> FALSE]
NoDetector == [pc |-> "none", score |-> 0]

UebaInit ==
  /\ ageOf = [e \in UserEvent |-> IF e \in PastEvent THEN "recent" ELSE "none"]
  /\ profiles = <<>> /\ anomalies = {}
  /\ refresh = [r \in Refresh |-> NoRefresh] /\ detector = [e \in UserEvent |-> NoDetector]
  /\ uebaFaults = 0

Refreshes(r, row) == refresh' = [refresh EXCEPT ![r] = row]
Detects(e, row) == detector' = [detector EXCEPT ![e] = row]
InMonth(u) == {e \in UserEvent : UserOf[e] = u /\ ageOf[e] \in {"recent", "month"}}
Users == {UserOf[e] : e \in {e \in UserEvent : ageOf[e] \in {"recent", "month"}}}

-----------------------------------------------------------------------------
BeginRefresh(r) ==
  /\ refresh[r].pc = "idle" /\ Refreshes(r, [NoRefresh EXCEPT !.pc = "user", !.todo = Users])
  /\ UNCHANGED <<ageOf, profiles, detector, anomalies, uebaFaults>>

\* compute_baseline up to its flush: the user's events, the profile if there is one, and
\* the values to write; without events the old ones stay.
Computed(u, old) ==
  IF InMonth(u) = {} THEN old
  ELSE [hours |-> {HourAt[e] : e \in InMonth(u)}, ips |-> {IpOf[e] : e \in InMonth(u)}]
ComputeBaseline(r) ==
  /\ refresh[r].pc = "user" /\ ~refresh[r].broken
  /\ \E u \in refresh[r].todo :
       LET known == u \in DOMAIN profiles
           old == IF known THEN profiles[u] ELSE [hours |-> {}, ips |-> {}]
       IN Refreshes(r, [refresh[r] EXCEPT !.pc = "flush", !.todo = @ \ {u},
                          !.loaded = {[user |-> u, known |-> known, row |-> Computed(u, old)]}])
  /\ UNCHANGED <<ageOf, profiles, detector, anomalies, uebaFaults>>

\* The flush waits for a transaction that has written the same profile. An INSERT of a
\* profile that exists by then breaks the session.
Profile(r) == {l.user : l \in refresh[r].loaded}
Await(r, q) == q # r /\ refresh[r].pc = "flush" /\ Profile(r) \cap DOMAIN refresh[q].changes # {}
Break(r) == Refreshes(r, [refresh[r] EXCEPT !.pc = "user", !.loaded = {}, !.changes = <<>>, !.broken = TRUE])
FlushBaseline(r) ==
  /\ refresh[r].pc = "flush" /\ \A q \in Refresh : ~Await(r, q)
  /\ \E l \in refresh[r].loaded :
       IF ~l.known /\ l.user \in DOMAIN profiles THEN Break(r)
       ELSE Refreshes(r, [refresh[r] EXCEPT !.pc = "user", !.loaded = {},
                            !.changes = [u \in DOMAIN @ \cup {l.user} |-> IF u = l.user THEN l.row ELSE @[u]]])
  /\ UNCHANGED <<ageOf, profiles, detector, anomalies, uebaFaults>>

\* Two refreshes that wait for one another: PostgreSQL aborts one.
RefreshDeadlock(r) ==
  /\ \E S \in SUBSET Refresh : r \in S /\ \A a \in S : \E b \in S : Await(a, b)
  /\ Break(r)
  /\ UNCHANGED <<ageOf, profiles, detector, anomalies, uebaFaults>>

\* The loop's task is idle again, a manual one is over.
EndedRefresh(r) == [NoRefresh EXCEPT !.pc = IF r = Nightly THEN "idle" ELSE "over"]

\* The one commit for all users. A broken session refuses every further user, whose errors
\* are logged, and the commit: nothing of the refresh is kept.
Stamped_None(r) == profiles
Stamped(r) == [u \in DOMAIN profiles \cup DOMAIN refresh[r].changes |->
                IF u \in DOMAIN refresh[r].changes THEN refresh[r].changes[u] ELSE profiles[u]]
CommitRefresh(r) ==
  /\ refresh[r].pc = "user" /\ (refresh[r].todo = {} \/ refresh[r].broken)
  /\ profiles' = IF refresh[r].broken THEN profiles ELSE Stamped(r)
  /\ Refreshes(r, EndedRefresh(r))
  /\ UNCHANGED <<ageOf, detector, anomalies, uebaFaults>>

FailRefresh(r) ==
  /\ refresh[r].pc \in {"user", "flush"} /\ ~refresh[r].broken
  /\ uebaFaults < MaxUebaFaults /\ uebaFaults' = uebaFaults + 1
  /\ Break(r)
  /\ UNCHANGED <<ageOf, profiles, detector, anomalies>>

UebaCrash ==
  /\ uebaFaults < MaxUebaFaults /\ uebaFaults' = uebaFaults + 1
  /\ refresh' = [r \in Refresh |-> IF refresh[r].pc = "idle" THEN NoRefresh ELSE EndedRefresh(r)]
  /\ detector' = [e \in UserEvent |-> NoDetector]
  /\ ageOf' = [e \in UserEvent |-> IF ageOf[e] = "flushed" THEN "undone" ELSE ageOf[e]]
  /\ UNCHANGED <<profiles, anomalies>>

-----------------------------------------------------------------------------
\* store_event: the flush and the detector's task; the commit follows or never does.
StoreUserEvent(e) ==
  /\ ageOf[e] = "none" /\ ageOf' = [ageOf EXCEPT ![e] = "flushed"]
  /\ Detects(e, [NoDetector EXCEPT !.pc = "profile"])
  /\ UNCHANGED <<profiles, refresh, anomalies, uebaFaults>>
CommitUserEvent(e) ==
  /\ ageOf[e] = "flushed" /\ ageOf' = [ageOf EXCEPT ![e] = "recent"]
  /\ UNCHANGED <<profiles, refresh, detector, anomalies, uebaFaults>>
UndoUserEvent(e) ==
  /\ ageOf[e] = "flushed" /\ uebaFaults < MaxUebaFaults /\ uebaFaults' = uebaFaults + 1
  /\ ageOf' = [ageOf EXCEPT ![e] = "undone"]
  /\ UNCHANGED <<profiles, refresh, detector, anomalies>>
\* An hour passes without an event, or the rest of a month.
EventsAge ==
  /\ \E gone \in {"recent", "month"} :
       /\ gone \in Range(ageOf)
       /\ ageOf' = [e \in UserEvent |->
                      CASE gone = "recent" /\ ageOf[e] = "recent" -> "month"
                        [] gone = "month" /\ ageOf[e] \in {"recent", "month"} -> "old"
                        [] OTHER -> ageOf[e]]
  /\ UNCHANGED <<profiles, refresh, detector, anomalies, uebaFaults>>

\* evaluate_event: the profile's two checks; no profile, no evaluation.
ReadProfile(e) ==
  LET known == UserOf[e] \in DOMAIN profiles
      row == profiles[UserOf[e]]
      unusual == IF row.hours # {} /\ HourAt[e] \notin row.hours THEN 40 ELSE 0
      newIp == IF row.ips # {} /\ IpOf[e] \notin row.ips THEN 30 ELSE 0
  IN /\ detector[e].pc = "profile"
     /\ Detects(e, IF known THEN [pc |-> "recent", score |-> unusual + newIp] ELSE [NoDetector EXCEPT !.pc = "over"])
     /\ UNCHANGED <<ageOf, profiles, refresh, anomalies, uebaFaults>>
\* Another address of the user in the last hour is impossible travel.
ReadRecent(e) ==
  LET travel == \E f \in UserEvent \ {e} : UserOf[f] = UserOf[e] /\ ageOf[f] = "recent" /\ IpOf[f] # IpOf[e]
      score == detector[e].score + (IF travel THEN 60 ELSE 0)
  IN /\ detector[e].pc = "recent"
     /\ Detects(e, [pc |-> IF score < 60 THEN "over" ELSE "persist", score |-> score])
     /\ UNCHANGED <<ageOf, profiles, refresh, anomalies, uebaFaults>>
\* The anomaly and last_evaluated_at, which waits for a refresh that has written the profile.
PersistAnomaly(e) ==
  /\ detector[e].pc = "persist" /\ \A r \in Refresh : UserOf[e] \notin DOMAIN refresh[r].changes
  /\ anomalies' = anomalies \cup {e} /\ Detects(e, [NoDetector EXCEPT !.pc = "over"])
  /\ UNCHANGED <<ageOf, profiles, refresh, uebaFaults>>

RefreshStep(r) == ComputeBaseline(r) \/ FlushBaseline(r) \/ RefreshDeadlock(r) \/ CommitRefresh(r)
NightlyStep == BeginRefresh(Nightly) \/ RefreshStep(Nightly)
DetectorStep(e) == ReadProfile(e) \/ ReadRecent(e) \/ PersistAnomaly(e)

UebaNext ==
  \/ \E r \in Refresh : BeginRefresh(r) \/ RefreshStep(r) \/ FailRefresh(r)
  \/ \E e \in UserEvent : \/ StoreUserEvent(e) \/ CommitUserEvent(e) \/ UndoUserEvent(e)
                          \/ DetectorStep(e)
  \/ EventsAge \/ UebaCrash

UebaSpec == UebaInit /\ [][UebaNext]_uebaVars

-----------------------------------------------------------------------------
\* Every variable keeps its shape; no two transactions hold one profile.
UebaTypeOK ==
  /\ DOMAIN profiles \subseteq Range(UserOf) /\ anomalies \subseteq UserEvent
  /\ \A e \in UserEvent : /\ ageOf[e] \in {"none", "flushed", "recent", "month", "old", "undone"}
                          /\ detector[e].pc \in {"none", "profile", "recent", "persist", "over"}
  /\ \A r \in Refresh : refresh[r].pc \in {"idle", "user", "flush", "over"} /\ Cardinality(refresh[r].loaded) <= 1
  /\ \A q, r \in Refresh : q # r => DOMAIN refresh[q].changes \cap DOMAIN refresh[r].changes = {}

\* What a profile can have learnt: hours and addresses of events of its user that were
\* committed.
Committed(u) == {e \in UserEvent : UserOf[e] = u /\ ageOf[e] \in {"recent", "month", "old"}}
Learnable(u) ==
  [hours : SUBSET {HourAt[e] : e \in Committed(u)}, ips : SUBSET {IpOf[e] : e \in Committed(u)}]

\* A refresh writes every user's profile in one transaction, from values it computed before it
\* waited for another's; still no profile takes anything from another user or from an event
\* that was rolled back, and only users with a profile are found anomalous, whatever
\* refreshes clash, fail or crash (baseline.py:18-93, anomaly_detector.py:18-31).
BaselinesAreLearnt ==
  /\ \A u \in DOMAIN profiles : profiles[u] \in Learnable(u)
  /\ \A e \in anomalies : UserOf[e] \in DOMAIN profiles

\* A user with events in the month gets a baseline, although the refreshes that clash over
\* a new profile or wait for one another lose all their users (baseline.py:96-142).
BaselinesArrive ==
  \A u \in Range(UserOf) : InMonth(u) # {} ~> u \in DOMAIN profiles \/ InMonth(u) = {}
=============================================================================
