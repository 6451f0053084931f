------------------------------ MODULE Detector ------------------------------
(***************************************************************************)
(* What the correlation engine promises of one threshold rule, with no     *)
(* counter objects, no cleanup and no coroutines: per key a pool of the    *)
(* reports of the last Window seconds.  The report that brings a pool to   *)
(* Threshold raises an alarm with the whole pool as evidence and empties   *)
(* it.                                                                     *)
(***************************************************************************)
EXTENDS Integers, FiniteSets

CONSTANTS Events, Keys, Threshold, Window

VARIABLES
  now,       \* the time
  pool,      \* per key, the <<event, time>> pairs not used for an alarm yet
  reported,  \* the <<event, key>> pairs already reported
  alarms     \* the <<key, evidence>> pairs raised

vars == <<now, pool, reported, alarms>>

Init ==
  /\ now = 0
  /\ pool = [k \in Keys |-> {}]
  /\ reported = {}
  /\ alarms = {}

\* A second goes by: reports older than the window are forgotten.
Pass ==
  /\ now' = now + 1
  /\ pool' = [k \in Keys |-> {p \in pool[k] : p[2] >= now + 1 - Window}]
  /\ UNCHANGED <<reported, alarms>>

\* An event is reported for a key, once.
Report(e, k) ==
  /\ <<e, k>> \notin reported
  /\ reported' = reported \cup {<<e, k>>}
  /\ LET evidence == pool[k] \cup {<<e, now>>}
     IN  IF Cardinality(evidence) >= Threshold
           THEN /\ pool' = [pool EXCEPT ![k] = {}]
                /\ alarms' = alarms \cup {<<k, {p[1] : p \in evidence}>>}
           ELSE /\ pool' = [pool EXCEPT ![k] = evidence]
                /\ UNCHANGED alarms
  /\ UNCHANGED now

Next == Pass \/ \E e \in Events, k \in Keys : Report(e, k)

Spec == Init /\ [][Next]_vars
=============================================================================
