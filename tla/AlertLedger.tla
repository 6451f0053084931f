---------------------------- MODULE AlertLedger ----------------------------
(***************************************************************************)
(* What the alert table promises of one deduplication key: a firing is     *)
(* recorded on an open alert when there is one, and opens a new alert      *)
(* otherwise; its evidence was never used before; and only an analyst      *)
(* changes the status of an alert or removes it.                           *)
(***************************************************************************)
EXTENDS Integers, FiniteSets

CONSTANTS Events, Threshold, NoAlert

VARIABLE alerts   \* an alert is named after the event whose firing opened it

Stored == {a \in Events : alerts[a] # NoAlert}
Open == {a \in Stored : alerts[a].status = "open"}

Init == alerts = [a \in Events |-> NoAlert]

Fresh(evidence) ==
  /\ Cardinality(evidence) >= Threshold
  /\ \A a \in Stored : alerts[a].ids \cap evidence = {}

Dedup(a, evidence) ==
  /\ a \in Open
  /\ Fresh(evidence)
  /\ alerts' = [alerts EXCEPT ![a].hits = @ + 1, ![a].ids = @ \cup evidence]

Raise(a, evidence) ==
  /\ Open = {}
  /\ a \notin Stored
  /\ Fresh(evidence)
  /\ alerts' = [alerts EXCEPT ![a] = [status |-> "open", hits |-> 1, ids |-> evidence]]

SetStatus(a, status) ==
  /\ a \in Stored
  /\ alerts' = [alerts EXCEPT ![a].status = status]

Remove(a) ==
  /\ a \in Stored
  /\ alerts' = [alerts EXCEPT ![a] = NoAlert]

Next ==
  \E a \in Events :
    \/ \E evidence \in SUBSET Events : Dedup(a, evidence) \/ Raise(a, evidence)
    \/ \E status \in {"open", "closed"} : SetStatus(a, status)
    \/ Remove(a)

Spec == Init /\ [][Next]_alerts
=============================================================================
