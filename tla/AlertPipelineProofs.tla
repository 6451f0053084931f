------------------------ MODULE AlertPipelineProofs ------------------------
(***************************************************************************)
(* Proofs about AlertPipeline, for every set of events, any of them by     *)
(* syslog, every threshold, number of reloads and faults, with or without  *)
(* an analyst, asset discovery and UEBA.                                   *)
(***************************************************************************)
EXTENDS AlertPipeline, FiniteSetTheorems, TLAPS

\* The places of a coroutine whose event has not been counted.
Uncounted == {"new", "updateAsset", "insertAsset", "correlate", "rule"}

\* What the coroutine k of event t has at each place of its way.
PhaseOf(t, k) ==
  /\ k.pc \in Uncounted => k.evidence = {}
  /\ k.pc \in Uncounted \cup {"select"} => ~ k.dirty /\ k.hits = 0 /\ k.ids = {}
  /\ k.pc = "apply" => ~ k.dirty
  /\ k.pc = "flush" => k.dirty
  /\ k.pc = "notify" => t \in Syslog
  /\ k.pc = "dispatch" => k.saved /\ t \notin Syslog
  /\ k.pc = "apply" \/ k.dirty => k.target \in Events
  /\ k.reported => k.dirty
  /\ k.flushed => k.dirty /\ k.pc \in {"notify", "commit", "closing"}
  /\ k.saved => k.dirty /\ k.pc \in {"dispatch", "closing", "done", "crashed"}

Phases == \A t \in Events : PhaseOf(t, task[t])

\* A row of alerts is the work of the coroutine it is named after, a row that
\* a session has locked is there, and an alert is saved with its event.
Rows ==
  /\ \A a \in Events : alerts[a] # NoAlert => task[a].saved /\ task[a].target = a
  /\ \A t \in Events : task[t].flushed =>
       task[t].target = t \/ alerts[task[t].target] # NoAlert
  /\ \A t \in Events : task[t].saved => t \in events

\* An event is in the counter, or it is evidence for one firing, or neither,
\* and only once its coroutine has counted it.
Evidence ==
  /\ \A e \in counter : task[e].pc \notin Uncounted
  /\ \A t \in Events, e \in Events : e \in task[t].evidence =>
       task[e].pc \notin Uncounted /\ e \notin counter
  /\ EvidenceNotShared

PipelineInv == TypeOK /\ Phases /\ Rows /\ Evidence

-----------------------------------------------------------------------------
LEMMA PipelineInit == Init => PipelineInv
<1> SUFFICES ASSUME Init
             PROVE  PipelineInv
  OBVIOUS
<1> USE DEF Init
<1>1. NewTask \in Task
  BY PipelineAssumption DEF NewTask, Task, Places, Loads
<1>2. objects \in [Loads -> [owner : Events \cup {Nobody}, expired : BOOLEAN]]
  BY DEF FreshObjects
<1>3. task \in [Events -> Task]
  BY <1>1
<1>4. rule \in Loads /\ faults \in 0..MaxFaults
  BY PipelineAssumption DEF Loads
<1>5. TypeOK
  BY <1>2, <1>3, <1>4 DEF TypeOK
<1>6. Phases /\ Rows /\ Evidence
  BY DEF Phases, PhaseOf, Rows, Evidence, EvidenceNotShared, NewTask, Uncounted
<1>7. QED
  BY <1>5, <1>6 DEF PipelineInv

\* A step of one coroutine that leaves the alerts, the counter and its own
\* evidence alone.
LEMMA PrivateStep ==
  ASSUME PipelineInv, TypeOK', NEW t \in Events,
         \A u \in Events \ {t} : task'[u] = task[u],
         alerts' = alerts, counter' = counter, events \subseteq events',
         PhaseOf(t, task'[t]),
         task'[t].evidence = task[t].evidence,
         task[t].pc \notin Uncounted => task'[t].pc \notin Uncounted,
         task'[t].saved = task[t].saved,
         task[t].saved => task'[t].target = task[t].target,
         task'[t].flushed => task'[t].target = t \/ alerts[task'[t].target] # NoAlert
  PROVE  PipelineInv'
<1>1. Phases'
  BY DEF PipelineInv, Phases
<1>2. Rows'
  BY DEF PipelineInv, Rows
<1>3. Evidence'
  <2>1. \A u \in Events : /\ task'[u].evidence = task[u].evidence
                          /\ task[u].pc \notin Uncounted => task'[u].pc \notin Uncounted
    OBVIOUS
  <2>2. counter \subseteq Events
    BY DEF PipelineInv, TypeOK
  <2>3. QED
    BY <2>1, <2>2 DEF PipelineInv, Evidence, EvidenceNotShared
<1>4. QED
  BY <1>1, <1>2, <1>3 DEF PipelineInv

\* The part of TypeOK that is about the tasks.
LEMMA TaskChanged ==
  ASSUME task \in [Events -> Task], NEW t \in Events, NEW k \in Task,
         task' = [task EXCEPT ![t] = k]
  PROVE  /\ task' \in [Events -> Task] /\ task'[t] = k
         /\ \A u \in Events \ {t} : task'[u] = task[u]
OBVIOUS


LEMMA GotoKeeps ==
  ASSUME PipelineInv, TypeOK', NEW t \in Events, NEW place \in Places, Goto(t, place),
         alerts' = alerts, counter' = counter, events \subseteq events',
         PhaseOf(t, [task[t] EXCEPT !.pc = place]),
         task[t].pc \in Uncounted \/ place \notin Uncounted
  PROVE  PipelineInv'
<1>1. task[t] \in Task /\ task \in [Events -> Task]
  BY DEF PipelineInv, TypeOK
<1>2. task'[t] = [task[t] EXCEPT !.pc = place]
  BY <1>1 DEF Goto
<1>3. \A u \in Events \ {t} : task'[u] = task[u]
  BY <1>1 DEF Goto
<1>4. /\ task'[t].evidence = task[t].evidence /\ task'[t].saved = task[t].saved
      /\ task'[t].target = task[t].target /\ task'[t].flushed = task[t].flushed
      /\ task'[t].pc = place
  BY <1>1, <1>2 DEF Task
<1>5. task[t].flushed => task[t].target = t \/ alerts[task[t].target] # NoAlert
  BY DEF PipelineInv, Rows
<1>6. QED
  BY <1>2, <1>3, <1>4, <1>5, PrivateStep

LEMMA StoreEventKeeps ==
  ASSUME PipelineInv, NEW t \in Events, StoreEvent(t)
  PROVE  PipelineInv'
<1> USE DEF StoreEvent, database, engine, outside
<1>1. task[t] \in Task /\ task \in [Events -> Task] /\ PhaseOf(t, task[t])
  BY DEF PipelineInv, TypeOK, Phases
<1>2. PICK place \in {"correlate", "updateAsset", "insertAsset"} : Goto(t, place)
  BY DEF AssetStep
<1>3. [task[t] EXCEPT !.pc = place] \in Task
  BY <1>1, Zenon DEF Task, Places
<1>4. task' \in [Events -> Task]
  BY <1>1, <1>2, <1>3 DEF Goto
<1>5. TypeOK'
  BY <1>4 DEF PipelineInv, TypeOK
<1>6. PhaseOf(t, [task[t] EXCEPT !.pc = place])
  BY <1>1 DEF PhaseOf, Task, At, Uncounted
<1>7. QED
  BY <1>2, <1>5, <1>6, GotoKeeps DEF At, Uncounted, Places

LEMMA UpsertAssetKeeps ==
  ASSUME PipelineInv, NEW t \in Events, UpsertAsset(t)
  PROVE  PipelineInv'
<1> USE DEF UpsertAsset, database, engine, outside
<1>1. task[t] \in Task /\ task \in [Events -> Task] /\ PhaseOf(t, task[t])
  BY DEF PipelineInv, TypeOK, Phases
<1>2. \/ task'[t] = [task[t] EXCEPT !.pc = "correlate", !.broken = TRUE]
      \/ task'[t] = [task[t] EXCEPT !.pc = "correlate", !.asset = TRUE]
  BY <1>1
<1>3. \A u \in Events \ {t} : task'[u] = task[u]
  BY <1>1
<1>4. task'[t] \in Task
  BY <1>1, <1>2, Zenon DEF Task, Places
<1>5. TypeOK'
  <2>1. task' \in [Events -> Task]
    BY <1>1, <1>4
  <2>2. QED
    BY <2>1 DEF PipelineInv, TypeOK
<1>6. PhaseOf(t, task'[t])
  BY <1>1, <1>2 DEF PhaseOf, Task, At, Uncounted
<1>7. /\ task'[t].evidence = task[t].evidence /\ task'[t].saved = task[t].saved
      /\ task'[t].target = task[t].target /\ task'[t].flushed = task[t].flushed
      /\ task[t].pc \in Uncounted
  BY <1>1, <1>2 DEF Task, At, Uncounted
<1>8. ~ task[t].flushed
  BY <1>1, <1>7 DEF PhaseOf
<1>9. QED
  BY <1>3, <1>5, <1>6, <1>7, <1>8, PrivateStep

LEMMA StoreSyslogEventKeeps ==
  ASSUME PipelineInv, NEW t \in Events, StoreSyslogEvent(t)
  PROVE  PipelineInv'
<1> USE DEF StoreSyslogEvent, engine, outside
<1>1. task[t] \in Task /\ task \in [Events -> Task] /\ PhaseOf(t, task[t])
  BY DEF PipelineInv, TypeOK, Phases
<1>2. PICK place \in {"correlate", "failed"} : Goto(t, place)
  OBVIOUS
<1>3. [task[t] EXCEPT !.pc = place] \in Task
  BY <1>1, Zenon DEF Task, Places
<1>4. task' \in [Events -> Task]
  BY <1>1, <1>2, <1>3 DEF Goto
<1>5. faults' \in 0..MaxFaults
  BY PipelineAssumption DEF Fault, PipelineInv, TypeOK
<1>6. TypeOK'
  BY <1>4, <1>5 DEF PipelineInv, TypeOK
<1>7. PhaseOf(t, [task[t] EXCEPT !.pc = place])
  BY <1>1 DEF PhaseOf, Task, At, Uncounted
<1>8. events \subseteq events'
  OBVIOUS
<1>9. QED
  BY <1>2, <1>6, <1>7, <1>8, GotoKeeps DEF At, Uncounted, Places

\* What Leave(t) does to the tasks.
LEMMA LeaveEffect ==
  ASSUME PipelineInv, NEW t \in Events, Leave(t), task[t].pc \in {"correlate", "rule", "select"}
  PROVE  /\ \E place \in {"commit", "closing"} :
              /\ Goto(t, place)
              /\ task'[t] = [task[t] EXCEPT !.pc = place]
         /\ task' \in [Events -> Task]
         /\ \A u \in Events \ {t} : task'[u] = task[u]
         /\ PhaseOf(t, task'[t])
         /\ ~ task[t].saved /\ ~ task[t].flushed
<1>1. task[t] \in Task /\ task \in [Events -> Task] /\ PhaseOf(t, task[t])
  BY DEF PipelineInv, TypeOK, Phases
<1>2. PICK place \in {"commit", "closing"} : Goto(t, place)
  BY DEF Leave, AfterEvaluation
<1>3. [task[t] EXCEPT !.pc = place] \in Task
  BY <1>1, Zenon DEF Task, Places
<1>4. task'[t] = [task[t] EXCEPT !.pc = place] /\ \A u \in Events \ {t} : task'[u] = task[u]
  BY <1>1, <1>2 DEF Goto
<1>5. task' \in [Events -> Task]
  BY <1>1, <1>2, <1>3 DEF Goto
<1>6. ~ task[t].dirty /\ ~ task[t].saved /\ ~ task[t].flushed
  BY <1>1 DEF PhaseOf, Uncounted
<1>7. PhaseOf(t, task'[t])
  BY <1>1, <1>4, <1>6 DEF PhaseOf, Task, Uncounted
<1>8. QED
  BY <1>2, <1>4, <1>5, <1>6, <1>7

LEMMA LeaveKeeps ==
  ASSUME PipelineInv, TypeOK', NEW t \in Events, Leave(t),
         task[t].pc \in {"correlate", "rule", "select"},
         alerts' = alerts, counter' = counter, events' = events
  PROVE  PipelineInv'
<1>1. task[t] \in Task
  BY DEF PipelineInv, TypeOK
<1>2. PICK place \in {"commit", "closing"} :
        Goto(t, place) /\ task'[t] = [task[t] EXCEPT !.pc = place]
  BY LeaveEffect
<1>3. PhaseOf(t, [task[t] EXCEPT !.pc = place])
  BY <1>2, LeaveEffect
<1>4. QED
  BY <1>2, <1>3, GotoKeeps DEF Places, Uncounted

LEMMA EvaluateEventKeeps ==
  ASSUME PipelineInv, NEW t \in Events, EvaluateEvent(t)
  PROVE  PipelineInv'
<1>0. /\ UNCHANGED <<database, outside, faults>>
      /\ events' = events /\ alerts' = alerts
  BY DEF EvaluateEvent, database
<1>1. task[t] \in Task /\ task \in [Events -> Task] /\ PhaseOf(t, task[t]) /\ rule \in Loads
  BY DEF PipelineInv, TypeOK, Phases
<1>2. task[t].pc = "correlate"
  BY DEF EvaluateEvent, At
<1>3. CASE Leave(t) /\ UNCHANGED engine
  <2>1. TypeOK'
    <3>1. task' \in [Events -> Task]
      BY <1>2, <1>3, LeaveEffect
    <3>2. QED
      BY <3>1, <1>0, <1>3 DEF PipelineInv, TypeOK, engine, database, outside
  <2>2. QED
    BY <1>0, <2>1, <1>2, <1>3, LeaveKeeps DEF engine
<1>4. ASSUME NEW r \in Loads, task' = [task EXCEPT ![t].pc = "rule", ![t].rule = r],
             counter' = counter,
             \/ UNCHANGED engine
             \/ /\ rule' = r
                /\ objects' = [objects EXCEPT ![r] = [owner |-> t, expired |-> FALSE]]
      PROVE  PipelineInv'
  <2>1. task'[t] = [task[t] EXCEPT !.pc = "rule", !.rule = r]
        /\ \A u \in Events \ {t} : task'[u] = task[u]
    BY <1>1, <1>4
  <2>2. task'[t] \in Task
    BY <1>1, <2>1, Zenon DEF Task, Places
  <2>3. task' \in [Events -> Task]
    BY <1>1, <1>4, <2>2
  <2>4. objects' \in [Loads -> [owner : Events \cup {Nobody}, expired : BOOLEAN]] /\ rule' \in Loads
    <3>1. objects \in [Loads -> [owner : Events \cup {Nobody}, expired : BOOLEAN]] /\ rule \in Loads
      BY DEF PipelineInv, TypeOK
    <3>2. [owner |-> t, expired |-> FALSE] \in [owner : Events \cup {Nobody}, expired : BOOLEAN]
      OBVIOUS
    <3>3. QED
      BY <1>4, <3>1, <3>2 DEF engine
  <2>5. TypeOK'
    BY <1>0, <1>4, <2>3, <2>4 DEF PipelineInv, TypeOK, database, outside
  <2>6. /\ task'[t].evidence = task[t].evidence /\ task'[t].saved = task[t].saved
        /\ task'[t].target = task[t].target /\ task'[t].flushed = task[t].flushed
    BY <1>1, <2>1 DEF Task
  <2>7. PhaseOf(t, task'[t]) /\ ~ task[t].flushed
    BY <1>1, <1>2, <2>1 DEF PhaseOf, Task, Uncounted
  <2>8. QED
    BY <1>0, <1>2, <1>4, <2>1, <2>5, <2>6, <2>7, PrivateStep DEF Uncounted
<1>5. rule < MaxLoads => rule + 1 \in Loads
  BY <1>1, PipelineAssumption DEF Loads
<1>6. QED
  BY <1>1, <1>3, <1>4, <1>5 DEF EvaluateEvent, engine

\* A coroutine counts its event: the event joins the counter, or with all that
\* the counter holds becomes evidence.
LEMMA EvaluateRuleKeeps ==
  ASSUME PipelineInv, NEW t \in Events, EvaluateRule(t)
  PROVE  PipelineInv'
<1>0. /\ UNCHANGED <<rule, objects, outside, faults>>
      /\ UNCHANGED <<events, alerts, asset>>
  BY DEF EvaluateRule, database
<1>1. /\ task[t] \in Task /\ task \in [Events -> Task] /\ PhaseOf(t, task[t])
      /\ counter \subseteq Events
  BY DEF PipelineInv, TypeOK, Phases
<1>2. task[t].pc = "rule"
  BY DEF EvaluateRule, At
<1>3. /\ t \notin counter /\ task[t].evidence = {}
      /\ \A u \in Events : t \notin task[u].evidence
  BY <1>1, <1>2 DEF PipelineInv, Evidence, PhaseOf, Uncounted
<1>4. CASE Leave(t) /\ counter' \in {counter, counter \cup {t}}
  <2>1. PICK place \in {"commit", "closing"} : task'[t] = [task[t] EXCEPT !.pc = place]
    BY <1>2, <1>4, LeaveEffect
  <2>2. /\ task' \in [Events -> Task] /\ \A u \in Events \ {t} : task'[u] = task[u]
        /\ PhaseOf(t, task'[t]) /\ ~ task[t].saved /\ ~ task[t].flushed
    BY <1>2, <1>4, LeaveEffect
  <2>3. TypeOK'
    BY <1>0, <1>1, <1>4, <2>2 DEF PipelineInv, TypeOK, outside
  <2>4. CASE counter' = counter
    BY <1>0, <1>2, <1>4, <2>3, <2>4, LeaveKeeps
  <2>5. CASE counter' = counter \cup {t}
    <3>1. /\ task'[t].evidence = {} /\ ~ task'[t].saved /\ ~ task'[t].flushed
          /\ task'[t].pc \notin Uncounted
      BY <1>1, <1>3, <2>1, <2>2 DEF Task, Uncounted
    <3>2. Phases'
      BY <2>2 DEF PipelineInv, Phases
    <3>3. Rows'
      BY <1>0, <2>2, <3>1 DEF PipelineInv, Rows
    <3>4. Evidence'
      BY <1>1, <1>3, <2>2, <2>5, <3>1 DEF PipelineInv, Evidence, EvidenceNotShared
    <3>5. QED
      BY <2>3, <3>2, <3>3, <3>4 DEF PipelineInv
  <2>6. QED
    BY <1>4, <2>4, <2>5
<1>5. CASE /\ counter' = {}
           /\ task' = [task EXCEPT ![t].pc = "select", ![t].evidence = counter \cup {t}]
  <2>1. /\ task'[t] = [task[t] EXCEPT !.pc = "select", !.evidence = counter \cup {t}]
        /\ \A u \in Events \ {t} : task'[u] = task[u]
    BY <1>1, <1>5
  <2>2. counter \cup {t} \in SUBSET Events
    BY <1>1
  <2>3. task'[t] \in Task
    BY <1>1, <2>1, <2>2, Zenon DEF Task, Places
  <2>4. task' \in [Events -> Task]
    BY <1>1, <1>5, <2>3
  <2>5. TypeOK'
    BY <1>0, <1>5, <2>4 DEF PipelineInv, TypeOK, outside
  <2>6. /\ task'[t].evidence = counter \cup {t} /\ task'[t].pc = "select"
        /\ task'[t].saved = task[t].saved /\ task'[t].flushed = task[t].flushed
    BY <1>1, <2>1 DEF Task
  <2>7. PhaseOf(t, task'[t]) /\ ~ task[t].saved /\ ~ task[t].flushed
    BY <1>1, <1>2, <2>1 DEF PhaseOf, Task, Uncounted
  <2>8. Phases'
    BY <2>1, <2>7 DEF PipelineInv, Phases
  <2>9. Rows'
    BY <1>0, <2>1, <2>6, <2>7 DEF PipelineInv, Rows
  <2>10. Evidence'
    BY <1>1, <1>3, <1>5, <2>1, <2>6 DEF PipelineInv, Evidence, EvidenceNotShared, Uncounted
  <2>11. QED
    BY <2>5, <2>8, <2>9, <2>10 DEF PipelineInv
<1>6. QED
  BY <1>4, <1>5 DEF EvaluateRule, Reset

LEMMA SelectAlertKeeps ==
  ASSUME PipelineInv, NEW t \in Events, SelectAlert(t)
  PROVE  PipelineInv'
<1>0. /\ UNCHANGED <<events, asset, alerts, counter, rule, objects, jobs, notified, unheard, played, faults>>
      /\ task[t].pc = "select"
  BY DEF SelectAlert, At, database, engine, outside
<1>1. task[t] \in Task /\ task \in [Events -> Task] /\ PhaseOf(t, task[t])
  BY DEF PipelineInv, TypeOK, Phases
<1>2. CASE Leave(t)
  <2>1. task' \in [Events -> Task]
    BY <1>0, <1>2, LeaveEffect
  <2>2. TypeOK'
    BY <1>0, <2>1 DEF PipelineInv, TypeOK
  <2>3. QED
    BY <1>0, <1>2, <2>2, LeaveKeeps
<1>3. ASSUME NEW k, task' = [task EXCEPT ![t] = k],
             \/ k = [task[t] EXCEPT !.pc = "apply", !.target = t]
             \/ \E a \in Events : alerts[a] # NoAlert /\ k = Loaded(t, a)
      PROVE  PipelineInv'
  <2>1. k \in Task
    <3>1. CASE k = [task[t] EXCEPT !.pc = "apply", !.target = t]
      BY <1>1, <3>1, Zenon DEF Task, Places
    <3>2. ASSUME NEW a \in Events, alerts[a] # NoAlert, k = Loaded(t, a)
          PROVE  k \in Task
      <4>1. alerts[a].hits \in Nat /\ alerts[a].ids \in SUBSET Events
        BY <3>2 DEF PipelineInv, TypeOK, Alert
      <4>2. QED
        BY <1>1, <3>2, <4>1, Zenon DEF Task, Places, Loaded
    <3>3. QED
      BY <1>3, <3>1, <3>2
  <2>2. /\ task'[t] = k /\ \A u \in Events \ {t} : task'[u] = task[u]
        /\ task' \in [Events -> Task]
    BY <1>1, <1>3, <2>1, TaskChanged
  <2>3. TypeOK'
    BY <1>0, <2>2 DEF PipelineInv, TypeOK
  <2>4. /\ k.pc = "apply" /\ k.target \in Events /\ k.evidence = task[t].evidence
        /\ k.saved = task[t].saved /\ k.flushed = task[t].flushed /\ k.dirty = task[t].dirty
        /\ k.reported = task[t].reported
    BY <1>1, <1>3 DEF Task, Loaded
  <2>5. ~ task[t].dirty /\ ~ task[t].saved /\ ~ task[t].flushed /\ ~ task[t].reported
    BY <1>0, <1>1 DEF PhaseOf
  <2>6. PhaseOf(t, k)
    BY <2>4, <2>5 DEF PhaseOf, Uncounted
  <2>7. QED
    BY <1>0, <2>2, <2>3, <2>4, <2>5, <2>6, PrivateStep DEF Uncounted
<1>4. QED
  BY <1>2, <1>3 DEF SelectAlert, Open

\* The rule object that the coroutine of t reads and adds.
RuleObject(t) == objects[task[t].rule]
CanAdd(t) == ~ RuleObject(t).expired /\ RuleObject(t).owner \in {Nobody, t}

LEMMA ApplyFiringEffect ==
  ASSUME PipelineInv, NEW t \in Events, ApplyFiring(t)
  PROVE  \E p \in {"flush", "commit", "closing"}, d \in BOOLEAN :
           /\ task' = [task EXCEPT ![t] =
                [task[t] EXCEPT !.pc = p, !.dirty = d,
                                !.hits = task[t].hits + 1, !.ids = task[t].ids \cup task[t].evidence]]
           /\ p = "flush" <=> CanAdd(t)
           /\ p = "flush" => d
           /\ objects' = IF CanAdd(t) THEN [objects EXCEPT ![task[t].rule].owner = t] ELSE objects
<1>1. task \in [Events -> Task] /\ task[t] \in Task
  BY DEF PipelineInv, TypeOK
<1> DEFINE d == task[t].target # t \/ ~ RuleObject(t).expired
           p == IF CanAdd(t) THEN "flush" ELSE AfterEvaluation(t, FALSE)
<1>2. /\ task' = [task EXCEPT ![t].pc = p, ![t].dirty = d,
                              ![t].hits = @ + 1, ![t].ids = @ \cup task[t].evidence]
      /\ objects' = IF CanAdd(t) THEN [objects EXCEPT ![task[t].rule].owner = t] ELSE objects
  BY Zenon DEF ApplyFiring, CanAdd, RuleObject
<1>3. /\ p \in {"flush", "commit", "closing"} /\ d \in BOOLEAN
      /\ p = "flush" <=> CanAdd(t)
      /\ p = "flush" => d
  BY DEF AfterEvaluation, CanAdd
<1> HIDE DEF d, p
<1>4. task' = [task EXCEPT ![t] =
        [task[t] EXCEPT !.pc = p, !.dirty = d,
                        !.hits = task[t].hits + 1, !.ids = task[t].ids \cup task[t].evidence]]
  BY <1>1, <1>2
<1>5. QED
  BY <1>2, <1>3, <1>4

LEMMA ApplyFiringKeeps ==
  ASSUME PipelineInv, NEW t \in Events, ApplyFiring(t)
  PROVE  PipelineInv'
<1>0. /\ UNCHANGED <<events, asset, alerts, counter, rule, jobs, notified, unheard, played, faults>>
      /\ task[t].pc = "apply"
  BY DEF ApplyFiring, At, database, outside
<1>1. task[t] \in Task /\ task \in [Events -> Task] /\ PhaseOf(t, task[t])
  BY DEF PipelineInv, TypeOK, Phases
<1>2. PICK p \in {"flush", "commit", "closing"}, d \in BOOLEAN :
        /\ task' = [task EXCEPT ![t] =
             [task[t] EXCEPT !.pc = p, !.dirty = d,
                             !.hits = task[t].hits + 1, !.ids = task[t].ids \cup task[t].evidence]]
        /\ p = "flush" => d
        /\ objects' = IF CanAdd(t) THEN [objects EXCEPT ![task[t].rule].owner = t] ELSE objects
  BY ApplyFiringEffect
<1> DEFINE k == [task[t] EXCEPT !.pc = p, !.dirty = d,
                   !.hits = task[t].hits + 1, !.ids = task[t].ids \cup task[t].evidence]
<1>3. task[t].hits + 1 \in Nat /\ task[t].ids \cup task[t].evidence \in SUBSET Events
  BY <1>1 DEF Task
<1>4. k \in Task
  BY <1>1, <1>3, Zenon DEF Task, Places
<1>5. /\ k.pc = p /\ k.dirty = d /\ k.target = task[t].target /\ k.evidence = task[t].evidence
      /\ k.saved = task[t].saved /\ k.flushed = task[t].flushed /\ k.reported = task[t].reported
  BY <1>1 DEF Task
<1> HIDE DEF k
<1>6. /\ task'[t] = k /\ \A u \in Events \ {t} : task'[u] = task[u]
      /\ task' \in [Events -> Task]
  BY <1>1, <1>2, <1>4, TaskChanged DEF k
<1>7. objects' \in [Loads -> [owner : Events \cup {Nobody}, expired : BOOLEAN]]
  <2>1. objects \in [Loads -> [owner : Events \cup {Nobody}, expired : BOOLEAN]]
    BY DEF PipelineInv, TypeOK
  <2>2. QED
    BY <1>2, <2>1
<1>8. TypeOK'
  BY <1>0, <1>6, <1>7 DEF PipelineInv, TypeOK
<1>9. task[t].target \in Events /\ ~ task[t].saved /\ ~ task[t].flushed /\ ~ task[t].reported
  BY <1>0, <1>1 DEF PhaseOf
<1>10. PhaseOf(t, k)
  BY <1>2, <1>5, <1>9 DEF PhaseOf, Uncounted
<1>11. QED
  BY <1>0, <1>5, <1>6, <1>8, <1>9, <1>10, PrivateStep DEF Uncounted

LEMMA FlushFiringKeeps ==
  ASSUME PipelineInv, NEW t \in Events, FlushFiring(t)
  PROVE  PipelineInv'
<1>0. /\ UNCHANGED <<events, asset, alerts, counter, rule, jobs, notified, unheard, played, faults>>
      /\ task[t].pc = "flush"
  BY DEF FlushFiring, At, database, outside
<1>1. task[t] \in Task /\ task \in [Events -> Task] /\ PhaseOf(t, task[t])
      /\ objects \in [Loads -> [owner : Events \cup {Nobody}, expired : BOOLEAN]]
  BY DEF PipelineInv, TypeOK, Phases
<1>2. task[t].dirty /\ task[t].target \in Events /\ ~ task[t].saved /\ ~ task[t].flushed
  BY <1>0, <1>1 DEF PhaseOf
<1>3. CASE Vanished(t)
  <2>1. PICK p \in {"commit", "closing"} :
          task' = [task EXCEPT ![t].pc = p, ![t].broken = TRUE] /\ objects' = Expired(t)
    BY <1>3 DEF FlushFiring, AfterEvaluation
  <2>2. /\ task'[t] = [task[t] EXCEPT !.pc = p, !.broken = TRUE]
        /\ \A u \in Events \ {t} : task'[u] = task[u]
    BY <1>1, <2>1
  <2>3. task'[t] \in Task
    BY <1>1, <2>2, Zenon DEF Task, Places
  <2>4. task' \in [Events -> Task]
    BY <1>1, <2>1, <2>3
  <2>5. objects' \in [Loads -> [owner : Events \cup {Nobody}, expired : BOOLEAN]]
    BY <1>1, <2>1 DEF Expired
  <2>6. TypeOK'
    BY <1>0, <2>4, <2>5 DEF PipelineInv, TypeOK
  <2>7. /\ task'[t].evidence = task[t].evidence /\ task'[t].saved = task[t].saved
        /\ task'[t].target = task[t].target /\ task'[t].flushed = task[t].flushed
        /\ task'[t].dirty = task[t].dirty /\ task'[t].reported = task[t].reported
        /\ task'[t].pc = p
    BY <1>1, <2>2 DEF Task
  <2>8. PhaseOf(t, task'[t])
    BY <1>2, <2>7 DEF PhaseOf, Uncounted
  <2>9. QED
    BY <1>0, <1>2, <2>2, <2>6, <2>7, <2>8, PrivateStep DEF Uncounted
<1>4. CASE ~ Vanished(t)
  <2>1. PICK p \in {"commit", "notify"} :
          /\ task' = [task EXCEPT ![t].pc = p, ![t].flushed = TRUE, ![t].reported = TRUE]
          /\ objects' = objects
          /\ p = "notify" => t \in Syslog
    BY <1>4 DEF FlushFiring, AfterEvaluation
  <2>2. /\ task'[t] = [task[t] EXCEPT !.pc = p, !.flushed = TRUE, !.reported = TRUE]
        /\ \A u \in Events \ {t} : task'[u] = task[u]
    BY <1>1, <2>1
  <2>3. task'[t] \in Task
    BY <1>1, <2>2, Zenon DEF Task, Places
  <2>4. task' \in [Events -> Task]
    BY <1>1, <2>1, <2>3
  <2>5. TypeOK'
    BY <1>0, <2>1, <2>4 DEF PipelineInv, TypeOK
  <2>6. /\ task'[t].evidence = task[t].evidence /\ task'[t].saved = task[t].saved
        /\ task'[t].target = task[t].target /\ task'[t].dirty = task[t].dirty
        /\ task'[t].pc = p
    BY <1>1, <2>2 DEF Task
  <2>7. PhaseOf(t, task'[t])
    BY <1>2, <2>1, <2>6 DEF PhaseOf, Uncounted
  <2>8. task[t].target = t \/ alerts[task[t].target] # NoAlert
    BY <1>4 DEF Vanished
  <2>9. QED
    BY <1>0, <1>2, <2>2, <2>5, <2>6, <2>7, <2>8, PrivateStep DEF Uncounted
<1>5. QED
  BY <1>3, <1>4

LEMMA NotifyKeeps ==
  ASSUME PipelineInv, NEW t \in Events, Notify(t)
  PROVE  PipelineInv'
<1>0. /\ UNCHANGED <<events, asset, alerts, counter, rule, objects, jobs, played>>
      /\ notified' \in {notified, notified \cup {t}} /\ unheard' \in {unheard, unheard \cup {t}}
      /\ faults' = faults \/ Fault
      /\ task[t].pc = "notify" /\ \E place \in {"commit", "closing"} : Goto(t, place)
  BY DEF Notify, At, database, engine
<1>1. task[t] \in Task /\ task \in [Events -> Task] /\ PhaseOf(t, task[t])
  BY DEF PipelineInv, TypeOK, Phases
<1>2. PICK place \in {"commit", "closing"} : Goto(t, place)
  BY <1>0
<1>3. [task[t] EXCEPT !.pc = place] \in Task
  BY <1>1, Zenon DEF Task, Places
<1>4. task' \in [Events -> Task]
  BY <1>1, <1>2, <1>3 DEF Goto
<1>5. TypeOK'
  BY <1>0, <1>4, PipelineAssumption DEF PipelineInv, TypeOK, Fault
<1>6. PhaseOf(t, [task[t] EXCEPT !.pc = place])
  BY <1>0, <1>1 DEF PhaseOf, Task, Uncounted
<1>7. QED
  BY <1>0, <1>2, <1>5, <1>6, GotoKeeps DEF Places, Uncounted

\* The row that the commit of t writes, and what becomes of its task.
RowWritten(t) ==
  [status |-> IF task[t].target = t THEN "open" ELSE alerts[task[t].target].status,
   hits |-> task[t].hits, ids |-> task[t].ids]

LEMMA CommitEffect ==
  ASSUME PipelineInv, NEW t \in Events, Commit(t)
  PROVE  /\ ~ task[t].saved /\ task[t].pc = "commit"
         /\ ~ task[t].dirty => alerts' = alerts
         /\ task[t].dirty =>
              /\ task[t].target \in Events
              /\ alerts[task[t].target] = NoAlert <=> task[t].target = t
              /\ RowWritten(t) \in Alert
              /\ alerts' = [alerts EXCEPT ![task[t].target] = RowWritten(t)]
         /\ alerts' \in [Events -> Alert \cup {NoAlert}]
         /\ task' \in [Events -> Task] /\ \A u \in Events \ {t} : task'[u] = task[u]
         /\ task'[t].pc = IF t \notin Syslog /\ task[t].reported THEN "dispatch" ELSE "closing"
         /\ task'[t].saved = task[t].dirty /\ ~ task'[t].flushed
         /\ task'[t].dirty = task[t].dirty /\ task'[t].reported = task[t].reported
         /\ task'[t].target = task[t].target /\ task'[t].evidence = task[t].evidence
         /\ task'[t].hits = task[t].hits /\ task'[t].ids = task[t].ids
<1>1. /\ task[t] \in Task /\ task \in [Events -> Task] /\ PhaseOf(t, task[t])
      /\ alerts \in [Events -> Alert \cup {NoAlert}]
  BY DEF PipelineInv, TypeOK, Phases
<1>2. task[t].pc = "commit" /\ ~ task[t].saved /\ (task[t].dirty => task[t].target \in Events)
  BY <1>1 DEF Commit, At, PhaseOf
<1>3. alerts[t] = NoAlert
  BY <1>2 DEF PipelineInv, Rows
<1>4. ASSUME task[t].dirty, task[t].target # t
      PROVE  alerts[task[t].target] # NoAlert
  BY <1>2, <1>4 DEF PipelineInv, Rows, Commit, Unwritable, Vanished
<1>5. ~ task[t].dirty => alerts' = alerts
  BY DEF Commit, Written
<1>6. task[t].dirty => alerts' = [alerts EXCEPT ![task[t].target] = RowWritten(t)]
  BY DEF Commit, Written, RowWritten
<1>7. task[t].dirty => RowWritten(t) \in Alert
  <2> SUFFICES ASSUME task[t].dirty
               PROVE  RowWritten(t) \in Alert
    OBVIOUS
  <2>1. (IF task[t].target = t THEN "open" ELSE alerts[task[t].target].status) \in {"open", "closed"}
    BY <1>1, <1>2, <1>4 DEF Alert
  <2>2. task[t].hits \in Nat /\ task[t].ids \in SUBSET Events
    BY <1>1 DEF Task
  <2>3. QED
    BY <2>1, <2>2 DEF RowWritten, Alert
<1> DEFINE p == IF t \notin Syslog /\ task[t].reported THEN "dispatch" ELSE "closing"
           k == [task[t] EXCEPT !.pc = p, !.flushed = FALSE, !.asset = FALSE]
           m == [k EXCEPT !.saved = task[t].dirty]
<1>8. task' = [task EXCEPT ![t] = m]
  BY Zenon DEF Commit, Ended
<1>9. p \in Places /\ task[t].dirty \in BOOLEAN
  BY <1>1 DEF Places, Task
<1>10. k \in Task
  BY <1>1, <1>9, Zenon DEF Task
<1> HIDE DEF k
<1>11. m \in Task
  BY <1>9, <1>10, Zenon DEF Task
<1> USE DEF k
<1>12. /\ m.pc = p /\ m.saved = task[t].dirty /\ m.flushed = FALSE
       /\ m.dirty = task[t].dirty /\ m.reported = task[t].reported
       /\ m.target = task[t].target /\ m.evidence = task[t].evidence
       /\ m.hits = task[t].hits /\ m.ids = task[t].ids
  BY <1>1 DEF Task
<1>13. /\ task' \in [Events -> Task] /\ task'[t] = m
       /\ \A u \in Events \ {t} : task'[u] = task[u]
  BY <1>1, <1>8, <1>11, TaskChanged
<1> HIDE DEF m, k
<1>14. alerts' \in [Events -> Alert \cup {NoAlert}]
  BY <1>1, <1>2, <1>5, <1>6, <1>7
<1>15. QED
  BY <1>2, <1>3, <1>4, <1>5, <1>6, <1>7, <1>12, <1>13, <1>14

LEMMA CommitKeeps ==
  ASSUME PipelineInv, NEW t \in Events, Commit(t)
  PROVE  PipelineInv'
<1>0. /\ UNCHANGED <<counter, rule, objects, jobs, notified, unheard, played, faults>>
      /\ events' = events \cup {t} /\ asset' \in BOOLEAN
      /\ task[t].dirty => ~ AlertLocked(task[t].target, t)
  BY DEF Commit, engine, outside, PipelineInv, TypeOK
<1>1. /\ task[t] \in Task /\ task \in [Events -> Task] /\ PhaseOf(t, task[t])
      /\ alerts \in [Events -> Alert \cup {NoAlert}] /\ counter \subseteq Events
  BY DEF PipelineInv, TypeOK, Phases
<1> DEFINE a == task[t].target
<1>c. /\ ~ task[t].saved
      /\ ~ task[t].dirty => alerts' = alerts
      /\ task[t].dirty =>
           /\ a \in Events
           /\ alerts[a] = NoAlert <=> a = t
           /\ RowWritten(t) \in Alert
           /\ alerts' = [alerts EXCEPT ![a] = RowWritten(t)]
      /\ alerts' \in [Events -> Alert \cup {NoAlert}]
  BY CommitEffect
<1>d. /\ task' \in [Events -> Task] /\ \A u \in Events \ {t} : task'[u] = task[u]
      /\ task'[t].target = a /\ task'[t].evidence = task[t].evidence
      /\ task'[t].pc \notin Uncounted /\ ~ task'[t].flushed
      /\ task'[t].saved <=> task[t].dirty
  BY CommitEffect DEF Uncounted
<1> HIDE DEF a
<1>2. TypeOK'
  BY <1>0, <1>c, <1>d DEF PipelineInv, TypeOK
<1>3. PhaseOf(t, task'[t])
  BY <1>1, CommitEffect DEF PhaseOf, Uncounted
<1>4. Phases'
  BY <1>3, <1>d DEF PipelineInv, Phases
<1>5. Rows'
  <2>1. ASSUME NEW b \in Events, alerts'[b] # NoAlert
        PROVE  task'[b].saved /\ task'[b].target = b
    <3>1. alerts[b] # NoAlert => b # t /\ task[b].saved /\ task[b].target = b
      BY <1>c DEF PipelineInv, Rows
    <3>2. b # t => alerts[b] # NoAlert
      BY <1>1, <1>c, <2>1
    <3>3. b = t => task[t].dirty /\ a = t
      BY <1>1, <1>c, <2>1, <3>1
    <3>4. QED
      BY <1>d, <3>1, <3>2, <3>3
  <2>2. ASSUME NEW b \in Events, alerts[b] # NoAlert
        PROVE  alerts'[b] # NoAlert
    BY <1>1, <1>c, <2>2, PipelineAssumption DEF Alert
  <2>3. \A u \in Events : task'[u].flushed =>
          task'[u].target = u \/ alerts'[task'[u].target] # NoAlert
    <3> SUFFICES ASSUME NEW u \in Events \ {t}, task[u].flushed, task[u].target # u
                 PROVE  alerts'[task[u].target] # NoAlert
      BY <1>d
    <3>1. task[u].target \in Events /\ alerts[task[u].target] # NoAlert
      BY DEF PipelineInv, Rows, Phases, PhaseOf
    <3>2. QED
      BY <2>2, <3>1
  <2>4. \A u \in Events : task'[u].saved => u \in events'
    BY <1>0, <1>d DEF PipelineInv, Rows
  <2>5. QED
    BY <2>1, <2>3, <2>4 DEF Rows
<1>6. Evidence'
  <2>1. \A u \in Events : /\ task'[u].evidence = task[u].evidence
                          /\ task[u].pc \notin Uncounted => task'[u].pc \notin Uncounted
    BY <1>d
  <2>2. QED
    BY <1>0, <1>1, <2>1 DEF PipelineInv, Evidence, EvidenceNotShared
<1>7. QED
  BY <1>2, <1>4, <1>5, <1>6 DEF PipelineInv

\* A session ends: its task keeps what it has found and written.
LEMMA EndedFields ==
  ASSUME NEW t \in Events, task[t] \in Task, NEW place \in Places
  PROVE  /\ Ended(t, place) \in Task
         /\ Ended(t, place).pc = place /\ ~ Ended(t, place).flushed
         /\ Ended(t, place).saved = task[t].saved /\ Ended(t, place).dirty = task[t].dirty
         /\ Ended(t, place).reported = task[t].reported
         /\ Ended(t, place).target = task[t].target
         /\ Ended(t, place).evidence = task[t].evidence
         /\ Ended(t, place).hits = task[t].hits /\ Ended(t, place).ids = task[t].ids
<1>1. Ended(t, place) \in Task
  BY Zenon DEF Ended, Task
<1>2. QED
  BY <1>1 DEF Ended, Task

LEMMA EndKeeps ==
  ASSUME PipelineInv, NEW t \in Events, NEW place \in Over,
         task' = [task EXCEPT ![t] = Ended(t, place)],
         objects' \in [Loads -> [owner : Events \cup {Nobody}, expired : BOOLEAN]],
         faults' \in 0..MaxFaults,
         UNCHANGED <<events, asset, alerts, counter, rule, jobs, notified, unheard, played>>,
         task[t].pc \notin Uncounted,
         task[t].saved => place # "failed"
  PROVE  PipelineInv'
<1>1. task[t] \in Task /\ task \in [Events -> Task] /\ PhaseOf(t, task[t]) /\ place \in Places
  BY DEF PipelineInv, TypeOK, Phases, Over, Places
<1>2. /\ task'[t] = Ended(t, place) /\ \A u \in Events \ {t} : task'[u] = task[u]
      /\ task' \in [Events -> Task]
  BY <1>1, TaskChanged, EndedFields
<1>3. TypeOK'
  BY <1>2 DEF PipelineInv, TypeOK
<1>4. PhaseOf(t, task'[t])
  BY <1>1, <1>2, EndedFields DEF PhaseOf, Uncounted, Over
<1>5. /\ ~ task'[t].flushed /\ task'[t].evidence = task[t].evidence /\ task'[t].pc = place
      /\ task'[t].saved = task[t].saved /\ task'[t].target = task[t].target
  BY <1>1, <1>2, EndedFields
<1>6. QED
  BY <1>2, <1>3, <1>4, <1>5, PrivateStep DEF Over, Uncounted

\* Closing and rolling back a session change what is known of its objects only.
LEMMA ObjectsType ==
  ASSUME TypeOK, NEW t \in Events
  PROVE  {Released(t), Expired(t), RolledBack(t)} \subseteq
           [Loads -> [owner : Events \cup {Nobody}, expired : BOOLEAN]]
<1>1. objects \in [Loads -> [owner : Events \cup {Nobody}, expired : BOOLEAN]]
  BY DEF TypeOK
<1>2. Released(t) \in [Loads -> [owner : Events \cup {Nobody}, expired : BOOLEAN]]
  BY <1>1 DEF Released
<1>3. Expired(t) \in [Loads -> [owner : Events \cup {Nobody}, expired : BOOLEAN]]
  BY <1>1 DEF Expired
<1>4. RolledBack(t) \in [Loads -> [owner : Events \cup {Nobody}, expired : BOOLEAN]]
  BY <1>1 DEF RolledBack
<1>5. QED
  BY <1>2, <1>3, <1>4

LEMMA FailCommitKeeps ==
  ASSUME PipelineInv, NEW t \in Events, FailCommit(t)
  PROVE  PipelineInv'
<1>1. /\ task[t] \in Task /\ PhaseOf(t, task[t]) /\ task[t].pc = "commit"
      /\ UNCHANGED <<events, asset, alerts, counter, rule, jobs, notified, unheard, played>>
  BY DEF PipelineInv, TypeOK, Phases, FailCommit, At, database, outside
<1>2. ~ task[t].saved /\ task[t].pc \notin Uncounted
  BY <1>1 DEF PhaseOf, Uncounted
<1>3. PICK place \in {"done", "failed"} : task' = [task EXCEPT ![t] = Ended(t, place)]
  BY DEF FailCommit
<1>4. faults' \in 0..MaxFaults
  BY PipelineAssumption DEF FailCommit, Fault, PipelineInv, TypeOK
<1>5. objects' \in {Released(t), RolledBack(t)}
  BY DEF FailCommit
<1>6. objects' \in [Loads -> [owner : Events \cup {Nobody}, expired : BOOLEAN]]
  BY <1>5, ObjectsType DEF PipelineInv
<1>7. QED
  BY <1>1, <1>2, <1>3, <1>4, <1>6, EndKeeps DEF Over

LEMMA CloseSessionKeeps ==
  ASSUME PipelineInv, NEW t \in Events, CloseSession(t)
  PROVE  PipelineInv'
<1>1. /\ task[t].pc = "closing" /\ task' = [task EXCEPT ![t] = Ended(t, "done")]
      /\ objects' = Released(t)
      /\ UNCHANGED <<events, asset, alerts, counter, rule, jobs, notified, unheard, played, faults>>
  BY DEF CloseSession, At, database, outside
<1>2. objects' \in [Loads -> [owner : Events \cup {Nobody}, expired : BOOLEAN]]
  BY <1>1, ObjectsType DEF PipelineInv
<1>3. faults' \in 0..MaxFaults
  BY <1>1 DEF PipelineInv, TypeOK
<1>4. QED
  BY <1>1, <1>2, <1>3, EndKeeps DEF Over, Uncounted

LEMMA DispatchKeeps ==
  ASSUME PipelineInv, NEW t \in Events, Dispatch(t)
  PROVE  PipelineInv'
<1>0. /\ UNCHANGED <<events, asset, alerts, counter, rule, objects, played>>
      /\ notified' \in {notified, notified \cup {t}} /\ unheard' \in {unheard, unheard \cup {t}}
      /\ faults' = faults \/ Fault
      /\ jobs' = jobs \cup {t} /\ Goto(t, "closing") /\ task[t].pc = "dispatch"
  BY DEF Dispatch, At, database, engine
<1>1. task[t] \in Task /\ task \in [Events -> Task] /\ PhaseOf(t, task[t])
  BY DEF PipelineInv, TypeOK, Phases
<1>2. [task[t] EXCEPT !.pc = "closing"] \in Task
  BY <1>1, Zenon DEF Task, Places
<1>3. task' \in [Events -> Task]
  BY <1>0, <1>1, <1>2 DEF Goto
<1>4. TypeOK'
  BY <1>0, <1>3, PipelineAssumption DEF PipelineInv, TypeOK, Fault
<1>5. PhaseOf(t, [task[t] EXCEPT !.pc = "closing"])
  BY <1>0, <1>1 DEF PhaseOf, Task, Uncounted
<1>6. QED
  BY <1>0, <1>4, <1>5, GotoKeeps DEF Places, Uncounted

LEMMA RunPlaybooksKeeps ==
  ASSUME PipelineInv, NEW t \in Events, RunPlaybooks(t)
  PROVE  PipelineInv'
<1>1. /\ UNCHANGED <<events, asset, alerts, counter, rule, objects, task, notified, unheard>>
      /\ jobs' \subseteq Events /\ played' \subseteq Events /\ (faults' = faults \/ Fault)
  BY DEF RunPlaybooks, database, engine, PipelineInv, TypeOK
<1>2. TypeOK'
  BY <1>1, PipelineAssumption DEF PipelineInv, TypeOK, Fault
<1>3. QED
  BY <1>1, <1>2 DEF PipelineInv, Phases, Rows, Evidence, EvidenceNotShared

LEMMA PurgeKeeps ==
  ASSUME PipelineInv, PurgeOldCounters
  PROVE  PipelineInv'
<1>1. /\ UNCHANGED <<events, asset, alerts, rule, objects, task, jobs, notified, unheard, played, faults>>
      /\ counter' \subseteq counter
  BY DEF PurgeOldCounters, database, outside
<1>2. TypeOK'
  BY <1>1 DEF PipelineInv, TypeOK
<1>3. QED
  BY <1>1, <1>2 DEF PipelineInv, Phases, Rows, Evidence, EvidenceNotShared

\* The analyst changes a row that no session has locked, or removes it.
LEMMA EditKeeps ==
  ASSUME PipelineInv, NEW a \in Events,
         (\E status \in {"open", "closed"} : UpdateStatus(a, status)) \/ DeleteAlert(a)
  PROVE  PipelineInv'
<1>1. /\ UNCHANGED <<events, asset, counter, rule, objects, task, jobs, notified, unheard, played, faults>>
      /\ alerts[a] # NoAlert /\ ~ AlertLocked(a, Nobody)
      /\ \/ \E status \in {"open", "closed"} : alerts' = [alerts EXCEPT ![a].status = status]
         \/ alerts' = [alerts EXCEPT ![a] = NoAlert]
  BY DEF UpdateStatus, DeleteAlert, engine, outside
<1>2. alerts \in [Events -> Alert \cup {NoAlert}]
  BY DEF PipelineInv, TypeOK
<1>3. /\ alerts' \in [Events -> Alert \cup {NoAlert}]
      /\ \A b \in Events \ {a} : alerts'[b] = alerts[b]
  BY <1>1, <1>2 DEF Alert
<1>4. TypeOK'
  BY <1>1, <1>3 DEF PipelineInv, TypeOK
<1>5. \A u \in Events : ~ (task[u].flushed /\ task[u].target = a)
  BY <1>1, PipelineAssumption DEF AlertLocked
<1>6. Rows'
  <2>1. \A b \in Events : alerts'[b] # NoAlert => task[b].saved /\ task[b].target = b
    BY <1>1, <1>3 DEF PipelineInv, Rows
  <2>2. ASSUME NEW u \in Events, task[u].flushed, task[u].target # u
        PROVE  alerts'[task[u].target] # NoAlert
    <3>1. task[u].target \in Events /\ alerts[task[u].target] # NoAlert
      BY <2>2 DEF PipelineInv, Rows, Phases, PhaseOf
    <3>2. QED
      BY <1>3, <1>5, <2>2, <3>1
  <2>3. QED
    BY <1>1, <2>1, <2>2 DEF PipelineInv, Rows
<1>7. QED
  BY <1>1, <1>4, <1>6 DEF PipelineInv, Phases, Evidence, EvidenceNotShared

LEMMA CrashKeeps ==
  ASSUME PipelineInv, Crash
  PROVE  PipelineInv'
<1>1. /\ UNCHANGED <<events, asset, alerts, notified, unheard, played>>
      /\ counter' = {} /\ rule' = 0 /\ objects' = FreshObjects /\ jobs' = {}
      /\ task' = [t \in Events |-> IF InFlight(t) THEN Ended(t, "crashed") ELSE task[t]]
  BY DEF Crash, database
<1>2. faults' \in 0..MaxFaults
  BY PipelineAssumption DEF Crash, Fault, PipelineInv, TypeOK
<1>3. task \in [Events -> Task] /\ \A t \in Events : task[t] \in Task /\ PhaseOf(t, task[t])
  BY DEF PipelineInv, TypeOK, Phases
<1>4. ASSUME NEW t \in Events
      PROVE  /\ task'[t] \in Task /\ PhaseOf(t, task'[t]) /\ ~ task'[t].flushed
             /\ task'[t].saved = task[t].saved /\ task'[t].target = task[t].target
             /\ task'[t].evidence = task[t].evidence
             /\ task[t].pc \notin Uncounted => task'[t].pc \notin Uncounted
  <2>1. CASE InFlight(t)
    <3>1. task'[t] = Ended(t, "crashed") /\ "crashed" \in Places
      BY <1>1, <2>1 DEF Places
    <3>2. /\ task'[t] \in Task
          /\ task'[t].pc = "crashed" /\ ~ task'[t].flushed
          /\ task'[t].saved = task[t].saved /\ task'[t].dirty = task[t].dirty
          /\ task'[t].reported = task[t].reported
          /\ task'[t].target = task[t].target
          /\ task'[t].evidence = task[t].evidence
      BY <1>3, <3>1, EndedFields
    <3>3. PhaseOf(t, task'[t])
      BY <1>3, <3>2 DEF PhaseOf, Uncounted
    <3>4. QED
      BY <3>2, <3>3 DEF Uncounted
  <2>2. CASE ~ InFlight(t)
    <3>1. task'[t] = task[t]
      BY <1>1, <2>2
    <3>2. ~ task[t].flushed
      BY <1>3, <2>2 DEF PhaseOf, InFlight, Over
    <3>3. QED
      BY <1>3, <3>1, <3>2
  <2>3. QED
    BY <2>1, <2>2
<1>5. TypeOK'
  <2>1. task' \in [Events -> Task]
    BY <1>1, <1>4
  <2>2. objects' \in [Loads -> [owner : Events \cup {Nobody}, expired : BOOLEAN]]
    BY <1>1 DEF FreshObjects
  <2>3. rule' \in Loads
    BY <1>1, PipelineAssumption DEF Loads
  <2>4. QED
    BY <1>1, <1>2, <2>1, <2>2, <2>3 DEF PipelineInv, TypeOK
<1>6. Phases'
  BY <1>4 DEF Phases
<1>7. Rows'
  BY <1>1, <1>4 DEF PipelineInv, Rows
<1>8. Evidence'
  BY <1>1, <1>4 DEF PipelineInv, Evidence, EvidenceNotShared
<1>9. QED
  BY <1>5, <1>6, <1>7, <1>8 DEF PipelineInv

LEMMA PipelineInvStep == PipelineInv /\ [Next]_vars => PipelineInv'
<1> SUFFICES ASSUME PipelineInv, [Next]_vars
             PROVE  PipelineInv'
  OBVIOUS
<1>1. CASE UNCHANGED vars
  BY <1>1 DEF vars, database, engine, outside, PipelineInv, TypeOK, Phases, Rows, Evidence,
              EvidenceNotShared
<1>2. ASSUME NEW t \in Events, StoreEvent(t) \/ StoreSyslogEvent(t) \/ Step(t) \/ RunPlaybooks(t)
      PROVE  PipelineInv'
  BY <1>2, StoreEventKeeps, StoreSyslogEventKeeps, UpsertAssetKeeps, EvaluateEventKeeps,
     EvaluateRuleKeeps, SelectAlertKeeps, ApplyFiringKeeps, FlushFiringKeeps, NotifyKeeps,
     CommitKeeps, FailCommitKeeps, DispatchKeeps, CloseSessionKeeps, RunPlaybooksKeeps DEF Step
<1>3. ASSUME NEW a \in Events,
             (\E status \in {"open", "closed"} : UpdateStatus(a, status)) \/ DeleteAlert(a)
      PROVE  PipelineInv'
  BY <1>3, EditKeeps
<1>4. QED
  BY <1>1, <1>2, <1>3, PurgeKeeps, CrashKeeps DEF Next

LEMMA PipelineAlways == Spec => []PipelineInv
BY PipelineInit, PipelineInvStep, PTL DEF Spec

\* Every variable keeps its shape, and a coroutine, its session and the rows it
\* writes agree with the place it has reached.
THEOREM PipelineTyped == Spec => []TypeOK
<1>1. PipelineInv => TypeOK
  BY DEF PipelineInv
<1>2. QED
  BY <1>1, PipelineAlways, PTL

\* One event is evidence for one alert at most, whatever sessions race, fail or
\* restart (correlation.py 126-140).
THEOREM EvidenceUsedOnce == Spec => []EvidenceNotShared
<1>1. PipelineInv => EvidenceNotShared
  BY DEF PipelineInv, Evidence
<1>2. QED
  BY <1>1, PipelineAlways, PTL

-----------------------------------------------------------------------------
(* What the alerts claim *)

\* What is saved stays, and nobody but the coroutine u itself touches what it
\* has read and is to write.
Undisturbed(u) ==
  /\ task'[u].saved <=> task[u].saved
  /\ task[u].saved => task'[u].target = task[u].target /\ task'[u].evidence = task[u].evidence
  /\ task'[u].pc = "apply" => task'[u] = task[u]
  /\ task'[u].dirty => /\ task[u].dirty
                       /\ task'[u].target = task[u].target /\ task'[u].evidence = task[u].evidence
                       /\ task'[u].hits = task[u].hits /\ task'[u].ids = task[u].ids

LEMMA GotoUndisturbed ==
  ASSUME PipelineInv, NEW t \in Events, NEW place, place # "apply", Goto(t, place)
  PROVE  \A u \in Events : Undisturbed(u)
<1>1. task[t] \in Task /\ task \in [Events -> Task]
  BY DEF PipelineInv, TypeOK
<1>2. task'[t] = [task[t] EXCEPT !.pc = place] /\ \A u \in Events \ {t} : task'[u] = task[u]
  BY <1>1 DEF Goto
<1>3. Undisturbed(t)
  BY <1>1, <1>2 DEF Undisturbed, Task
<1>4. QED
  BY <1>2, <1>3 DEF Undisturbed

LEMMA EndUndisturbed ==
  ASSUME PipelineInv, NEW t \in Events, NEW place \in Over,
         task' = [task EXCEPT ![t] = Ended(t, place)]
  PROVE  \A u \in Events : Undisturbed(u)
<1>1. task[t] \in Task /\ task \in [Events -> Task] /\ place \in Places /\ place # "apply"
  BY DEF PipelineInv, TypeOK, Over, Places
<1>2. /\ task'[t] = Ended(t, place) /\ \A u \in Events \ {t} : task'[u] = task[u]
  BY <1>1, TaskChanged, EndedFields
<1>3. Undisturbed(t)
  BY <1>1, <1>2, EndedFields DEF Undisturbed
<1>4. QED
  BY <1>2, <1>3 DEF Undisturbed

LEMMA UpsertAssetUndisturbed ==
  ASSUME PipelineInv, NEW t \in Events, UpsertAsset(t)
  PROVE  \A u \in Events : Undisturbed(u)
<1>1. task[t] \in Task /\ task \in [Events -> Task]
  BY DEF PipelineInv, TypeOK
<1>2. /\ \/ task'[t] = [task[t] EXCEPT !.pc = "correlate", !.broken = TRUE]
         \/ task'[t] = [task[t] EXCEPT !.pc = "correlate", !.asset = TRUE]
      /\ \A u \in Events \ {t} : task'[u] = task[u]
  BY <1>1 DEF UpsertAsset
<1>3. /\ task'[t].evidence = task[t].evidence /\ task'[t].saved = task[t].saved
      /\ task'[t].target = task[t].target /\ task'[t].dirty = task[t].dirty
      /\ task'[t].hits = task[t].hits /\ task'[t].ids = task[t].ids
      /\ task'[t].pc # "apply"
  BY <1>1, <1>2 DEF Task
<1>4. Undisturbed(t)
  BY <1>3 DEF Undisturbed
<1>5. QED
  BY <1>2, <1>4 DEF Undisturbed

LEMMA EvaluateEventUndisturbed ==
  ASSUME PipelineInv, NEW t \in Events, EvaluateEvent(t)
  PROVE  \A u \in Events : Undisturbed(u)
<1>1. task[t] \in Task /\ task \in [Events -> Task]
  BY DEF PipelineInv, TypeOK
<1>2. CASE \E place \in {"commit", "closing"} : Goto(t, place)
  BY <1>2, GotoUndisturbed
<1>3. ASSUME NEW r, task' = [task EXCEPT ![t].pc = "rule", ![t].rule = r]
      PROVE  \A u \in Events : Undisturbed(u)
  <2>1. /\ task'[t] = [task[t] EXCEPT !.pc = "rule", !.rule = r]
        /\ \A u \in Events \ {t} : task'[u] = task[u]
    BY <1>1, <1>3
  <2>2. Undisturbed(t)
    BY <1>1, <2>1 DEF Undisturbed, Task
  <2>3. QED
    BY <2>1, <2>2 DEF Undisturbed
<1>4. QED
  BY <1>2, <1>3 DEF EvaluateEvent, Leave, AfterEvaluation

LEMMA EvaluateRuleUndisturbed ==
  ASSUME PipelineInv, NEW t \in Events, EvaluateRule(t)
  PROVE  \A u \in Events : Undisturbed(u)
<1>1. task[t] \in Task /\ task \in [Events -> Task] /\ PhaseOf(t, task[t])
  BY DEF PipelineInv, TypeOK, Phases
<1>2. CASE \E place \in {"commit", "closing"} : Goto(t, place)
  BY <1>2, GotoUndisturbed
<1>3. ASSUME NEW E, task' = [task EXCEPT ![t].pc = "select", ![t].evidence = E]
      PROVE  \A u \in Events : Undisturbed(u)
  <2>1. /\ task'[t] = [task[t] EXCEPT !.pc = "select", !.evidence = E]
        /\ \A u \in Events \ {t} : task'[u] = task[u]
    BY <1>1, <1>3
  <2>2. ~ task[t].dirty /\ ~ task[t].saved
    BY <1>1 DEF EvaluateRule, At, PhaseOf, Uncounted
  <2>3. Undisturbed(t)
    BY <1>1, <2>1, <2>2 DEF Undisturbed, Task
  <2>4. QED
    BY <2>1, <2>3 DEF Undisturbed
<1>4. QED
  BY <1>2, <1>3 DEF EvaluateRule, Leave, AfterEvaluation

LEMMA FlushFiringUndisturbed ==
  ASSUME PipelineInv, NEW t \in Events, FlushFiring(t)
  PROVE  \A u \in Events : Undisturbed(u)
<1>1. task[t] \in Task /\ task \in [Events -> Task]
  BY DEF PipelineInv, TypeOK
<1>2. PICK p \in {"commit", "closing", "notify"} :
        \/ task' = [task EXCEPT ![t].pc = p, ![t].broken = TRUE]
        \/ task' = [task EXCEPT ![t].pc = p, ![t].flushed = TRUE, ![t].reported = TRUE]
  BY DEF FlushFiring, AfterEvaluation
<1>3. /\ \/ task'[t] = [task[t] EXCEPT !.pc = p, !.broken = TRUE]
         \/ task'[t] = [task[t] EXCEPT !.pc = p, !.flushed = TRUE, !.reported = TRUE]
      /\ \A u \in Events \ {t} : task'[u] = task[u]
  BY <1>1, <1>2
<1>4. /\ task'[t].evidence = task[t].evidence /\ task'[t].saved = task[t].saved
      /\ task'[t].target = task[t].target /\ task'[t].dirty = task[t].dirty
      /\ task'[t].hits = task[t].hits /\ task'[t].ids = task[t].ids
      /\ task'[t].pc # "apply"
  BY <1>1, <1>3 DEF Task
<1>5. Undisturbed(t)
  BY <1>4 DEF Undisturbed
<1>6. QED
  BY <1>3, <1>5 DEF Undisturbed

LEMMA CrashUndisturbed ==
  ASSUME PipelineInv, Crash
  PROVE  \A u \in Events : Undisturbed(u)
<1> SUFFICES ASSUME NEW u \in Events
             PROVE  Undisturbed(u)
  OBVIOUS
<1>1. task'[u] = IF InFlight(u) THEN Ended(u, "crashed") ELSE task[u]
  BY DEF Crash
<1>2. task[u] \in Task /\ "crashed" \in Places
  BY DEF PipelineInv, TypeOK, Places
<1>3. QED
  BY <1>1, <1>2, EndedFields DEF Undisturbed

\* The steps that leave the alerts and what is to be written to them alone.
Firing(t) == SelectAlert(t) \/ ApplyFiring(t) \/ Commit(t)

LEMMA OtherSteps ==
  ASSUME PipelineInv, [Next]_vars, ~ \E t \in Events : Firing(t)
  PROVE  /\ \A u \in Events : Undisturbed(u)
         /\ \A a \in Events : alerts'[a] # NoAlert =>
              alerts[a] # NoAlert /\ alerts'[a].hits = alerts[a].hits /\ alerts'[a].ids = alerts[a].ids
<1>1. CASE \E t \in Events :
             \/ StoreEvent(t) \/ StoreSyslogEvent(t) \/ UpsertAsset(t)
             \/ EvaluateEvent(t) \/ EvaluateRule(t) \/ FlushFiring(t)
             \/ Notify(t) \/ FailCommit(t) \/ Dispatch(t) \/ CloseSession(t)
  <2>1. PICK t \in Events :
             \/ StoreEvent(t) \/ StoreSyslogEvent(t) \/ UpsertAsset(t)
             \/ EvaluateEvent(t) \/ EvaluateRule(t) \/ FlushFiring(t)
             \/ Notify(t) \/ FailCommit(t) \/ Dispatch(t) \/ CloseSession(t)
    BY <1>1
  <2>2. alerts' = alerts
    BY <2>1 DEF StoreEvent, StoreSyslogEvent, UpsertAsset, EvaluateEvent, EvaluateRule, FlushFiring,
                Notify, FailCommit, Dispatch, CloseSession, database
  <2>3. CASE StoreEvent(t) \/ StoreSyslogEvent(t) \/ Notify(t) \/ Dispatch(t)
    <3>1. \E place \in {"correlate", "updateAsset", "insertAsset", "failed", "commit", "closing"} :
            Goto(t, place)
      BY <2>3 DEF StoreEvent, AssetStep, StoreSyslogEvent, Notify, Dispatch
    <3>2. QED
      BY <2>2, <3>1, GotoUndisturbed
  <2>4. CASE FailCommit(t) \/ CloseSession(t)
    <3>1. \E place \in Over : task' = [task EXCEPT ![t] = Ended(t, place)]
      BY <2>4 DEF FailCommit, CloseSession, Over
    <3>2. QED
      BY <2>2, <3>1, EndUndisturbed
  <2>5. QED
    BY <2>1, <2>2, <2>3, <2>4, UpsertAssetUndisturbed, EvaluateEventUndisturbed,
       EvaluateRuleUndisturbed, FlushFiringUndisturbed
<1>2. CASE UNCHANGED task /\ UNCHANGED alerts
  BY <1>2 DEF Undisturbed
<1>3. CASE Crash
  BY <1>3, CrashUndisturbed DEF Crash, database
<1>4. ASSUME NEW a \in Events,
             (\E status \in {"open", "closed"} : UpdateStatus(a, status)) \/ DeleteAlert(a)
      PROVE  /\ \A u \in Events : Undisturbed(u)
             /\ \A b \in Events : alerts'[b] # NoAlert =>
                  alerts[b] # NoAlert /\ alerts'[b].hits = alerts[b].hits /\ alerts'[b].ids = alerts[b].ids
  <2>1. /\ task' = task /\ alerts[a] # NoAlert
        /\ \/ \E status \in {"open", "closed"} : alerts' = [alerts EXCEPT ![a].status = status]
           \/ alerts' = [alerts EXCEPT ![a] = NoAlert]
    BY <1>4 DEF UpdateStatus, DeleteAlert
  <2>2. alerts \in [Events -> Alert \cup {NoAlert}]
    BY DEF PipelineInv, TypeOK
  <2>3. QED
    BY <2>1, <2>2 DEF Undisturbed, Alert
<1>5. QED
  BY <1>1, <1>2, <1>3, <1>4 DEF Next, Step, Firing, vars, database, RunPlaybooks, PurgeOldCounters

\* n hits with these ids on alert a are due to committed firings.
Backed(a, n, ids) ==
  /\ n <= Cardinality(HitsOn(a))
  /\ \A e \in ids : \E u \in HitsOn(a) : e \in task[u].evidence

\* What the rows hold and what a coroutine has read is backed; what it is to
\* write is backed but for its own firing.
Hits ==
  /\ \A a \in Events : alerts[a] # NoAlert => Backed(a, alerts[a].hits, alerts[a].ids)
  /\ \A t \in Events : task[t].pc = "apply" => Backed(task[t].target, task[t].hits, task[t].ids)
  /\ \A t \in Events : task[t].dirty /\ ~ task[t].saved =>
       Backed(task[t].target, task[t].hits - 1, task[t].ids \ task[t].evidence)

LEMMA HitsOnFinite ==
  ASSUME NEW a
  PROVE  /\ HitsOn(a) \subseteq Events /\ IsFiniteSet(HitsOn(a)) /\ Cardinality(HitsOn(a)) \in Nat
         /\ HitsOn(a)' \subseteq Events /\ IsFiniteSet(HitsOn(a)') /\ Cardinality(HitsOn(a)') \in Nat
<1>1. HitsOn(a) \subseteq Events /\ HitsOn(a)' \subseteq Events
  BY DEF HitsOn
<1>2. IsFiniteSet(HitsOn(a)) /\ IsFiniteSet(HitsOn(a)')
  BY <1>1, PipelineAssumption, FS_Subset
<1>3. QED
  BY <1>1, <1>2, FS_CardinalityType

\* What is backed stays backed while saved firings stay.
LEMMA BackedStays ==
  ASSUME \A u \in Events : task[u].saved =>
           task'[u].saved /\ task'[u].target = task[u].target /\ task'[u].evidence = task[u].evidence,
         NEW a, NEW n \in Int, NEW ids, Backed(a, n, ids)
  PROVE  Backed(a, n, ids)'
<1>1. HitsOn(a) \subseteq HitsOn(a)' /\ \A u \in HitsOn(a) : task'[u].evidence = task[u].evidence
  BY DEF HitsOn
<1>2. Cardinality(HitsOn(a)) <= Cardinality(HitsOn(a)')
  BY <1>1, HitsOnFinite, FS_Subset
<1>3. QED
  BY <1>1, <1>2, HitsOnFinite DEF Backed

\* A commit adds its firing to the alert it writes.
LEMMA BackedByCommit ==
  ASSUME PipelineInv, NEW t \in Events, Commit(t), task[t].dirty,
         NEW n \in Int, NEW ids,
         Backed(task[t].target, n - 1, ids \ task[t].evidence),
         NEW a, a = task[t].target
  PROVE  Backed(a, n, ids)'
<1>1. HitsOn(a)' = HitsOn(a) \cup {t} /\ t \notin HitsOn(a)
  BY CommitEffect DEF HitsOn
<1>2. Cardinality(HitsOn(a)') = Cardinality(HitsOn(a)) + 1
  BY <1>1, HitsOnFinite, FS_AddElement
<1>3. \A u \in HitsOn(a)' : task'[u].evidence = task[u].evidence
  BY HitsOnFinite, CommitEffect
<1>4. n <= Cardinality(HitsOn(a)')
  BY <1>2, HitsOnFinite DEF Backed
<1>5. \A e \in ids : \E u \in HitsOn(a)' : e \in task'[u].evidence
  BY <1>1, <1>3 DEF Backed
<1>6. QED
  BY <1>4, <1>5 DEF Backed

LEMMA HitsInit == Init => Hits
BY DEF Init, Hits, NewTask

LEMMA SavedStays ==
  ASSUME PipelineInv, [Next]_vars
  PROVE  \A u \in Events : task[u].saved =>
           task'[u].saved /\ task'[u].target = task[u].target /\ task'[u].evidence = task[u].evidence
<1>1. CASE ~ \E t \in Events : Firing(t)
  BY <1>1, OtherSteps DEF Undisturbed
<1>2. ASSUME NEW t \in Events, Commit(t)
      PROVE  \A u \in Events : task[u].saved =>
               task'[u].saved /\ task'[u].target = task[u].target /\ task'[u].evidence = task[u].evidence
  BY <1>2, CommitEffect
<1>3. ASSUME NEW t \in Events, SelectAlert(t) \/ ApplyFiring(t)
      PROVE  \A u \in Events : task[u].saved =>
               task'[u].saved /\ task'[u].target = task[u].target /\ task'[u].evidence = task[u].evidence
  <2>1. ~ task[t].saved
    BY <1>3 DEF PipelineInv, Phases, PhaseOf, SelectAlert, ApplyFiring, At
  <2>2. \A u \in Events \ {t} : task'[u] = task[u]
    BY <1>3 DEF SelectAlert, ApplyFiring, Leave, Goto, PipelineInv, TypeOK
  <2>3. QED
    BY <2>1, <2>2
<1>4. QED
  BY <1>1, <1>2, <1>3 DEF Firing

\* The parts of Hits for alerts and coroutines that a step leaves alone.
LEMMA HitsOfOthers ==
  ASSUME PipelineInv, Hits, [Next]_vars
  PROVE  /\ \A a \in Events :
              /\ alerts'[a] # NoAlert /\ alerts[a] # NoAlert
              /\ alerts'[a].hits = alerts[a].hits /\ alerts'[a].ids = alerts[a].ids
              => Backed(a, alerts[a].hits, alerts[a].ids)'
         /\ \A u \in Events : Undisturbed(u) =>
              /\ task'[u].pc = "apply" => Backed(task[u].target, task[u].hits, task[u].ids)'
              /\ task'[u].dirty /\ ~ task'[u].saved =>
                   Backed(task[u].target, task[u].hits - 1, task[u].ids \ task[u].evidence)'
<1>1. ASSUME NEW a \in Events,
             alerts'[a] # NoAlert, alerts[a] # NoAlert,
             alerts'[a].hits = alerts[a].hits, alerts'[a].ids = alerts[a].ids
      PROVE  Backed(a, alerts[a].hits, alerts[a].ids)'
  <2>1. PICK n \in Int, ids \in SUBSET Events : n = alerts[a].hits /\ ids = alerts[a].ids
    BY <1>1 DEF PipelineInv, TypeOK, Alert
  <2>2. Backed(a, n, ids)
    BY <1>1, <2>1 DEF Hits
  <2>3. Backed(a, n, ids)'
    BY <2>2, SavedStays, BackedStays
  <2>4. QED
    BY <1>1, <2>1, <2>3 DEF Backed
<1>2. ASSUME NEW u \in Events, Undisturbed(u), task'[u].pc = "apply"
      PROVE  Backed(task[u].target, task[u].hits, task[u].ids)'
  <2>0. /\ task[u].target \in Events \cup {Nobody} /\ task[u].hits \in Int
        /\ task[u].ids \in SUBSET Events
    BY DEF PipelineInv, TypeOK, Task
  <2>1. PICK a \in Events \cup {Nobody}, n \in Int, ids \in SUBSET Events :
          a = task[u].target /\ n = task[u].hits /\ ids = task[u].ids
    BY <2>0, Zenon
  <2>2. Backed(a, n, ids) /\ task'[u] = task[u]
    BY <1>2, <2>1 DEF Hits, Undisturbed
  <2>3. Backed(a, n, ids)'
    BY <2>2, SavedStays, BackedStays
  <2>4. QED
    BY <2>1, <2>2, <2>3
<1>3. ASSUME NEW u \in Events, Undisturbed(u), task'[u].dirty, ~ task'[u].saved
      PROVE  Backed(task[u].target, task[u].hits - 1, task[u].ids \ task[u].evidence)'
  <2>0. /\ task[u].target \in Events \cup {Nobody} /\ task[u].hits - 1 \in Int
        /\ task[u].ids \ task[u].evidence \in SUBSET Events
    BY DEF PipelineInv, TypeOK, Task
  <2>1. PICK a \in Events \cup {Nobody}, n \in Int, ids \in SUBSET Events :
          a = task[u].target /\ n = task[u].hits - 1 /\ ids = task[u].ids \ task[u].evidence
    BY <2>0, Zenon
  <2>2. Backed(a, n, ids)
    BY <1>3, <2>1 DEF Hits, Undisturbed
  <2>3. Backed(a, n, ids)'
    BY <2>2, SavedStays, BackedStays
  <2>4. /\ task'[u].target = a /\ task'[u].hits - 1 = n
        /\ task'[u].ids \ task'[u].evidence = ids
    BY <1>3, <2>1 DEF Undisturbed
  <2>5. QED
    BY <2>3, <2>4
<1>4. QED
  BY <1>1, <1>2, <1>3

LEMMA HitsStep == PipelineInv /\ Hits /\ [Next]_vars => Hits'
<1> SUFFICES ASSUME PipelineInv, Hits, [Next]_vars
             PROVE  Hits'
  OBVIOUS
<1>1. CASE ~ \E t \in Events : Firing(t)
  BY <1>1, OtherSteps, HitsOfOthers DEF Hits
<1>2. ASSUME NEW t \in Events, Commit(t)
      PROVE  Hits'
  <2>1. \A u \in Events \ {t} : Undisturbed(u)
    BY <1>2, CommitEffect DEF Undisturbed
  <2>2. task'[t].pc # "apply" /\ (task'[t].dirty => task'[t].saved)
    BY <1>2, CommitEffect
  <2>3. ASSUME NEW a \in Events, alerts'[a] # NoAlert
        PROVE  Backed(a, alerts[a].hits, alerts[a].ids)'
    <3>1. CASE task[t].dirty /\ a = task[t].target
      <4>1. PICK n \in Int, ids \in SUBSET Events : n = task[t].hits /\ ids = task[t].ids
        BY DEF PipelineInv, TypeOK, Task
      <4>2. Backed(task[t].target, n - 1, ids \ task[t].evidence)
        BY <1>2, <3>1, <4>1, CommitEffect DEF Hits
      <4>3. Backed(a, n, ids)'
        BY <1>2, <3>1, <4>2, BackedByCommit
      <4>4. alerts'[a].hits = n /\ alerts'[a].ids = ids
        <5>1. alerts \in [Events -> Alert \cup {NoAlert}]
          BY DEF PipelineInv, TypeOK
        <5>2. alerts' = [alerts EXCEPT ![a] = RowWritten(t)]
          BY <1>2, <3>1, CommitEffect
        <5>3. QED
          BY <4>1, <5>1, <5>2 DEF RowWritten
      <4>5. QED
        BY <4>3, <4>4
    <3>2. CASE ~ (task[t].dirty /\ a = task[t].target)
      <4>1. alerts'[a] = alerts[a]
        <5>1. alerts \in [Events -> Alert \cup {NoAlert}]
          BY DEF PipelineInv, TypeOK
        <5>2. QED
          BY <1>2, <3>2, <5>1, CommitEffect
      <4>2. QED
        BY <2>3, <4>1, HitsOfOthers
    <3>3. QED
      BY <3>1, <3>2
  <2>4. QED
    BY <2>1, <2>2, <2>3, HitsOfOthers DEF Hits
<1>3. ASSUME NEW t \in Events, SelectAlert(t)
      PROVE  Hits'
  <2>1. /\ task[t] \in Task /\ task \in [Events -> Task] /\ PhaseOf(t, task[t])
        /\ alerts' = alerts /\ task[t].pc = "select"
    BY <1>3 DEF PipelineInv, TypeOK, Phases, SelectAlert, At, database
  <2>2. CASE Leave(t)
    <3>1. \A u \in Events : Undisturbed(u)
      BY <2>2, GotoUndisturbed DEF Leave, AfterEvaluation
    <3>2. QED
      BY <2>1, <3>1, HitsOfOthers DEF Hits
  <2>3. ASSUME NEW k, task' = [task EXCEPT ![t] = k], k.pc = "apply", ~ k.dirty,
               k.hits \in Int, Backed(k.target, k.hits, k.ids)
        PROVE  Hits'
    <3>1. task'[t] = k /\ \A u \in Events \ {t} : task'[u] = task[u]
      BY <2>1, <2>3
    <3>2. \A u \in Events \ {t} : Undisturbed(u)
      BY <3>1 DEF Undisturbed
    <3>3. Backed(k.target, k.hits, k.ids)'
      BY <2>3, SavedStays, BackedStays
    <3>4. QED
      BY <2>1, <2>3, <3>1, <3>2, <3>3, HitsOfOthers DEF Hits
  <2>4. CASE task' = [task EXCEPT ![t] = [task[t] EXCEPT !.pc = "apply", !.target = t]]
    <3> DEFINE k == [task[t] EXCEPT !.pc = "apply", !.target = t]
    <3>1. k.pc = "apply" /\ k.target = t /\ ~ k.dirty /\ k.hits = 0 /\ k.ids = {}
      BY <2>1 DEF Task, PhaseOf
    <3> HIDE DEF k
    <3>2. Backed(k.target, k.hits, k.ids)
      BY <3>1, HitsOnFinite DEF Backed
    <3>3. task' = [task EXCEPT ![t] = k]
      BY <2>4 DEF k
    <3>4. k.hits \in Int
      BY <3>1
    <3>5. QED
      BY <2>3, <3>1, <3>2, <3>3, <3>4
  <2>5. ASSUME NEW a \in Events, alerts[a] # NoAlert, task' = [task EXCEPT ![t] = Loaded(t, a)]
        PROVE  Hits'
    <3> DEFINE k == Loaded(t, a)
    <3>1. k.pc = "apply" /\ k.target = a /\ ~ k.dirty /\ k.hits = alerts[a].hits /\ k.ids = alerts[a].ids
      BY <2>1 DEF Task, PhaseOf, Loaded
    <3>2. alerts[a].hits \in Int
      BY <2>5 DEF PipelineInv, TypeOK, Alert
    <3> HIDE DEF k
    <3>3. Backed(k.target, k.hits, k.ids)
      BY <2>5, <3>1 DEF Hits
    <3>4. task' = [task EXCEPT ![t] = k]
      BY <2>5 DEF k
    <3>5. QED
      BY <2>3, <3>1, <3>2, <3>3, <3>4
  <2>6. QED
    BY <1>3, <2>1, <2>2, <2>4, <2>5 DEF SelectAlert, Open
<1>4. ASSUME NEW t \in Events, ApplyFiring(t)
      PROVE  Hits'
  <2>1. /\ task[t] \in Task /\ task \in [Events -> Task] /\ PhaseOf(t, task[t])
        /\ alerts' = alerts /\ task[t].pc = "apply"
    BY <1>4 DEF PipelineInv, TypeOK, Phases, ApplyFiring, At, database
  <2>2. PICK p \in {"flush", "commit", "closing"}, d \in BOOLEAN :
           task' = [task EXCEPT ![t] =
             [task[t] EXCEPT !.pc = p, !.dirty = d,
                             !.hits = task[t].hits + 1, !.ids = task[t].ids \cup task[t].evidence]]
    BY <1>4, ApplyFiringEffect
  <2>3. /\ task'[t] = [task[t] EXCEPT !.pc = p, !.dirty = d,
                         !.hits = task[t].hits + 1, !.ids = task[t].ids \cup task[t].evidence]
        /\ \A u \in Events \ {t} : task'[u] = task[u]
    BY <2>1, <2>2
  <2>4. /\ task'[t].pc = p /\ task'[t].hits = task[t].hits + 1
        /\ task'[t].ids = task[t].ids \cup task[t].evidence
        /\ task'[t].target = task[t].target /\ task'[t].evidence = task[t].evidence
    BY <2>1, <2>3 DEF Task
  <2>5. PICK a \in Events \cup {Nobody}, n \in Int, ids \in SUBSET Events :
          a = task[t].target /\ n = task[t].hits /\ ids = task[t].ids \ task[t].evidence
    <3>1. /\ task[t].target \in Events \cup {Nobody} /\ task[t].hits \in Int
          /\ task[t].ids \ task[t].evidence \in SUBSET Events
      BY <2>1 DEF Task
    <3>2. QED
      BY <3>1, Zenon
  <2>6. Backed(a, n, ids)
    BY <2>1, <2>5 DEF Hits, Backed
  <2>7. Backed(a, n, ids)'
    BY <2>6, SavedStays, BackedStays
  <2>8. /\ task'[t].target = a /\ task'[t].hits - 1 = n
        /\ task'[t].ids \ task'[t].evidence = ids
    BY <2>1, <2>4, <2>5 DEF Task
  <2>9. \A u \in Events \ {t} : Undisturbed(u)
    BY <2>3 DEF Undisturbed
  <2>10. QED
    BY <2>1, <2>4, <2>7, <2>8, <2>9, HitsOfOthers DEF Hits
<1>5. QED
  BY <1>1, <1>2, <1>3, <1>4 DEF Firing

LEMMA HitsAlways == Spec => []Hits
<1>1. PipelineInv /\ Hits /\ [Next]_vars => Hits'
  BY HitsStep
<1>2. QED
  BY <1>1, HitsInit, PipelineAlways, PTL DEF Spec

\* An alert never claims hits that no committed firing gave it, and lists only
\* events of those firings (correlation.py 275-281), whichever sessions race or
\* roll back.
THEOREM HitsAreBacked == Spec => []HitsBacked
<1>1. Hits => HitsBacked
  BY DEF Hits, Backed, HitsBacked
<1>2. QED
  BY <1>1, HitsAlways, PTL

-----------------------------------------------------------------------------
(* Announcements and the analyst *)

LEMMA NotifiedStep == PipelineInv /\ NotifiedIsSaved /\ [Next]_vars => NotifiedIsSaved'
<1> SUFFICES ASSUME PipelineInv, NotifiedIsSaved, [Next]_vars, NEW u \in notified' \ Syslog
             PROVE  task'[u].saved /\ u \in events'
  BY DEF NotifiedIsSaved
<1>1. u \in notified \/ \E t \in Events : Notify(t) \/ Dispatch(t)
  BY DEF Next, Step, vars, outside, StoreEvent, StoreSyslogEvent, UpsertAsset, EvaluateEvent,
         EvaluateRule, SelectAlert, ApplyFiring, FlushFiring, Commit, FailCommit, CloseSession,
         RunPlaybooks, PurgeOldCounters, UpdateStatus, DeleteAlert, Crash
<1>2. task[u].saved /\ u \in events
  <2>1. CASE u \in notified
    BY <2>1 DEF NotifiedIsSaved
  <2>2. ASSUME NEW t \in Events, Notify(t), u \notin notified
        PROVE  FALSE
    BY <2>2 DEF Notify, At, PipelineInv, Phases, PhaseOf
  <2>3. ASSUME NEW t \in Events, Dispatch(t), u \notin notified
        PROVE  task[u].saved /\ u \in events
    BY <2>3 DEF Dispatch, At, PipelineInv, Phases, PhaseOf, Rows
  <2>4. QED
    BY <1>1, <2>1, <2>2, <2>3
<1>3. events \subseteq events'
  BY DEF Next, Step, vars, database, StoreEvent, StoreSyslogEvent, UpsertAsset, EvaluateEvent,
         EvaluateRule, SelectAlert, ApplyFiring, FlushFiring, Commit, FailCommit, CloseSession,
         RunPlaybooks, PurgeOldCounters, UpdateStatus, DeleteAlert, Crash, Notify, Dispatch
<1>4. notified \subseteq Events /\ events \subseteq Events
  BY DEF PipelineInv, TypeOK
<1>5. QED
  BY <1>2, <1>3, <1>4, SavedStays DEF PipelineInv, TypeOK

\* What store_event announces has been committed with its event
\* (event_store.py 199-204).
THEOREM AnnouncedIsSaved == Spec => []NotifiedIsSaved
<1>1. Init => NotifiedIsSaved
  BY DEF Init, NotifiedIsSaved
<1>2. QED
  BY <1>1, NotifiedStep, PipelineAlways, PTL DEF Spec

\* Ingestion never undoes an analyst's decision: a step that changes the status
\* of an alert moves no ingesting coroutine (correlation.py 275-281).
THEOREM StatusIsTheAnalysts == Spec => StatusBelongsToAnalyst
<1>1. ASSUME PipelineInv, [Next]_vars, NEW a \in Events,
             alerts[a] # NoAlert, alerts'[a] # NoAlert, alerts'[a].status # alerts[a].status
      PROVE  UNCHANGED task
  <2>1. alerts \in [Events -> Alert \cup {NoAlert}]
    BY <1>1 DEF PipelineInv, TypeOK
  <2>2. ASSUME NEW t \in Events, Commit(t)
        PROVE  FALSE
    <3>1. CASE task[t].dirty /\ task[t].target = a
      <4>1. task[t].target # t /\ alerts' = [alerts EXCEPT ![a] = RowWritten(t)]
        BY <1>1, <2>2, <3>1, CommitEffect
      <4>2. alerts'[a].status = alerts[a].status
        BY <2>1, <3>1, <4>1 DEF RowWritten
      <4>3. QED
        BY <1>1, <4>2
    <3>2. CASE ~ (task[t].dirty /\ task[t].target = a)
      BY <1>1, <2>1, <2>2, <3>2, CommitEffect
    <3>3. QED
      BY <3>1, <3>2
  <2>3. alerts' = alerts \/ task' = task \/ \E t \in Events : Commit(t)
    BY <1>1 DEF Next, Step, vars, database, StoreEvent, StoreSyslogEvent, UpsertAsset, EvaluateEvent,
         EvaluateRule, SelectAlert, ApplyFiring, FlushFiring, FailCommit, CloseSession,
         RunPlaybooks, PurgeOldCounters, UpdateStatus, DeleteAlert, Crash, Notify, Dispatch
  <2>4. QED
    BY <1>1, <2>2, <2>3
<1>2. PipelineInv /\ [Next]_vars =>
        [\A a \in Events :
           (alerts[a] # NoAlert /\ alerts'[a] # NoAlert /\ alerts'[a].status # alerts[a].status)
             => UNCHANGED task]_vars
  BY <1>1
<1>3. QED
  BY <1>2, PipelineAlways, PTL DEF Spec, StatusBelongsToAnalyst

-----------------------------------------------------------------------------
(* Serial sessions *)

\* What the coroutine k of event t, the only one in flight, found in the table
\* is still there when it writes.
FreshRead(t) ==
  LET k == task[t]
      writing == k.pc \in {"flush", "notify", "commit"} /\ k.dirty
  IN  /\ k.pc \in {"select", "apply"} => ~ RuleObject(t).expired
      /\ k.pc \in {"select", "apply"} \/ writing => Cardinality(k.evidence) >= Threshold
      /\ k.pc = "apply" =>
           \/ k.target = t /\ Open = {} /\ k.hits = 0 /\ k.ids = {}
           \/ k.target # t /\ k.target \in Open
              /\ k.hits = alerts[k.target].hits /\ k.ids = alerts[k.target].ids
      /\ writing =>
           \/ k.target = t /\ Open = {} /\ k.hits = 1 /\ k.ids = k.evidence
           \/ k.target # t /\ k.target \in Open
              /\ k.hits = alerts[k.target].hits + 1
              /\ k.ids = alerts[k.target].ids \cup k.evidence
      /\ writing /\ k.pc # "flush" => k.reported

\* One coroutine is in flight at most, the rule objects are its own or nobody's,
\* and what it saved it announces if it can look the rule up.
OneAtATime ==
  /\ \A t, u \in Events : InFlight(t) /\ InFlight(u) => t = u
  /\ \A g \in Loads : objects[g].owner # Nobody => InFlight(objects[g].owner)
  /\ \A t \in Events : FreshRead(t)
  /\ \A t \in Events \ Syslog :
       task[t].saved /\ task[t].pc \in {"closing", "done"} => t \in notified \cup unheard

LEMMA OneAtATimeInit == Init => OneAtATime
BY DEF Init, OneAtATime, InFlight, FreshRead, NewTask, FreshObjects

LEMMA OnlyActor ==
  ASSUME PipelineInv, OneAtATime, NEW t \in Events, InFlight(t)
  PROVE  /\ \A u \in Events \ {t} : ~ InFlight(u)
         /\ \A g \in Loads : objects[g].owner \in {Nobody, t}
<1>1. \A g \in Loads : objects[g].owner \in Events \cup {Nobody}
  BY DEF PipelineInv, TypeOK
<1>2. QED
  BY <1>1 DEF OneAtATime

\* What is left to show of a step of the coroutine of t when all others stand
\* still.
LEMMA ActorKeeps ==
  ASSUME OneAtATime, NEW t \in Events,
         \A u \in Events \ {t} : ~ InFlight(u) /\ task'[u] = task[u],
         (notified \cup unheard) \subseteq (notified \cup unheard)',
         FreshRead(t)',
         \A g \in Loads : objects'[g].owner = Nobody \/ (objects'[g].owner = t /\ InFlight(t)'),
         t \notin Syslog /\ task'[t].saved /\ task'[t].pc \in {"closing", "done"} => t \in (notified \cup unheard)'
  PROVE  OneAtATime'
<1>1. \A u \in Events \ {t} : ~ InFlight(u)'
  BY DEF InFlight
<1>2. \A u \in Events : FreshRead(u)'
  BY <1>1 DEF FreshRead, InFlight, Over
<1>3. \A u \in Events \ Syslog :
        task'[u].saved /\ task'[u].pc \in {"closing", "done"} => u \in (notified \cup unheard)'
  BY DEF OneAtATime
<1>4. QED
  BY <1>1, <1>2, <1>3 DEF OneAtATime

\* A step of t to a place that asks for nothing.
LEMMA CalmKeeps ==
  ASSUME PipelineInv, OneAtATime, NEW t \in Events,
         \A u \in Events \ {t} : ~ InFlight(u) /\ task'[u] = task[u],
         \A g \in Loads : objects[g].owner \in {Nobody, t},
         (notified \cup unheard) \subseteq (notified \cup unheard)',
         objects' = objects, InFlight(t)',
         task'[t].pc \notin {"select", "apply", "flush"},
         task'[t].pc \in {"notify", "commit"} => ~ task'[t].dirty,
         t \notin Syslog /\ task'[t].saved /\ task'[t].pc \in {"closing", "done"} => t \in (notified \cup unheard)'
  PROVE  OneAtATime'
<1>1. FreshRead(t)'
  BY DEF FreshRead
<1>2. QED
  BY <1>1, ActorKeeps

LEMMA SerialLeave ==
  ASSUME PipelineInv, OneAtATime, NEW t \in Events, Leave(t),
         task[t].pc \in {"correlate", "rule", "select"},
         objects' = objects, UNCHANGED <<notified, unheard>>
  PROVE  OneAtATime'
<1>1. PICK place \in {"commit", "closing"} : task'[t] = [task[t] EXCEPT !.pc = place]
  BY LeaveEffect
<1>2. task[t] \in Task /\ PhaseOf(t, task[t])
  BY DEF PipelineInv, TypeOK, Phases
<1>3. task'[t].pc = place /\ ~ task'[t].dirty /\ ~ task'[t].saved
  BY <1>1, <1>2 DEF Task, PhaseOf, Uncounted
<1>4. InFlight(t) /\ InFlight(t)'
  BY <1>3 DEF InFlight, Over
<1>5. \A u \in Events \ {t} : task'[u] = task[u]
  BY LeaveEffect
<1>6. QED
  BY <1>3, <1>4, <1>5, OnlyActor, CalmKeeps

LEMMA SerialStore ==
  ASSUME Serial, PipelineInv, OneAtATime, NEW t \in Events, StoreEvent(t) \/ StoreSyslogEvent(t)
  PROVE  OneAtATime'
<1>1. /\ task[t] \in Task /\ task \in [Events -> Task] /\ PhaseOf(t, task[t])
      /\ \A g \in Loads : objects[g].owner \in Events \cup {Nobody}
  BY DEF PipelineInv, TypeOK, Phases
<1>2. /\ \A u \in Events : ~ InFlight(u)
      /\ task[t].pc = "new" /\ objects' = objects /\ UNCHANGED <<notified, unheard>>
  BY DEF StoreEvent, StoreSyslogEvent, Quiet, At, engine, outside
<1>3. PICK place \in {"correlate", "updateAsset", "insertAsset", "failed"} : Goto(t, place)
  BY DEF StoreEvent, StoreSyslogEvent, AssetStep
<1>4. /\ task'[t] = [task[t] EXCEPT !.pc = place]
      /\ \A u \in Events \ {t} : task'[u] = task[u]
  BY <1>1, <1>3 DEF Goto
<1>5. task'[t].pc = place
  BY <1>1, <1>4 DEF Task
<1>6. FreshRead(t)'
  BY <1>5 DEF FreshRead
<1>7. \A g \in Loads : objects[g].owner = Nobody
  BY <1>1, <1>2 DEF OneAtATime
<1>8. QED
  BY <1>2, <1>4, <1>5, <1>6, <1>7, ActorKeeps

LEMMA SerialUpsert ==
  ASSUME PipelineInv, OneAtATime, NEW t \in Events, UpsertAsset(t)
  PROVE  OneAtATime'
<1>1. task[t] \in Task /\ task \in [Events -> Task] /\ PhaseOf(t, task[t])
  BY DEF PipelineInv, TypeOK, Phases
<1>2. /\ \/ task'[t] = [task[t] EXCEPT !.pc = "correlate", !.broken = TRUE]
         \/ task'[t] = [task[t] EXCEPT !.pc = "correlate", !.asset = TRUE]
      /\ \A u \in Events \ {t} : task'[u] = task[u]
      /\ task[t].pc \in {"updateAsset", "insertAsset"}
      /\ objects' = objects /\ UNCHANGED <<notified, unheard>>
  BY <1>1 DEF UpsertAsset, At, engine, outside
<1>3. task'[t].pc = "correlate"
  BY <1>1, <1>2 DEF Task
<1>4. InFlight(t) /\ InFlight(t)'
  BY <1>2, <1>3 DEF InFlight, Over
<1>5. QED
  BY <1>2, <1>3, <1>4, OnlyActor, CalmKeeps

LEMMA SerialEvaluateEvent ==
  ASSUME PipelineInv, OneAtATime, NEW t \in Events, EvaluateEvent(t)
  PROVE  OneAtATime'
<1>1. /\ task[t] \in Task /\ task \in [Events -> Task] /\ PhaseOf(t, task[t])
      /\ objects \in [Loads -> [owner : Events \cup {Nobody}, expired : BOOLEAN]]
  BY DEF PipelineInv, TypeOK, Phases
<1>2. task[t].pc = "correlate" /\ UNCHANGED <<notified, unheard>>
  BY DEF EvaluateEvent, At, outside
<1>3. CASE Leave(t) /\ objects' = objects
  BY <1>2, <1>3, SerialLeave
<1>4. ASSUME NEW r, task' = [task EXCEPT ![t].pc = "rule", ![t].rule = r],
             objects' \in {objects, [objects EXCEPT ![r] = [owner |-> t, expired |-> FALSE]]}
      PROVE  OneAtATime'
  <2>1. /\ task'[t] = [task[t] EXCEPT !.pc = "rule", !.rule = r]
        /\ \A u \in Events \ {t} : task'[u] = task[u]
    BY <1>1, <1>4
  <2>2. task'[t].pc = "rule"
    BY <1>1, <2>1 DEF Task
  <2>3. InFlight(t) /\ InFlight(t)'
    BY <1>2, <2>2 DEF InFlight, Over
  <2>4. \A g \in Loads : objects'[g].owner \in {Nobody, t}
    BY <1>1, <1>4, <2>3, OnlyActor
  <2>5. FreshRead(t)'
    BY <2>2 DEF FreshRead
  <2>6. QED
    BY <1>2, <2>1, <2>2, <2>3, <2>4, <2>5, OnlyActor, ActorKeeps
<1>5. QED
  BY <1>3, <1>4 DEF EvaluateEvent, engine

LEMMA SerialEvaluateRule ==
  ASSUME PipelineInv, OneAtATime, NEW t \in Events, EvaluateRule(t)
  PROVE  OneAtATime'
<1>1. task[t] \in Task /\ task \in [Events -> Task] /\ PhaseOf(t, task[t])
  BY DEF PipelineInv, TypeOK, Phases
<1>2. task[t].pc = "rule" /\ objects' = objects /\ UNCHANGED <<notified, unheard>>
  BY DEF EvaluateRule, At, outside
<1>3. CASE Leave(t)
  BY <1>2, <1>3, SerialLeave
<1>4. CASE /\ ~ RuleObject(t).expired
           /\ Cardinality(counter \cup {t}) >= Threshold
           /\ task' = [task EXCEPT ![t].pc = "select", ![t].evidence = counter \cup {t}]
  <2>1. /\ task'[t] = [task[t] EXCEPT !.pc = "select", !.evidence = counter \cup {t}]
        /\ \A u \in Events \ {t} : task'[u] = task[u]
    BY <1>1, <1>4
  <2>2. /\ task'[t].pc = "select" /\ task'[t].evidence = counter \cup {t}
        /\ task'[t].rule = task[t].rule
    BY <1>1, <2>1 DEF Task
  <2>3. InFlight(t) /\ InFlight(t)'
    BY <1>2, <2>2 DEF InFlight, Over
  <2>4. ~ RuleObject(t)'.expired
    BY <1>2, <1>4, <2>2 DEF RuleObject
  <2>5. FreshRead(t)'
    BY <1>4, <2>2, <2>4 DEF FreshRead
  <2>6. QED
    BY <1>2, <2>1, <2>2, <2>3, <2>5, OnlyActor, ActorKeeps
<1>5. QED
  BY <1>3, <1>4 DEF EvaluateRule, RuleObject

LEMMA SerialSelect ==
  ASSUME PipelineInv, OneAtATime, NEW t \in Events, SelectAlert(t)
  PROVE  OneAtATime'
<1>1. task[t] \in Task /\ task \in [Events -> Task] /\ PhaseOf(t, task[t])
  BY DEF PipelineInv, TypeOK, Phases
<1>2. task[t].pc = "select" /\ objects' = objects /\ UNCHANGED <<notified, unheard>> /\ alerts' = alerts
  BY DEF SelectAlert, At, outside, engine, database
<1>3. CASE Leave(t)
  BY <1>2, <1>3, SerialLeave
<1>4. ASSUME NEW k, task' = [task EXCEPT ![t] = k],
             k.pc = "apply", k.rule = task[t].rule, k.evidence = task[t].evidence,
             \/ k.target = t /\ Open = {} /\ k.hits = 0 /\ k.ids = {}
             \/ k.target # t /\ k.target \in Open
                /\ k.hits = alerts[k.target].hits /\ k.ids = alerts[k.target].ids
      PROVE  OneAtATime'
  <2>1. task'[t] = k /\ \A u \in Events \ {t} : task'[u] = task[u]
    BY <1>1, <1>4
  <2>2. InFlight(t) /\ InFlight(t)'
    BY <1>2, <1>4, <2>1 DEF InFlight, Over
  <2>3. ~ RuleObject(t).expired /\ Cardinality(task[t].evidence) >= Threshold
    BY <1>2 DEF OneAtATime, FreshRead
  <2>4. Open' = Open /\ RuleObject(t)' = RuleObject(t)
    BY <1>2, <1>4, <2>1 DEF Open, RuleObject
  <2>5. FreshRead(t)'
    BY <1>2, <1>4, <2>1, <2>3, <2>4 DEF FreshRead
  <2>6. QED
    BY <1>2, <1>4, <2>1, <2>2, <2>5, OnlyActor, ActorKeeps
<1>5. CASE Open = {} /\ task' = [task EXCEPT ![t] = [task[t] EXCEPT !.pc = "apply", !.target = t]]
  <2> DEFINE k == [task[t] EXCEPT !.pc = "apply", !.target = t]
  <2>1. /\ k.pc = "apply" /\ k.target = t /\ k.hits = 0 /\ k.ids = {}
        /\ k.rule = task[t].rule /\ k.evidence = task[t].evidence
    BY <1>1, <1>2 DEF Task, PhaseOf
  <2> HIDE DEF k
  <2>2. task' = [task EXCEPT ![t] = k]
    BY <1>5 DEF k
  <2>3. QED
    BY <1>4, <1>5, <2>1, <2>2
<1>6. ASSUME NEW a \in Open, task' = [task EXCEPT ![t] = Loaded(t, a)]
      PROVE  OneAtATime'
  <2>1. a # t
    BY <1>1, <1>2 DEF Open, PipelineInv, Rows, PhaseOf
  <2> DEFINE k == Loaded(t, a)
  <2>2. /\ k.pc = "apply" /\ k.target = a /\ k.hits = alerts[a].hits /\ k.ids = alerts[a].ids
        /\ k.rule = task[t].rule /\ k.evidence = task[t].evidence
    BY <1>1 DEF Task, Loaded
  <2> HIDE DEF k
  <2>3. task' = [task EXCEPT ![t] = k]
    BY <1>6 DEF k
  <2>4. QED
    BY <1>4, <1>6, <2>1, <2>2, <2>3
<1>7. QED
  BY <1>1, <1>3, <1>5, <1>6 DEF SelectAlert

LEMMA SerialApply ==
  ASSUME PipelineInv, OneAtATime, NEW t \in Events, ApplyFiring(t)
  PROVE  OneAtATime'
<1>1. /\ task[t] \in Task /\ task \in [Events -> Task] /\ PhaseOf(t, task[t])
      /\ objects \in [Loads -> [owner : Events \cup {Nobody}, expired : BOOLEAN]]
  BY DEF PipelineInv, TypeOK, Phases
<1>2. task[t].pc = "apply" /\ UNCHANGED <<notified, unheard>> /\ alerts' = alerts
  BY DEF ApplyFiring, At, outside, database
<1>3. InFlight(t)
  BY <1>2 DEF InFlight, Over
<1>4. task[t].rule \in Loads
  BY <1>1 DEF Task
<1>5. CanAdd(t)
  BY <1>2, <1>3, <1>4, OnlyActor DEF CanAdd, RuleObject, OneAtATime, FreshRead
<1>6. PICK d \in BOOLEAN :
        /\ task' = [task EXCEPT ![t] =
             [task[t] EXCEPT !.pc = "flush", !.dirty = d,
                             !.hits = task[t].hits + 1, !.ids = task[t].ids \cup task[t].evidence]]
        /\ objects' = [objects EXCEPT ![task[t].rule].owner = t]
  BY <1>5, ApplyFiringEffect
<1>7. /\ task'[t] = [task[t] EXCEPT !.pc = "flush", !.dirty = d,
                       !.hits = task[t].hits + 1, !.ids = task[t].ids \cup task[t].evidence]
      /\ \A u \in Events \ {t} : task'[u] = task[u]
  BY <1>1, <1>6
<1>8. /\ task'[t].pc = "flush" /\ task'[t].hits = task[t].hits + 1
      /\ task'[t].ids = task[t].ids \cup task[t].evidence
      /\ task'[t].target = task[t].target /\ task'[t].evidence = task[t].evidence
  BY <1>1, <1>7 DEF Task
<1>9. InFlight(t)'
  BY <1>8 DEF InFlight, Over
<1>10. \A g \in Loads : objects'[g].owner \in {Nobody, t}
  BY <1>1, <1>3, <1>6, OnlyActor
<1>11. Open' = Open
  BY <1>2 DEF Open
<1>12. FreshRead(t)'
  <2>1. /\ Cardinality(task[t].evidence) >= Threshold
        /\ \/ task[t].target = t /\ Open = {} /\ task[t].hits = 0 /\ task[t].ids = {}
           \/ task[t].target # t /\ task[t].target \in Open
              /\ task[t].hits = alerts[task[t].target].hits /\ task[t].ids = alerts[task[t].target].ids
    BY <1>2 DEF OneAtATime, FreshRead
  <2>2. QED
    BY <1>2, <1>8, <1>11, <2>1 DEF FreshRead
<1>13. QED
  BY <1>2, <1>3, <1>7, <1>8, <1>9, <1>10, <1>12, OnlyActor, ActorKeeps

LEMMA SerialFlush ==
  ASSUME PipelineInv, OneAtATime, NEW t \in Events, FlushFiring(t)
  PROVE  OneAtATime'
<1>1. task[t] \in Task /\ task \in [Events -> Task] /\ PhaseOf(t, task[t])
  BY DEF PipelineInv, TypeOK, Phases
<1>2. task[t].pc = "flush" /\ task[t].dirty /\ UNCHANGED <<notified, unheard>> /\ alerts' = alerts
  BY <1>1 DEF FlushFiring, At, outside, database, PhaseOf
<1>3. ~ Vanished(t)
  BY <1>2 DEF Vanished, OneAtATime, FreshRead, Open
<1>4. PICK p \in {"commit", "notify"} :
        /\ task' = [task EXCEPT ![t].pc = p, ![t].flushed = TRUE, ![t].reported = TRUE]
        /\ objects' = objects
  BY <1>3 DEF FlushFiring, AfterEvaluation
<1>5. /\ task'[t] = [task[t] EXCEPT !.pc = p, !.flushed = TRUE, !.reported = TRUE]
      /\ \A u \in Events \ {t} : task'[u] = task[u]
  BY <1>1, <1>4
<1>6. /\ task'[t].pc = p /\ task'[t].reported
      /\ task'[t].hits = task[t].hits /\ task'[t].ids = task[t].ids
      /\ task'[t].target = task[t].target /\ task'[t].evidence = task[t].evidence
  BY <1>1, <1>5 DEF Task
<1>7. InFlight(t) /\ InFlight(t)'
  BY <1>2, <1>6 DEF InFlight, Over
<1>8. Open' = Open
  BY <1>2 DEF Open
<1>9. FreshRead(t)'
  <2>1. /\ Cardinality(task[t].evidence) >= Threshold
        /\ \/ task[t].target = t /\ Open = {} /\ task[t].hits = 1 /\ task[t].ids = task[t].evidence
           \/ task[t].target # t /\ task[t].target \in Open
              /\ task[t].hits = alerts[task[t].target].hits + 1
              /\ task[t].ids = alerts[task[t].target].ids \cup task[t].evidence
    BY <1>2 DEF OneAtATime, FreshRead
  <2>2. QED
    BY <1>2, <1>6, <1>8, <2>1 DEF FreshRead
<1>10. QED
  BY <1>2, <1>4, <1>5, <1>6, <1>7, <1>9, OnlyActor, ActorKeeps

LEMMA SerialNotify ==
  ASSUME PipelineInv, OneAtATime, NEW t \in Events, Notify(t)
  PROVE  OneAtATime'
<1>1. task[t] \in Task /\ task \in [Events -> Task] /\ PhaseOf(t, task[t])
  BY DEF PipelineInv, TypeOK, Phases
<1>2. /\ task[t].pc = "notify" /\ objects' = objects /\ alerts' = alerts
      /\ notified \cup unheard \subseteq (notified \cup unheard)'
      /\ \E place \in {"commit", "closing"} : task' = [task EXCEPT ![t].pc = place]
  BY DEF Notify, At, Goto, engine, database
<1>3. PICK place \in {"commit", "closing"} : task' = [task EXCEPT ![t].pc = place]
  BY <1>2
<1>4. /\ task'[t] = [task[t] EXCEPT !.pc = place]
      /\ \A u \in Events \ {t} : task'[u] = task[u]
  BY <1>1, <1>3
<1>5. /\ task'[t].pc \in {"commit", "closing"} /\ task'[t].reported = task[t].reported
      /\ task'[t].dirty = task[t].dirty
      /\ task'[t].hits = task[t].hits /\ task'[t].ids = task[t].ids
      /\ task'[t].target = task[t].target /\ task'[t].evidence = task[t].evidence
  BY <1>1, <1>3, <1>4 DEF Task
<1>6. InFlight(t) /\ InFlight(t)'
  BY <1>2, <1>5 DEF InFlight, Over
<1>7. Open' = Open
  BY <1>2 DEF Open
<1>8. FreshRead(t)'
  <2> SUFFICES ASSUME task[t].dirty, task'[t].pc = "commit"
               PROVE  FreshRead(t)'
    BY <1>5 DEF FreshRead
  <2>1. /\ Cardinality(task[t].evidence) >= Threshold /\ task[t].reported
        /\ \/ task[t].target = t /\ Open = {} /\ task[t].hits = 1 /\ task[t].ids = task[t].evidence
           \/ task[t].target # t /\ task[t].target \in Open
              /\ task[t].hits = alerts[task[t].target].hits + 1
              /\ task[t].ids = alerts[task[t].target].ids \cup task[t].evidence
    BY <1>2 DEF OneAtATime, FreshRead
  <2>2. QED
    BY <1>2, <1>5, <1>7, <2>1 DEF FreshRead
<1>9. \A g \in Loads : objects'[g].owner = Nobody \/ (objects'[g].owner = t /\ InFlight(t)')
  BY <1>2, <1>6, OnlyActor
<1>10. t \in Syslog
  BY <1>1, <1>2 DEF PhaseOf
<1>11. QED
  BY <1>2, <1>4, <1>6, <1>8, <1>9, <1>10, OnlyActor, ActorKeeps

LEMMA SerialCommit ==
  ASSUME PipelineInv, OneAtATime, NEW t \in Events, Commit(t)
  PROVE  OneAtATime'
<1>1. objects' = objects /\ UNCHANGED <<notified, unheard>>
  BY DEF Commit, engine, outside
<1>2. /\ task[t].pc = "commit"
      /\ \A u \in Events \ {t} : task'[u] = task[u]
      /\ task'[t].pc = IF t \notin Syslog /\ task[t].reported THEN "dispatch" ELSE "closing"
  BY CommitEffect
<1>3. task'[t].saved <=> task[t].dirty
  BY CommitEffect
<1>4. task[t].dirty => task[t].reported
  BY <1>2 DEF OneAtATime, FreshRead
<1>5. InFlight(t) /\ InFlight(t)'
  BY <1>2 DEF InFlight, Over
<1>6. QED
  BY <1>1, <1>2, <1>3, <1>4, <1>5, OnlyActor, CalmKeeps

LEMMA SerialFailCommit ==
  ASSUME PipelineInv, OneAtATime, NEW t \in Events, FailCommit(t)
  PROVE  OneAtATime'
<1>1. /\ task[t] \in Task /\ task \in [Events -> Task] /\ PhaseOf(t, task[t])
      /\ objects \in [Loads -> [owner : Events \cup {Nobody}, expired : BOOLEAN]]
  BY DEF PipelineInv, TypeOK, Phases
<1>2. /\ task[t].pc = "commit" /\ UNCHANGED <<notified, unheard>>
      /\ objects' \in {Released(t), RolledBack(t)}
      /\ \E place \in {"done", "failed"} : task' = [task EXCEPT ![t] = Ended(t, place)]
  BY DEF FailCommit, At, outside
<1>3. PICK place \in {"done", "failed"} : task' = [task EXCEPT ![t] = Ended(t, place)]
  BY <1>2
<1>4. task'[t] = Ended(t, place) /\ \A u \in Events \ {t} : task'[u] = task[u]
  BY <1>1, <1>3
<1>5. task'[t].pc = place /\ ~ task'[t].saved
  BY <1>1, <1>2, <1>4, EndedFields DEF Places, PhaseOf
<1>6. InFlight(t)
  BY <1>2 DEF InFlight, Over
<1>7. \A g \in Loads : objects'[g].owner = Nobody
  BY <1>1, <1>2, <1>6, OnlyActor DEF Released, RolledBack
<1>8. FreshRead(t)'
  BY <1>5 DEF FreshRead
<1>9. QED
  BY <1>2, <1>4, <1>5, <1>6, <1>7, <1>8, OnlyActor, ActorKeeps

LEMMA SerialDispatch ==
  ASSUME PipelineInv, OneAtATime, NEW t \in Events, Dispatch(t)
  PROVE  OneAtATime'
<1>1. task[t] \in Task /\ task \in [Events -> Task]
  BY DEF PipelineInv, TypeOK
<1>2. /\ task[t].pc = "dispatch" /\ objects' = objects
      /\ notified \cup unheard \subseteq (notified \cup unheard)'
      /\ t \in (notified \cup unheard)'
      /\ task'[t] = [task[t] EXCEPT !.pc = "closing"]
      /\ \A u \in Events \ {t} : task'[u] = task[u]
  BY <1>1 DEF Dispatch, At, Goto, engine
<1>3. task'[t].pc = "closing"
  BY <1>1, <1>2 DEF Task
<1>4. InFlight(t) /\ InFlight(t)'
  BY <1>2, <1>3 DEF InFlight, Over
<1>5. QED
  BY <1>2, <1>3, <1>4, OnlyActor, CalmKeeps

LEMMA SerialClose ==
  ASSUME PipelineInv, OneAtATime, NEW t \in Events, CloseSession(t)
  PROVE  OneAtATime'
<1>1. /\ task[t] \in Task /\ task \in [Events -> Task]
      /\ objects \in [Loads -> [owner : Events \cup {Nobody}, expired : BOOLEAN]]
  BY DEF PipelineInv, TypeOK
<1>2. /\ task[t].pc = "closing" /\ objects' = Released(t) /\ UNCHANGED <<notified, unheard>>
      /\ task'[t] = Ended(t, "done") /\ \A u \in Events \ {t} : task'[u] = task[u]
  BY <1>1 DEF CloseSession, At, outside
<1>3. task'[t].pc = "done" /\ task'[t].saved = task[t].saved
  BY <1>1, <1>2, EndedFields DEF Places
<1>4. InFlight(t)
  BY <1>2 DEF InFlight, Over
<1>5. \A g \in Loads : objects'[g].owner = Nobody
  BY <1>1, <1>2, <1>4, OnlyActor DEF Released
<1>6. FreshRead(t)'
  BY <1>3 DEF FreshRead
<1>7. t \notin Syslog /\ task'[t].saved => t \in notified \cup unheard
  BY <1>2, <1>3 DEF OneAtATime
<1>8. QED
  BY <1>2, <1>3, <1>4, <1>5, <1>6, <1>7, OnlyActor, ActorKeeps

\* Nothing but the alerts changes, and no coroutine is in flight; or the alerts
\* and the sessions stay as they are.
LEMMA SerialOthers ==
  ASSUME OneAtATime, task' = task, objects' = objects, UNCHANGED <<notified, unheard>>,
         alerts' = alerts \/ \A t \in Events : ~ InFlight(t)
  PROVE  OneAtATime'
<1>1. \A t : InFlight(t)' <=> InFlight(t)
  BY DEF InFlight
<1>2. ASSUME NEW t \in Events
      PROVE  FreshRead(t)'
  <2>1. CASE alerts' = alerts
    BY <2>1 DEF OneAtATime, FreshRead, Open, RuleObject
  <2>2. CASE ~ InFlight(t)
    BY <2>2 DEF FreshRead, InFlight, Over
  <2>3. QED
    BY <2>1, <2>2
<1>3. (\A g \in Loads : objects[g].owner # Nobody => InFlight(objects[g].owner))'
  BY DEF OneAtATime, InFlight
<1>4. (\A t, u \in Events : InFlight(t) /\ InFlight(u) => t = u)'
  BY <1>1 DEF OneAtATime
<1>5. (\A t \in Events \ Syslog :
         task[t].saved /\ task[t].pc \in {"closing", "done"} => t \in notified \cup unheard)'
  BY DEF OneAtATime
<1>6. QED
  BY <1>2, <1>3, <1>4, <1>5 DEF OneAtATime

LEMMA SerialCrash ==
  ASSUME PipelineInv, OneAtATime, Crash
  PROVE  OneAtATime'
<1>1. /\ UNCHANGED <<notified, unheard>> /\ objects' = FreshObjects
      /\ task' = [t \in Events |-> IF InFlight(t) THEN Ended(t, "crashed") ELSE task[t]]
  BY DEF Crash
<1>2. ASSUME NEW t \in Events
      PROVE  task'[t].pc = "crashed" \/ (~ InFlight(t) /\ task'[t] = task[t])
  <2>1. task[t] \in Task /\ "crashed" \in Places
    BY DEF PipelineInv, TypeOK, Places
  <2>2. QED
    BY <1>1, <2>1, EndedFields
<1>3. \A t \in Events : ~ InFlight(t)' /\ FreshRead(t)'
  BY <1>2 DEF InFlight, Over, FreshRead
<1>4. \A g \in Loads : objects'[g].owner = Nobody
  BY <1>1 DEF FreshObjects
<1>5. \A t \in Events \ Syslog :
        task'[t].saved /\ task'[t].pc \in {"closing", "done"} => t \in (notified \cup unheard)'
  BY <1>1, <1>2 DEF OneAtATime
<1>6. QED
  BY <1>3, <1>4, <1>5 DEF OneAtATime

LEMMA OneAtATimeStep ==
  ASSUME Serial
  PROVE  PipelineInv /\ OneAtATime /\ [Next]_vars => OneAtATime'
<1> SUFFICES ASSUME PipelineInv, OneAtATime, [Next]_vars
             PROVE  OneAtATime'
  OBVIOUS
<1>1. ASSUME NEW t \in Events, StoreEvent(t) \/ StoreSyslogEvent(t) \/ Step(t)
      PROVE  OneAtATime'
  BY <1>1, SerialStore, SerialUpsert, SerialEvaluateEvent, SerialEvaluateRule, SerialSelect,
     SerialApply, SerialFlush, SerialNotify, SerialCommit, SerialFailCommit, SerialDispatch,
     SerialClose DEF Step
<1>2. ASSUME NEW t \in Events, RunPlaybooks(t)
      PROVE  OneAtATime'
  BY <1>2, SerialOthers DEF RunPlaybooks, database, engine
<1>3. CASE PurgeOldCounters \/ UNCHANGED vars
  BY <1>3, SerialOthers DEF PurgeOldCounters, vars, database, engine, outside
<1>4. ASSUME NEW a \in Events,
             (\E status \in {"open", "closed"} : UpdateStatus(a, status)) \/ DeleteAlert(a)
      PROVE  OneAtATime'
  BY <1>4, SerialOthers DEF UpdateStatus, DeleteAlert, Quiet, engine, outside
<1>5. QED
  BY <1>1, <1>2, <1>3, <1>4, SerialCrash DEF Next

LEMMA OneAtATimeAlways ==
  ASSUME Serial
  PROVE  Spec => []OneAtATime
<1>1. Init => OneAtATime
  BY OneAtATimeInit
<1>2. PipelineInv /\ OneAtATime /\ [Next]_vars => OneAtATime'
  BY OneAtATimeStep
<1>3. QED
  BY <1>1, <1>2, PipelineAlways, PTL DEF Spec

\* When events come one after the other, every alert change that store_event
\* commits is announced, unless the lookup of its rule raised (event_store.py 199-240): no
\* other exception can come between the commit and the announcement, nor between
\* the flush and the commit.
THEOREM SavedIsAnnounced == Serial => (Spec => []SavedIsDispatched)
<1> SUFFICES ASSUME Serial
             PROVE  Spec => []SavedIsDispatched
  OBVIOUS
<1>1. OneAtATime => SavedIsDispatched
  BY DEF OneAtATime, SavedIsDispatched, At
<1>2. QED
  BY <1>1, OneAtATimeAlways, PTL

-----------------------------------------------------------------------------
(* The abstract ledger *)

\* The ledger asks for evidence that no stored alert lists.  What a coroutine
\* writes was never saved, and the rows list only what was.
LEMMA EvidenceIsFresh ==
  ASSUME PipelineInv, Hits, NEW t \in Events, ~ task[t].saved
  PROVE  \A a \in L!Stored : alerts[a].ids \cap task[t].evidence = {}
<1> SUFFICES ASSUME NEW a \in Events, alerts[a] # NoAlert
             PROVE  alerts[a].ids \cap task[t].evidence = {}
  BY DEF L!Stored
<1>1. alerts[a].ids \subseteq UNION {task[u].evidence : u \in HitsOn(a)}
  BY DEF Hits, Backed
<1>2. \A u \in HitsOn(a) : u \in Events /\ u # t
  BY DEF HitsOn
<1>3. \A u \in HitsOn(a) : task[u].evidence \cap task[t].evidence = {}
  BY <1>2 DEF PipelineInv, Evidence, EvidenceNotShared
<1>4. QED
  BY <1>1, <1>3

LEMMA RowEdited ==
  ASSUME NEW row \in Alert, NEW n \in Nat, NEW ids \in SUBSET Events
  PROVE  [row EXCEPT !.hits = n, !.ids = ids] = [status |-> row.status, hits |-> n, ids |-> ids]
<1> DEFINE edited == [row EXCEPT !.hits = n, !.ids = ids]
<1>1. edited \in Alert
  BY DEF Alert
<1>2. edited.hits = n /\ edited.ids = ids /\ edited.status = row.status
  BY DEF Alert
<1> HIDE DEF edited
<1>3. edited = [status |-> row.status, hits |-> n, ids |-> ids]
  BY <1>1, <1>2 DEF Alert
<1>4. QED
  BY <1>3 DEF edited

\* The commit of the only coroutine in flight records its firing on the alert
\* that was open when it looked, or raises the alert that was missing.
LEMMA CommitIsLedgerStep ==
  ASSUME PipelineInv, Hits, OneAtATime, NEW t \in Events, Commit(t)
  PROVE  [L!Next]_alerts
<1> SUFFICES ASSUME task[t].dirty
             PROVE  L!Next
  BY CommitEffect
<1> DEFINE a == task[t].target
           evidence == task[t].evidence
<1>1. /\ task[t].pc = "commit" /\ ~ task[t].saved /\ a \in Events
      /\ alerts[a] = NoAlert <=> a = t
      /\ alerts' = [alerts EXCEPT ![a] = RowWritten(t)]
  BY CommitEffect
<1>2. /\ alerts \in [Events -> Alert \cup {NoAlert}]
      /\ evidence \in SUBSET Events /\ task[t].hits \in Nat /\ task[t].ids \subseteq Events
  BY DEF PipelineInv, TypeOK, Task
<1>3. /\ Cardinality(evidence) >= Threshold
      /\ \/ a = t /\ Open = {} /\ task[t].hits = 1 /\ task[t].ids = evidence
         \/ a # t /\ a \in Open
            /\ task[t].hits = alerts[a].hits + 1 /\ task[t].ids = alerts[a].ids \cup evidence
  BY <1>1 DEF OneAtATime, FreshRead
<1>4. L!Fresh(evidence)
  <2>1. \A b \in L!Stored : alerts[b].ids \cap evidence = {}
    BY <1>1, EvidenceIsFresh
  <2>2. L!Cardinality(evidence) = Cardinality(evidence)
    BY DEF L!Cardinality, Cardinality
  <2>3. QED
    BY <1>3, <2>1, <2>2 DEF L!Fresh
<1>5. Open = L!Open
  BY DEF Open, L!Open, L!Stored
<1>6. CASE a = t
  <2>1. RowWritten(t) = [status |-> "open", hits |-> 1, ids |-> evidence]
    BY <1>3, <1>6 DEF RowWritten
  <2>2. L!Raise(a, evidence)
    BY <1>1, <1>3, <1>4, <1>5, <1>6, <2>1 DEF L!Raise, L!Stored
  <2>3. QED
    BY <1>1, <1>2, <2>2 DEF L!Next
<1>7. CASE a # t
  <2>1. alerts[a] \in Alert
    BY <1>1, <1>2, <1>7
  <2>2. RowWritten(t) = [alerts[a] EXCEPT !.hits = task[t].hits, !.ids = task[t].ids]
    BY <1>2, <1>7, <2>1, RowEdited DEF RowWritten
  <2>3. alerts' = [alerts EXCEPT ![a].hits = task[t].hits, ![a].ids = task[t].ids]
    BY <1>1, <1>2, <2>2
  <2>4. alerts' = [alerts EXCEPT ![a].hits = alerts[a].hits + 1,
                                 ![a].ids = alerts[a].ids \cup evidence]
    BY <1>3, <1>7, <2>3
  <2>5. L!Dedup(a, evidence)
    BY <1>3, <1>4, <1>5, <1>7, <2>4 DEF L!Dedup
  <2>6. QED
    BY <1>1, <1>2, <2>5 DEF L!Next
<1>8. QED
  BY <1>6, <1>7

\* With events and edits one after the other the alerts table does what the
\* ledger allows: a firing is recorded on the open alert of its key or opens
\* one, with evidence of its own, and only the analyst changes a status or
\* removes an alert.
THEOREM PipelineImplementsLedger == Serial => (Spec => ImplementsLedger)
<1> SUFFICES ASSUME Serial
             PROVE  Spec => ImplementsLedger
  OBVIOUS
<1>1. Init => L!Init
  BY DEF Init, L!Init
<1>2. PipelineInv /\ Hits /\ OneAtATime /\ [Next]_vars => [L!Next]_alerts
  <2> SUFFICES ASSUME PipelineInv, Hits, OneAtATime, Next, alerts' # alerts
               PROVE  L!Next
    BY DEF vars, database
  <2>1. ASSUME NEW t \in Events, Commit(t)
        PROVE  L!Next
    BY <2>1, CommitIsLedgerStep
  <2>2. ASSUME NEW a \in Events, NEW status \in {"open", "closed"}, UpdateStatus(a, status)
        PROVE  L!Next
    BY <2>2 DEF UpdateStatus, L!Next, L!SetStatus, L!Stored
  <2>3. ASSUME NEW a \in Events, DeleteAlert(a)
        PROVE  L!Next
    BY <2>3 DEF DeleteAlert, L!Next, L!Remove, L!Stored
  <2>4. ASSUME NEW t \in Events, StoreEvent(t) \/ StoreSyslogEvent(t) \/ RunPlaybooks(t)
        PROVE  FALSE
    BY <2>4 DEF StoreEvent, StoreSyslogEvent, RunPlaybooks, database
  <2>5. ASSUME NEW t \in Events, UpsertAsset(t) \/ EvaluateEvent(t) \/ EvaluateRule(t) \/ SelectAlert(t)
        PROVE  FALSE
    BY <2>5 DEF UpsertAsset, EvaluateEvent, EvaluateRule, SelectAlert, database
  <2>6. ASSUME NEW t \in Events, ApplyFiring(t) \/ FlushFiring(t) \/ Notify(t)
        PROVE  FALSE
    BY <2>6 DEF ApplyFiring, FlushFiring, Notify, database
  <2>7. ASSUME NEW t \in Events, FailCommit(t) \/ Dispatch(t) \/ CloseSession(t)
        PROVE  FALSE
    BY <2>7 DEF FailCommit, Dispatch, CloseSession, database
  <2>8. ~ PurgeOldCounters /\ ~ Crash
    BY DEF PurgeOldCounters, Crash, database
  <2>9. QED
    BY <2>1, <2>2, <2>3, <2>4, <2>5, <2>6, <2>7, <2>8 DEF Next, Step
<1>3. QED
  BY <1>1, <1>2, PipelineAlways, HitsAlways, OneAtATimeAlways, PTL DEF Spec, ImplementsLedger, L!Spec

-----------------------------------------------------------------------------
(* The order of the row locks *)

Early == {"new", "updateAsset", "insertAsset"}

\* A session that is still to write the asset's row has not written it, and one session
\* at most holds the rule's row.
LockOrder ==
  /\ \A t \in Events : task[t].pc \in Early => ~ task[t].asset
  /\ \A t, u \in Events : task[t].flushed /\ task[u].flushed => t = u

\* A step of the coroutine t as far as its locks go.
Locks(t) ==
  /\ \A u \in Events \ {t} : task'[u] = task[u]
  /\ task'[t].flushed => task[t].flushed \/ ~ RuleLocked(t)
  /\ task'[t].pc \in Early => task[t].pc \in Early /\ (task'[t].asset => task[t].asset)

LEMMA GotoLocks ==
  ASSUME PipelineInv, NEW t \in Events, NEW place, Goto(t, place),
         place \in Early => task[t].pc \in Early
  PROVE  Locks(t)
<1>1. task[t] \in Task /\ task \in [Events -> Task]
  BY DEF PipelineInv, TypeOK
<1>2. task'[t] = [task[t] EXCEPT !.pc = place] /\ \A u \in Events \ {t} : task'[u] = task[u]
  BY <1>1 DEF Goto
<1> QED BY <1>1, <1>2 DEF Locks, Task

\* A coroutine that goes on past the asset and does not flush.
LEMMA LaterLocks ==
  ASSUME PipelineInv, NEW t \in Events, NEW k, task' = [task EXCEPT ![t] = k],
         k.pc \notin Early, k.flushed => task[t].flushed
  PROVE  Locks(t)
<1>1. task'[t] = k /\ \A u \in Events \ {t} : task'[u] = task[u]
  BY TaskChanged DEF PipelineInv, TypeOK
<1> QED BY <1>1 DEF Locks

LEMMA UpsertAssetLocks ==
  ASSUME PipelineInv, NEW t \in Events, UpsertAsset(t)
  PROVE  Locks(t)
<1>1. task[t] \in Task /\ task \in [Events -> Task]
  BY DEF PipelineInv, TypeOK
<1>2. /\ \/ task'[t] = [task[t] EXCEPT !.pc = "correlate", !.broken = TRUE]
         \/ task'[t] = [task[t] EXCEPT !.pc = "correlate", !.asset = TRUE]
      /\ \A u \in Events \ {t} : task'[u] = task[u]
  BY <1>1 DEF UpsertAsset
<1>3. task'[t].pc = "correlate" /\ task'[t].flushed = task[t].flushed
  BY <1>1, <1>2 DEF Task
<1> QED BY <1>2, <1>3 DEF Locks, Early

LEMMA EvaluateEventLocks ==
  ASSUME PipelineInv, NEW t \in Events, EvaluateEvent(t)
  PROVE  Locks(t)
<1>1. task[t] \in Task /\ task \in [Events -> Task]
  BY DEF PipelineInv, TypeOK
<1>2. CASE \E place \in {"commit", "closing"} : Goto(t, place)
  BY <1>2, GotoLocks DEF Early
<1>3. ASSUME NEW r, task' = [task EXCEPT ![t].pc = "rule", ![t].rule = r] PROVE Locks(t)
  <2>1. /\ task'[t] = [task[t] EXCEPT !.pc = "rule", !.rule = r]
        /\ \A u \in Events \ {t} : task'[u] = task[u]
    BY <1>1, <1>3
  <2>2. task'[t].pc = "rule" /\ task'[t].flushed = task[t].flushed
    BY <1>1, <2>1 DEF Task
  <2> QED BY <2>1, <2>2 DEF Locks, Early
<1> QED BY <1>2, <1>3 DEF EvaluateEvent, Leave, AfterEvaluation

LEMMA EvaluateRuleLocks ==
  ASSUME PipelineInv, NEW t \in Events, EvaluateRule(t)
  PROVE  Locks(t)
<1>1. task[t] \in Task /\ task \in [Events -> Task]
  BY DEF PipelineInv, TypeOK
<1>2. CASE \E place \in {"commit", "closing"} : Goto(t, place)
  BY <1>2, GotoLocks DEF Early
<1>3. ASSUME NEW E, task' = [task EXCEPT ![t].pc = "select", ![t].evidence = E] PROVE Locks(t)
  <2>1. /\ task'[t] = [task[t] EXCEPT !.pc = "select", !.evidence = E]
        /\ \A u \in Events \ {t} : task'[u] = task[u]
    BY <1>1, <1>3
  <2>2. task'[t].pc = "select" /\ task'[t].flushed = task[t].flushed
    BY <1>1, <2>1 DEF Task
  <2> QED BY <2>1, <2>2 DEF Locks, Early
<1> QED BY <1>2, <1>3 DEF EvaluateRule, Leave, AfterEvaluation

LEMMA SelectAlertLocks ==
  ASSUME PipelineInv, NEW t \in Events, SelectAlert(t)
  PROVE  Locks(t)
<1>1. task[t] \in Task /\ task \in [Events -> Task]
  BY DEF PipelineInv, TypeOK
<1>2. CASE \E place \in {"commit", "closing"} : Goto(t, place)
  BY <1>2, GotoLocks DEF Early
<1>3. CASE task' = [task EXCEPT ![t].pc = "apply", ![t].target = t]
  <2>1. /\ task'[t] = [task[t] EXCEPT !.pc = "apply", !.target = t]
        /\ \A u \in Events \ {t} : task'[u] = task[u]
    BY <1>1, <1>3
  <2>2. task'[t].pc = "apply" /\ task'[t].flushed = task[t].flushed
    BY <1>1, <2>1 DEF Task
  <2> QED BY <2>1, <2>2 DEF Locks, Early
<1>4. ASSUME NEW a \in Open, task' = [task EXCEPT ![t] = Loaded(t, a)] PROVE Locks(t)
  <2>1. Loaded(t, a).pc = "apply" /\ Loaded(t, a).flushed = task[t].flushed
    BY <1>1 DEF Loaded, Task
  <2> QED BY <1>4, <2>1, LaterLocks DEF Early
<1> QED BY <1>2, <1>3, <1>4 DEF SelectAlert, Leave, AfterEvaluation

LEMMA ApplyFiringLocks ==
  ASSUME PipelineInv, NEW t \in Events, ApplyFiring(t)
  PROVE  Locks(t)
<1>1. task[t] \in Task /\ task \in [Events -> Task]
  BY DEF PipelineInv, TypeOK
<1>2. PICK p \in {"flush", "commit", "closing"} :
        \E d : task' = [task EXCEPT ![t].pc = p, ![t].dirty = d, ![t].hits = @ + 1,
                                    ![t].ids = @ \cup task[t].evidence]
  BY DEF ApplyFiring, AfterEvaluation
<1>3. /\ task'[t].pc = p /\ task'[t].flushed = task[t].flushed
      /\ \A u \in Events \ {t} : task'[u] = task[u]
  BY <1>1, <1>2 DEF Task
<1> QED BY <1>3 DEF Locks, Early

LEMMA FlushFiringLocks ==
  ASSUME PipelineInv, NEW t \in Events, FlushFiring(t)
  PROVE  Locks(t)
<1>1. task[t] \in Task /\ task \in [Events -> Task]
  BY DEF PipelineInv, TypeOK
<1>2. PICK p \in {"commit", "closing", "notify"} :
        \/ task' = [task EXCEPT ![t].pc = p, ![t].broken = TRUE]
        \/ task' = [task EXCEPT ![t].pc = p, ![t].flushed = TRUE, ![t].reported = TRUE]
  BY DEF FlushFiring, AfterEvaluation
<1>3. /\ \/ task'[t] = [task[t] EXCEPT !.pc = p, !.broken = TRUE]
         \/ task'[t] = [task[t] EXCEPT !.pc = p, !.flushed = TRUE, !.reported = TRUE]
      /\ \A u \in Events \ {t} : task'[u] = task[u]
  BY <1>1, <1>2
<1>4. task'[t].pc = p
  BY <1>1, <1>3 DEF Task
<1>5. ~ RuleLocked(t)
  BY DEF FlushFiring
<1> QED BY <1>3, <1>4, <1>5 DEF Locks, Early

LEMMA EndLocks ==
  ASSUME PipelineInv, NEW t \in Events, NEW place \in Over \cup {"closing"},
         task' = [task EXCEPT ![t] = Ended(t, place)]
  PROVE  Locks(t)
<1>1. task[t] \in Task /\ place \in Places
  BY DEF PipelineInv, TypeOK, Over, Places
<1>2. Ended(t, place).pc = place /\ ~ Ended(t, place).flushed
  BY <1>1, EndedFields
<1> QED BY <1>2, LaterLocks DEF Over, Early

LEMMA CommitLocks ==
  ASSUME PipelineInv, NEW t \in Events, Commit(t)
  PROVE  Locks(t)
<1>1. task[t] \in Task
  BY DEF PipelineInv, TypeOK
<1>2. PICK p \in {"dispatch", "closing"} :
        task' = [task EXCEPT ![t] = [Ended(t, p) EXCEPT !.saved = task[t].dirty]]
  BY DEF Commit
<1> DEFINE k == [Ended(t, p) EXCEPT !.saved = task[t].dirty]
<1>3. k.pc = p /\ k.flushed = FALSE
  BY <1>1 DEF Ended, Task
<1> HIDE DEF k
<1> QED BY <1>2, <1>3, LaterLocks DEF Early, k

LEMMA LockOrderStep == PipelineInv /\ LockOrder /\ [Next]_vars => LockOrder'
<1> SUFFICES ASSUME PipelineInv, LockOrder, [Next]_vars PROVE LockOrder'
  OBVIOUS
<1>1. ASSUME NEW t \in Events, Locks(t) PROVE LockOrder'
  <2>1. \A u \in Events : task'[u].pc \in Early => ~ task'[u].asset
    BY <1>1 DEF Locks, LockOrder
  <2>2. ASSUME NEW u \in Events \ {t}, task'[t].flushed, task'[u].flushed PROVE FALSE
    BY <1>1, <2>2 DEF Locks, LockOrder, RuleLocked
  <2>3. ASSUME NEW u \in Events, NEW v \in Events, task'[u].flushed, task'[v].flushed PROVE u = v
    <3>1. CASE u = t \/ v = t
      BY <2>2, <2>3, <3>1
    <3>2. CASE u # t /\ v # t
      BY <1>1, <2>3, <3>2 DEF Locks, LockOrder
    <3> QED BY <3>1, <3>2
  <2> QED BY <2>1, <2>3 DEF LockOrder
<1>2. ASSUME NEW t \in Events, StoreEvent(t) PROVE LockOrder'
  <2>1. At(t, "new") /\ Goto(t, AssetStep)
    BY <1>2 DEF StoreEvent
  <2> QED BY <2>1, <1>1, GotoLocks DEF At, Early
<1>3. ASSUME NEW t \in Events, StoreSyslogEvent(t) \/ Notify(t) \/ Dispatch(t) PROVE LockOrder'
  <2>1. \E place \in {"correlate", "failed", "commit", "closing"} : Goto(t, place)
    BY <1>3 DEF StoreSyslogEvent, Notify, Dispatch
  <2> QED BY <2>1, <1>1, GotoLocks DEF Early
<1>4. ASSUME NEW t \in Events, FailCommit(t) \/ CloseSession(t) PROVE LockOrder'
  <2>1. \E place \in Over : task' = [task EXCEPT ![t] = Ended(t, place)]
    BY <1>4 DEF FailCommit, CloseSession, Over
  <2> QED BY <2>1, <1>1, EndLocks
<1>5. CASE UNCHANGED task
  BY <1>5 DEF LockOrder
<1>6. CASE Crash
  <2>1. ASSUME NEW u \in Events
        PROVE  (task'[u].flushed => task[u].flushed) /\ (task'[u].pc \in Early => task'[u] = task[u])
    <3>1. task'[u] = IF InFlight(u) THEN Ended(u, "crashed") ELSE task[u]
      BY <1>6 DEF Crash
    <3>2. task[u] \in Task /\ "crashed" \in Places
      BY DEF PipelineInv, TypeOK, Places
    <3>3. Ended(u, "crashed").pc = "crashed" /\ ~ Ended(u, "crashed").flushed
      BY <3>2, EndedFields
    <3> QED BY <3>1, <3>3 DEF Early
  <2> QED BY <2>1 DEF LockOrder
<1>7. CASE \/ PurgeOldCounters \/ \E t \in Events : RunPlaybooks(t)
           \/ \E a \in Events, status \in {"open", "closed"} : DeleteAlert(a) \/ UpdateStatus(a, status)
  BY <1>7, <1>5 DEF PurgeOldCounters, RunPlaybooks, DeleteAlert, UpdateStatus
<1>8. CASE UNCHANGED vars
  BY <1>8, <1>5 DEF vars
<1> QED
  BY <1>1, <1>2, <1>3, <1>4, <1>6, <1>7, <1>8, UpsertAssetLocks, EvaluateEventLocks, EvaluateRuleLocks,
     SelectAlertLocks, ApplyFiringLocks, FlushFiringLocks, CommitLocks DEF Next, Step

\* Whatever sessions race, fail and crash: they never all wait for one another for the rows
\* of assets, rules and alerts (asset_inventory.py, correlation.py 234-300).  The rows of
\* threat indicators, locked before these, are not in it: ThreatIndicators has their circles.
THEOREM LocksFormNoCircle == Spec => []NobodyWaitsInACircle
<1>1. Init => LockOrder
  <2> SUFFICES ASSUME Init PROVE LockOrder
    OBVIOUS
  <2>1. \A t \in Events : task[t] = NewTask
    BY DEF Init
  <2>2. ~ NewTask.asset /\ ~ NewTask.flushed
    BY DEF NewTask
  <2> QED BY <2>1, <2>2 DEF LockOrder
<1>2. PipelineInv /\ LockOrder => NobodyWaitsInACircle
  <2> SUFFICES ASSUME PipelineInv, LockOrder, NEW S \in SUBSET Events, S # {}
               PROVE  \E t \in S : \A u \in S : ~ WaitsFor(t, u)
    BY DEF NobodyWaitsInACircle
  <2>1. \A t \in Events : task[t].flushed => task[t].pc \in {"notify", "commit", "closing"}
    BY DEF PipelineInv, Phases, PhaseOf
  <2>2. CASE \E t \in S : task[t].flushed
    <3>1. PICK t \in S : task[t].flushed
      BY <2>2
    <3>2. \A u \in S : u # t => ~ task[u].flushed
      BY <3>1 DEF LockOrder
    <3> QED BY <2>1, <3>1, <3>2 DEF WaitsFor, At
  <2>3. CASE \A t \in S : ~ task[t].flushed
    <3>1. \A t, u \in S : WaitsFor(t, u) => task[t].pc \in Early /\ task[u].asset
      BY <2>3 DEF WaitsFor, At, Early
    <3>2. CASE \E t \in S : task[t].asset
      <4>1. PICK t \in S : task[t].asset
        BY <3>2
      <4>2. task[t].pc \notin Early
        BY <4>1 DEF LockOrder
      <4> QED BY <3>1, <4>2
    <3> QED BY <3>1, <3>2
  <2> QED BY <2>2, <2>3
<1>3. Spec => []LockOrder
  BY <1>1, LockOrderStep, PipelineAlways, PTL DEF Spec
<1> QED BY <1>2, <1>3, PipelineAlways, PTL
=============================================================================
