---------------------------- MODULE AlertPipeline ----------------------------
(***************************************************************************)
(* From a raw event to a recorded and announced alert: store_event         *)
(* (services/event_store.py) for the HTTP, Kafka and connector paths, the  *)
(* _store_event of services/syslog_server.py, evaluate_event and           *)
(* _create_alert (services/correlation.py), and the analyst's edits        *)
(* (routers/alerts.py), for one rule and one group.                        *)
(*                                                                         *)
(* Each event is ingested by a coroutine with a database session of its    *)
(* own; a step ends where the code awaits the database or a notification.  *)
(* A session reads committed rows, keeps its writes until its commit, and  *)
(* holds the locks of the rows it has flushed until then.                  *)
(*                                                                         *)
(* The engine's _rules list holds ORM objects that every session uses.  An *)
(* object belongs to the session that loaded it or that added it last,     *)
(* until that session closes; another session that adds it meanwhile gets  *)
(* an exception, and a rollback of its session expires the object, so that *)
(* reading an attribute of it raises.                                      *)
(***************************************************************************)
EXTENDS Integers, FiniteSets

CONSTANTS
  Events,          \* the events; each names the task and session that ingest it
  Syslog,          \* those that arrive by syslog, the others use store_event
  Threshold,       \* rule.threshold
  MaxLoads,        \* bound on the reloads of the rules
  MaxFaults,       \* bound on failed commits and lookups and process crashes
  Analyst,         \* TRUE: alerts are resolved, reopened and deleted
  Serial,          \* TRUE: events and edits come one after the other
  AssetDiscovery,  \* settings.ASSET_DISCOVERY_ENABLED
  Ueba,            \* settings.UEBA_ENABLED
  NoAlert, Nobody

ASSUME PipelineAssumption ==
  /\ IsFiniteSet(Events) /\ Syslog \subseteq Events
  /\ Threshold \in Nat \ {0} /\ MaxLoads \in Nat /\ MaxFaults \in Nat
  /\ {Analyst, Serial, AssetDiscovery, Ueba} \subseteq BOOLEAN
  /\ Nobody \notin Events
  /\ NoAlert \notin [status : {"open", "closed"}, hits : Nat, ids : SUBSET Events]

VARIABLES
  events,    \* committed rows of the events table
  asset,     \* the events' host has a committed row in the assets table
  alerts,    \* committed rows of the alerts table, named after the event that
             \* opened them; "closed" stands for resolved and false_positive
  counter,   \* the event ids in the WindowCounter of the key
  rule,      \* which load of the rule is in _rules
  objects,   \* the rule object of each load: its session, and if it expired
  task,      \* the ingesting coroutine of each event
  jobs,      \* alerts whose playbook task has been created and has not run
  notified,  \* history: firings announced by send_alert
  unheard,   \* history: firings whose rule could not be read for the announcement
  played,    \* history: firings whose playbooks were evaluated
  faults     \* commits and lookups failed and crashes so far

database == <<events, asset, alerts>>
engine == <<counter, rule, objects>>
outside == <<jobs, notified, unheard, played>>
vars == <<database, engine, task, outside, faults>>

Loads == 0..MaxLoads
Alert == [status : {"open", "closed"}, hits : Nat, ids : SUBSET Events]
Places == {"new", "updateAsset", "insertAsset", "correlate", "rule", "select", "apply",
           "flush", "commit", "notify", "dispatch", "closing", "done", "failed", "crashed"}
Task == [pc : Places,
         rule : Loads,                     \* the rule object its loop holds
         evidence : SUBSET Events,         \* event_ids of its firing
         target : Events \cup {Nobody},    \* the alert it updates, or its own
         hits : Nat, ids : SUBSET Events,  \* what it is to write there
         dirty : BOOLEAN,                  \* its session has an alert to write
         flushed : BOOLEAN,                \* it holds the alert's and the rule's row
         asset : BOOLEAN,                  \* it has written the asset's row
         reported : BOOLEAN,               \* evaluate_event returns the alert
         broken : BOOLEAN,                 \* a flush failed: rollback required
         saved : BOOLEAN]                  \* history: the alert's write is committed

NewTask ==
  [pc |-> "new", rule |-> 0, evidence |-> {}, target |-> Nobody, hits |-> 0, ids |-> {},
   dirty |-> FALSE, flushed |-> FALSE, asset |-> FALSE, reported |-> FALSE,
   broken |-> FALSE, saved |-> FALSE]

TypeOK ==
  /\ events \subseteq Events /\ asset \in BOOLEAN
  /\ alerts \in [Events -> Alert \cup {NoAlert}]
  /\ counter \subseteq Events /\ rule \in Loads
  /\ objects \in [Loads -> [owner : Events \cup {Nobody}, expired : BOOLEAN]]
  /\ task \in [Events -> Task]
  /\ {jobs, notified, unheard, played} \subseteq SUBSET Events
  /\ faults \in 0..MaxFaults

FreshObjects == [g \in Loads |-> [owner |-> Nobody, expired |-> FALSE]]

Init ==
  /\ events = {} /\ asset = FALSE /\ alerts = [a \in Events |-> NoAlert]
  /\ counter = {} /\ rule = 0 /\ objects = FreshObjects
  /\ task = [t \in Events |-> NewTask]
  /\ jobs = {} /\ notified = {} /\ unheard = {} /\ played = {} /\ faults = 0

-----------------------------------------------------------------------------
(* Sessions *)

Over == {"done", "failed", "crashed"}
InFlight(t) == task[t].pc \notin Over \cup {"new"}
Quiet == Serial => \A t \in Events : ~ InFlight(t)

At(t, place) == task[t].pc = place
Goto(t, place) == task' = [task EXCEPT ![t].pc = place]

\* Session.close: the objects it held belong to nobody, and uncommitted writes
\* and row locks are gone.
Released(t) ==
  [g \in Loads |-> IF objects[g].owner = t THEN [objects[g] EXCEPT !.owner = Nobody] ELSE objects[g]]

\* A rollback, or a failed flush, also expires every object of the session.
Expired(t) ==
  [g \in Loads |-> IF objects[g].owner = t THEN [objects[g] EXCEPT !.expired = TRUE] ELSE objects[g]]

RolledBack(t) ==
  [g \in Loads |-> IF objects[g].owner = t THEN [owner |-> Nobody, expired |-> TRUE] ELSE objects[g]]

Ended(t, place) == [task[t] EXCEPT !.pc = place, !.flushed = FALSE, !.asset = FALSE]

RuleLocked(t) == \E u \in Events \ {t} : task[u].flushed
AlertLocked(a, t) == \E u \in Events \ {t} : task[u].flushed /\ task[u].target = a
AssetLocked(t) == \E u \in Events \ {t} : task[u].asset

Fault == faults < MaxFaults /\ faults' = faults + 1

-----------------------------------------------------------------------------
(* Storing the event *)

\* What the SELECT of the asset of the event's host decides.  With the setting
\* off the asset is skipped.
AssetStep ==
  CASE ~ AssetDiscovery -> "correlate"
    [] AssetDiscovery /\ asset -> "updateAsset"
    [] AssetDiscovery /\ ~ asset -> "insertAsset"

\* store_event up to the flush of the event, and the SELECT of its host's
\* asset.
StoreEvent(t) ==
  /\ t \notin Syslog /\ At(t, "new") /\ Quiet
  /\ Goto(t, AssetStep)
  /\ UNCHANGED <<database, engine, outside, faults>>

\* upsert_from_event: the hostname is unique, so the insert waits for another
\* one in flight and fails if that one committed.  The exception is swallowed,
\* and the session stays broken.
UpsertAsset(t) ==
  /\ At(t, "updateAsset") \/ At(t, "insertAsset")
  /\ ~ AssetLocked(t)
  /\ task' = IF At(t, "insertAsset") /\ asset
               THEN [task EXCEPT ![t].pc = "correlate", ![t].broken = TRUE]
               ELSE [task EXCEPT ![t].pc = "correlate", ![t].asset = TRUE]
  /\ UNCHANGED <<database, engine, outside, faults>>

\* The syslog processor handles one message at a time and commits its event
\* before the evaluation.
StoreSyslogEvent(t) ==
  /\ t \in Syslog /\ At(t, "new") /\ Quiet
  /\ \A u \in Syslog : ~ InFlight(u)
  /\ \/ /\ events' = events \cup {t}
        /\ Goto(t, "correlate")
        /\ UNCHANGED faults
     \/ Fault /\ Goto(t, "failed") /\ UNCHANGED events
  /\ UNCHANGED <<asset, alerts, engine, outside>>

-----------------------------------------------------------------------------
(* Evaluation *)

\* Where evaluate_event returns to: store_event commits whatever came of it, the
\* syslog path goes on only if an alert was returned.
\* Mutant: announced before the commit.
AfterEvaluation_Early(t, reported) == IF reported THEN "dispatch" ELSE "commit"

AfterEvaluation(t, reported) ==
  IF t \notin Syslog THEN "commit" ELSE IF reported THEN "notify" ELSE "closing"

Leave(t) == Goto(t, AfterEvaluation(t, FALSE))

\* evaluate_event: reload_rules_if_stale, then the loop over the loaded rules.
EvaluateEvent(t) ==
  /\ At(t, "correlate")
  /\ \/ /\ task' = [task EXCEPT ![t].pc = "rule", ![t].rule = rule]
        /\ UNCHANGED engine
     \/ /\ rule < MaxLoads /\ ~ task[t].broken
        /\ rule' = rule + 1
        /\ objects' = [objects EXCEPT ![rule + 1] = [owner |-> t, expired |-> FALSE]]
        /\ task' = [task EXCEPT ![t].pc = "rule", ![t].rule = rule + 1]
        /\ UNCHANGED counter
     \/ task[t].broken /\ Leave(t) /\ UNCHANGED engine
  /\ UNCHANGED <<database, outside, faults>>

\* The counter after a firing.
\* Mutant: no reset.
Reset_Forgotten(counted) == counted

Reset(counted) == {}

\* _evaluate_rule up to the end of the lock.  An expired rule object raises at
\* its first attribute, and again in the handler that logs its name.
EvaluateRule(t) ==
  /\ At(t, "rule")
  /\ LET counted == counter \cup {t}
     IN  \/ /\ objects[task[t].rule].expired
            /\ Leave(t) /\ UNCHANGED counter
         \/ /\ ~ objects[task[t].rule].expired
            /\ Cardinality(counted) < Threshold
            /\ counter' = counted
            /\ Leave(t)
         \/ /\ ~ objects[task[t].rule].expired
            /\ Cardinality(counted) >= Threshold
            /\ counter' = Reset(counted)
            /\ task' = [task EXCEPT ![t].pc = "select", ![t].evidence = counted]
  /\ UNCHANGED <<database, rule, objects, outside, faults>>

\* The alerts the SELECT can return.
\* Mutant: the lookup is left out.
Open_Ignored == {}

Open == {a \in Events : alerts[a] # NoAlert /\ alerts[a].status = "open"}

\* The copy of alert a that the session of t gets.
Loaded(t, a) ==
  [task[t] EXCEPT !.pc = "apply", !.target = a, !.hits = alerts[a].hits, !.ids = alerts[a].ids]

\* _create_alert: the SELECT of an open alert with the key.
SelectAlert(t) ==
  /\ At(t, "select")
  /\ \/ task[t].broken /\ Leave(t)
     \/ /\ ~ task[t].broken /\ Open = {}
        /\ task' = [task EXCEPT ![t].pc = "apply", ![t].target = t]
     \/ /\ ~ task[t].broken
        /\ \E a \in Open : task' = [task EXCEPT ![t] = Loaded(t, a)]
  /\ UNCHANGED <<database, engine, outside, faults>>

\* The result arrives: the alert is changed or built and added to the session,
\* then the rule object is added, which may raise.  A new alert reads the rule
\* before it is added; an existing one is already dirty when the rule is read.
ApplyFiring(t) ==
  /\ At(t, "apply")
  /\ LET object == objects[task[t].rule]
         ok == ~ object.expired /\ object.owner \in {Nobody, t}
     IN  /\ task' = [task EXCEPT
              ![t].pc = IF ok THEN "flush" ELSE AfterEvaluation(t, FALSE),
              ![t].dirty = task[t].target # t \/ ~ object.expired,
              ![t].hits = @ + 1, ![t].ids = @ \cup task[t].evidence]
         /\ objects' = IF ok THEN [objects EXCEPT ![task[t].rule].owner = t] ELSE objects
  /\ UNCHANGED <<database, counter, rule, outside, faults>>

\* The row to update was deleted after it was read.
Vanished(t) == task[t].target # t /\ alerts[task[t].target] = NoAlert

\* db.flush writes the rule's row and the alert's, and keeps both locked.
FlushFiring(t) ==
  /\ At(t, "flush")
  /\ ~ RuleLocked(t) /\ ~ AlertLocked(task[t].target, t)
  /\ IF Vanished(t)
       THEN /\ task' = [task EXCEPT ![t].pc = AfterEvaluation(t, FALSE), ![t].broken = TRUE]
            /\ objects' = Expired(t)
       ELSE /\ task' = [task EXCEPT ![t].pc = AfterEvaluation(t, TRUE),
                                    ![t].flushed = TRUE, ![t].reported = TRUE]
            /\ UNCHANGED objects
  /\ UNCHANGED <<database, counter, rule, outside, faults>>

-----------------------------------------------------------------------------
(* Commit and announcement *)

\* The syslog path looks the rule up and awaits send_alert before it commits the alert.
\* A lookup that raises is logged further out: neither is done.
Notify(t) ==
  /\ At(t, "notify")
  /\ \/ /\ notified' = notified \cup {t} /\ Goto(t, "commit")
        /\ UNCHANGED <<unheard, faults>>
     \/ /\ Fault /\ unheard' = unheard \cup {t} /\ Goto(t, "closing")
        /\ UNCHANGED notified
  /\ UNCHANGED <<database, engine, jobs, played>>

\* Only the columns the session changed are written: never the status.
\* Mutants: the status is written too; a new alert starts with a second hit.
Written_Reopens(t) ==
  IF ~ task[t].dirty THEN alerts
  ELSE [alerts EXCEPT ![task[t].target] =
         [status |-> "open", hits |-> task[t].hits, ids |-> task[t].ids]]
Written_SecondHit(t) ==
  LET a == task[t].target
  IN  IF ~ task[t].dirty THEN alerts
      ELSE [alerts EXCEPT ![a] =
             [status |-> IF a = t THEN "open" ELSE alerts[a].status,
              hits |-> task[t].hits + 1, ids |-> task[t].ids]]

Written(t) ==
  LET a == task[t].target
  IN  IF ~ task[t].dirty THEN alerts
      ELSE [alerts EXCEPT ![a] =
             [status |-> IF a = t THEN "open" ELSE alerts[a].status,
              hits |-> task[t].hits, ids |-> task[t].ids]]

Unwritable(t) == task[t].broken \/ (task[t].dirty /\ ~ task[t].flushed /\ Vanished(t))

\* db.commit, which first flushes what an exception kept from being flushed.
Commit(t) ==
  /\ At(t, "commit")
  /\ task[t].dirty => ~ AlertLocked(task[t].target, t)
  /\ ~ Unwritable(t)
  /\ events' = events \cup {t}
  /\ asset' = (asset \/ task[t].asset)
  /\ alerts' = Written(t)
  /\ task' = [task EXCEPT ![t] =
       [Ended(t, IF t \notin Syslog /\ task[t].reported THEN "dispatch" ELSE "closing")
         EXCEPT !.saved = task[t].dirty]]
  /\ UNCHANGED <<engine, outside, faults>>

\* The commit raises: get_db rolls the request's session back, the syslog path
\* only closes its own.
FailCommit(t) ==
  /\ At(t, "commit")
  /\ task[t].dirty => ~ AlertLocked(task[t].target, t)
  /\ (Unwritable(t) /\ UNCHANGED faults) \/ (~ Unwritable(t) /\ Fault)
  /\ task' = [task EXCEPT ![t] = Ended(t, IF t \in Syslog THEN "done" ELSE "failed")]
  /\ objects' = IF t \in Syslog THEN Released(t) ELSE RolledBack(t)
  /\ UNCHANGED <<database, counter, rule, outside>>

\* store_event looks the rule up, in a transaction of its own, and creates the
\* notification task; a lookup that raises is swallowed.  The playbook task it
\* creates in any case.
Dispatch(t) ==
  /\ At(t, "dispatch")
  /\ \/ notified' = notified \cup {t} /\ UNCHANGED <<unheard, faults>>
     \/ Fault /\ unheard' = unheard \cup {t} /\ UNCHANGED notified
  /\ jobs' = jobs \cup {t}
  /\ Goto(t, "closing")
  /\ UNCHANGED <<database, engine, played>>

\* Mutant: the rule objects stay with the session.
CloseSession_Keeps(t) ==
  /\ At(t, "closing")
  /\ task' = [task EXCEPT ![t] = Ended(t, "done")]
  /\ UNCHANGED <<database, engine, outside, faults>>

CloseSession(t) ==
  /\ At(t, "closing")
  /\ task' = [task EXCEPT ![t] = Ended(t, "done")]
  /\ objects' = Released(t)
  /\ UNCHANGED <<database, counter, rule, outside, faults>>

\* _run_playbooks opens a session with the AsyncSessionLocal that store_event
\* imports inside "if UEBA_ENABLED": without UEBA the name is unbound.  Nobody
\* awaits the task: an exception in it ends it.
RunPlaybooks(t) ==
  /\ t \in jobs
  /\ jobs' = jobs \ {t}
  /\ \/ /\ played' = IF Ueba /\ alerts[task[t].target] # NoAlert THEN played \cup {t} ELSE played
        /\ UNCHANGED faults
     \/ Fault /\ UNCHANGED played
  /\ UNCHANGED <<database, engine, task, notified, unheard>>

-----------------------------------------------------------------------------
(* The rest of the process *)

\* Events leave the window and the cleanup forgets them.
PurgeOldCounters ==
  /\ counter' \in SUBSET counter
  /\ UNCHANGED <<database, rule, objects, task, outside, faults>>

\* update_alert writes the status column alone.
UpdateStatus(a, status) ==
  /\ Analyst /\ Quiet
  /\ alerts[a] # NoAlert /\ ~ AlertLocked(a, Nobody)
  /\ alerts' = [alerts EXCEPT ![a].status = status]
  /\ UNCHANGED <<events, asset, engine, task, outside, faults>>

DeleteAlert(a) ==
  /\ Analyst /\ Quiet
  /\ alerts[a] # NoAlert /\ ~ AlertLocked(a, Nobody)
  /\ alerts' = [alerts EXCEPT ![a] = NoAlert]
  /\ UNCHANGED <<events, asset, engine, task, outside, faults>>

\* The process dies and is started again: the counters and tasks are gone.
Crash ==
  /\ Fault
  /\ counter' = {} /\ rule' = 0 /\ objects' = FreshObjects
  /\ task' = [t \in Events |-> IF InFlight(t) THEN Ended(t, "crashed") ELSE task[t]]
  /\ jobs' = {}
  /\ UNCHANGED <<database, notified, unheard, played>>

Step(t) ==
  \/ UpsertAsset(t)
  \/ EvaluateEvent(t) \/ EvaluateRule(t)
  \/ SelectAlert(t) \/ ApplyFiring(t) \/ FlushFiring(t)
  \/ Notify(t) \/ Commit(t) \/ FailCommit(t) \/ Dispatch(t) \/ CloseSession(t)

Next ==
  \/ \E t \in Events : StoreEvent(t) \/ StoreSyslogEvent(t) \/ Step(t) \/ RunPlaybooks(t)
  \/ PurgeOldCounters
  \/ \E a \in Events, status \in {"open", "closed"} : UpdateStatus(a, status)
  \/ \E a \in Events : DeleteAlert(a)
  \/ Crash

Spec == Init /\ [][Next]_vars

\* The event loop resumes every coroutine whose await is answered.
FairSpec == Spec /\ \A t \in Events : WF_vars(Step(t)) /\ WF_vars(RunPlaybooks(t))

-----------------------------------------------------------------------------
(* Properties *)

Fired(t) == task[t].evidence # {}

\* Firings whose hit on alert a was committed.
HitsOn(a) == {t \in Events : task[t].saved /\ task[t].target = a}

\* One event is evidence for one alert at most, whatever sessions race, fail
\* or restart: a firing empties the counter before any other coroutine counts
\* (correlation.py 126-140).
EvidenceNotShared ==
  \A t, u \in Events : t # u => task[t].evidence \cap task[u].evidence = {}

\* An alert never claims hits that no committed firing gave it, and lists only
\* events of those firings: a rolled back session leaves no trace in it.
HitsBacked ==
  \A a \in Events : alerts[a] # NoAlert =>
    /\ alerts[a].hits <= Cardinality(HitsOn(a))
    /\ alerts[a].ids \subseteq UNION {task[t].evidence : t \in HitsOn(a)}

\* What store_event announces has been committed with its event
\* (event_store.py 199-204); the syslog path announces first.
NotifiedIsSaved == \A t \in notified \ Syslog : task[t].saved /\ t \in events

\* Ingestion never undoes an analyst's decision: the status of an alert
\* changes only while every ingesting coroutine stands still.
StatusBelongsToAnalyst ==
  [][\A a \in Events :
       (alerts[a] # NoAlert /\ alerts'[a] # NoAlert /\ alerts'[a].status # alerts[a].status)
         => UNCHANGED task]_vars

\* Every coroutine comes to an end: the row locks that sessions wait for while
\* others await notifications never form a circle, and an exception anywhere
\* still closes the session and frees its rule objects.
EverySessionCloses ==
  \A t \in Events : InFlight(t) ~> task[t].pc \in Over /\ \A g \in Loads : objects[g].owner # t

\* What a session awaits that stands still before rows that other sessions have locked:
\* the asset's, the rule's and the alert's.
WaitsFor(t, u) ==
  t # u /\ \/ (At(t, "updateAsset") \/ At(t, "insertAsset")) /\ task[u].asset
           \/ At(t, "flush") /\ task[u].flushed
           \/ At(t, "commit") /\ task[t].dirty /\ task[u].flushed /\ task[u].target = task[t].target

\* The safety behind it: among any sessions there is one that waits for none of them, as
\* far as these rows go.  Nobody locks an asset's row after a rule's or an alert's, which
\* takes every path through store_event, _create_alert and the commit, and every exception
\* in them.  The rows of threat indicators that store_event may lock before all of these
\* (event_store.py 110) are not in this module: they are locked in the order of an event's
\* fields and do form circles, which the database breaks (ThreatIndicators).
NobodyWaitsInACircle ==
  \A S \in SUBSET Events : S # {} => \E t \in S : \A u \in S : ~ WaitsFor(t, u)

\* With events one after the other the table is the abstract ledger.
L == INSTANCE AlertLedger
ImplementsLedger == L!Spec

\* An event is lost only to a failure of the database or the process: asset
\* discovery is best effort (event_store.py 163-170).
EventsKept == \A t \in Events : At(t, "failed") => faults > 0

\* Every alert change that store_event commits is announced, unless the lookup of
\* its rule after the commit failed (event_store.py 93: "schedules per-alert
\* background tasks to send notifications").
SavedIsDispatched ==
  \A t \in Events \ Syslog : At(t, "done") /\ task[t].saved => t \in notified \cup unheard

-----------------------------------------------------------------------------
(***************************************************************************)
(* Promises of the documentation that the code breaks.  The run alert_twice*)
(* refutes the first; the others have short counterexamples too, with the  *)
(* constants named at each (three events at most, threshold one if nothing *)
(* else is said).  SavedIsDispatched, which holds for serial sessions, is  *)
(* refuted for concurrent ones by the run alert_unannounced.               *)
(***************************************************************************)

\* A new alert is opened only when the key has no open alert
\* (correlation.py 234: "If no such alert exists, create a new Alert").
OpensOneAlert ==
  [][\A a \in Events : (alerts[a] = NoAlert /\ alerts'[a] # NoAlert)
         => \A b \in Events : alerts[b] # NoAlert => alerts[b].status # "open"]_vars

\* A firing is recorded on an alert that is open (correlation.py 266: "Check
\* for existing non-resolved/non-fp alert with same dedup key").  Broken with
\* Analyst: the alert is resolved between the SELECT and the commit.
HitsOnlyOpenAlerts ==
  [][\A a \in Events :
       (alerts[a] # NoAlert /\ alerts'[a] # NoAlert /\ alerts'[a].hits # alerts[a].hits)
         => alerts[a].status = "open"]_vars

\* Every committed firing shows in the hit count (correlation.py 234:
\* "increment its `hit_count`").  Broken with MaxLoads 1: two sessions with
\* rule objects of different loads read the same count.
HitsExact ==
  \A a \in Events : alerts[a] # NoAlert => alerts[a].hits = Cardinality(HitsOn(a))

\* The ids an alert lists are events that are stored or being stored
\* (correlation.py 241: "IDs of events contributing to the threshold being
\* met").  Broken with threshold two and AssetDiscovery: an event is counted
\* and its session fails.
EvidenceStored ==
  \A a \in Events : alerts[a] # NoAlert =>
    \A e \in alerts[a].ids : e \in events \/ InFlight(e)

\* A firing caused by a syslog event is persisted (syslog_server.py 99-102).
\* Broken with a syslog and another event: the rule object is taken.
SyslogFiringSaved == \A t \in Syslog : At(t, "done") /\ Fired(t) => task[t].saved

\* An ingested event has been through the rules (event_store.py 93: "runs the
\* correlation engine to produce alerts"); with a threshold of one it fires.
\* Broken with Serial and MaxFaults 1: a rollback expires the rule object.
StoredIsEvaluated ==
  Threshold = 1 => \A t \in Events : At(t, "done") => Fired(t)

\* Playbooks are evaluated for every dispatched alert (event_store.py 93:
\* "send notifications and evaluate playbooks").  Broken with Ueba FALSE.
PlaybooksRun ==
  \A t \in notified \ Syslog : t \notin jobs /\ alerts[task[t].target] # NoAlert => t \in played
=============================================================================
