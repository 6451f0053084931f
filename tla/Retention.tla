----------------------------- MODULE Retention -----------------------------
(* services/retention.py and routers/retention.py: cycles that move aged    *)
(* rows of security_events into cold_events, one database transaction per  *)
(* cycle, while the loop and manual runs overlap, analysts delete events   *)
(* and administrators edit the policies.                                   *)
EXTENDS Integers, FiniteSets, FiniteSetsExt, Functions

CONSTANTS
  StoredEvent,     \* rows security_events may come to hold
  Stamp,           \* [StoredEvent -> Nat]: the day of an event's timestamp
  Policy,          \* identities of retention_policies rows
  PolicyRow,       \* the rows an administrator writes: [enabled, scope, days, archive]
  Cycle, Loop,     \* tasks of run_retention_cycle: _loop, which repeats, and one per run_now
  BatchLimit,      \* .limit(5000)
  LastDay, MaxPolicyEdits, MaxRetentionFaults   \* bounds

ASSUME RetentionAssumption ==
  /\ Stamp \in [StoredEvent -> Nat] /\ BatchLimit \in Nat \ {0} /\ Loop \in Cycle
  /\ LastDay \in Nat /\ MaxPolicyEdits \in Nat /\ MaxRetentionFaults \in Nat
  /\ \A row \in PolicyRow : /\ row.enabled \in BOOLEAN /\ row.archive \in BOOLEAN
                            /\ row.scope \subseteq StoredEvent /\ row.days \in Int

VARIABLES
  hot,         \* ids in security_events
  cold,        \* [StoredEvent -> Nat]: copies in cold_events
  bucket,      \* events uploaded to S3
  policies,    \* retention_policies: a function from the policies that exist
  day,         \* the clock
  cycle,       \* [Cycle -> record]: the tasks and their transactions
  arrived, erased,        \* history: events ever stored; events analysts deleted
  policyEdits, retentionFaults

retentionVars == <<hot, cold, bucket, policies, day, cycle, arrived, erased,
                   policyEdits, retentionFaults>>

\* A task between cycles: no session, no rows.
NoCycle == [pc |-> "idle", todo |-> <<>>, batch |-> {}, archive |-> FALSE, moved |-> {}]

\* How a task looks when it has ended: _loop sleeps, a manual run is over.
\* Mutant: the loop is inside its try, and over with the first cycle.
Ended_Once(c) == [NoCycle EXCEPT !.pc = "done"]
Ended(c) == [NoCycle EXCEPT !.pc = IF c = Loop THEN "idle" ELSE "done"]

RetentionInit ==
  /\ hot = {} /\ bucket = {} /\ arrived = {} /\ erased = {} /\ day = 0
  /\ cold = [e \in StoredEvent |-> 0]
  /\ policies = <<>>
  /\ cycle = [c \in Cycle |-> NoCycle]
  /\ policyEdits = 0 /\ retentionFaults = 0

-----------------------------------------------------------------------------
\* SecurityEvent.timestamp < now - hot_retention_days, and the log_type matches.
Aged(row) == {e \in row.scope : Stamp[e] < day - row.days}
\* The rows a policy's query may return, in no particular order.
Batches(found) == kSubset(IF Cardinality(found) < BatchLimit
                          THEN Cardinality(found) ELSE BatchLimit, found)
\* Rows whose deletion in c's transaction is not committed yet.
HeldBy(c) == cycle[c].moved \cap hot
Waits(c, d) == /\ c # d /\ cycle[c].pc = "flush"
               /\ cycle[c].batch \cap HeldBy(d) # {}
Held == UNION {HeldBy(c) : c \in Cycle}

Running(c) == cycle[c].pc \notin {"idle", "done"}

Begin(c) ==
  /\ cycle[c].pc = "idle"
  /\ cycle' = [cycle EXCEPT ![c] =
       [NoCycle EXCEPT !.pc = "select",
                       !.todo = Restrict(policies, {p \in DOMAIN policies : policies[p].enabled})]]
  /\ UNCHANGED <<hot, cold, bucket, policies, day, arrived, erased, policyEdits, retentionFaults>>

\* _loop wakes every six hours; run_now starts a task of its own.
WakeLoop == Begin(Loop)
RunNow == \E c \in Cycle \ {Loop} : Begin(c)

\* One policy's turn, with its row as loaded when the cycle began.
Select(c) ==
  /\ cycle[c].pc = "select"
  /\ \E p \in DOMAIN cycle[c].todo :
       LET row == cycle[c].todo[p]  found == Aged(row) \cap (hot \ cycle[c].moved)
       IN \E batch \in Batches(found) :
            cycle' = [cycle EXCEPT ![c].todo = Restrict(@, DOMAIN @ \ {p}),
                                   ![c].archive = row.archive, ![c].batch = batch,
                                   ![c].pc = IF batch = {} THEN "select" ELSE "flush"]
  /\ UNCHANGED <<hot, cold, bucket, policies, day, arrived, erased, policyEdits, retentionFaults>>

\* INSERT the cold rows and DELETE the hot ones, in c's transaction. A DELETE waits
\* for the transaction that has deleted the row; a row that is gone is no error.
Flush(c) ==
  /\ cycle[c].pc = "flush" /\ \A d \in Cycle : ~Waits(c, d)
  /\ cycle' = [cycle EXCEPT ![c].moved = @ \cup cycle[c].batch,
                            ![c].pc = IF cycle[c].archive THEN "upload" ELSE "select"]
  /\ UNCHANGED <<hot, cold, bucket, policies, day, arrived, erased, policyEdits, retentionFaults>>

\* _archive_to_s3, before the commit; a failure is logged and counts as zero events.
Upload(c) ==
  /\ cycle[c].pc = "upload"
  /\ \E sent \in {cycle[c].batch, {}} : bucket' = bucket \cup sent
  /\ cycle' = [cycle EXCEPT ![c].pc = "select"]
  /\ UNCHANGED <<hot, cold, policies, day, arrived, erased, policyEdits, retentionFaults>>

\* The rows of a transaction that commits.
Hot_Kept(c) == hot
Hot(c) == hot \ cycle[c].moved
Commit(c) ==
  /\ cycle[c].pc = "select" /\ cycle[c].todo = <<>>
  /\ hot' = Hot(c)
  /\ cold' = [e \in StoredEvent |-> IF e \in cycle[c].moved THEN cold[e] + 1 ELSE cold[e]]
  /\ cycle' = [cycle EXCEPT ![c] = Ended(c)]
  /\ UNCHANGED <<bucket, policies, day, arrived, erased, policyEdits, retentionFaults>>

\* Whatever a cycle raises ends it: the session is closed and rolled back.
RolledBack(c) == cycle' = [cycle EXCEPT ![c] = Ended(c)]

\* PostgreSQL aborts one of the transactions that wait for one another.
Deadlock(c) ==
  /\ \E S \in SUBSET Cycle : c \in S /\ \A a \in S : \E b \in S : Waits(a, b)
  /\ RolledBack(c)
  /\ UNCHANGED <<hot, cold, bucket, policies, day, arrived, erased, policyEdits, retentionFaults>>

\* A statement or the commit fails.
FailCycle(c) ==
  /\ Running(c) /\ retentionFaults < MaxRetentionFaults
  /\ RolledBack(c)
  /\ retentionFaults' = retentionFaults + 1
  /\ UNCHANGED <<hot, cold, bucket, policies, day, arrived, erased, policyEdits>>

\* The process stops with its cycles and starts again.
RetentionCrash ==
  /\ retentionFaults < MaxRetentionFaults /\ \E c \in Cycle : Running(c)
  /\ cycle' = [c \in Cycle |-> IF Running(c) THEN Ended(c) ELSE cycle[c]]
  /\ retentionFaults' = retentionFaults + 1
  /\ UNCHANGED <<hot, cold, bucket, policies, day, arrived, erased, policyEdits>>

-----------------------------------------------------------------------------
StoreRow(e) ==
  /\ e \notin arrived
  /\ hot' = hot \cup {e} /\ arrived' = arrived \cup {e}
  /\ UNCHANGED <<cold, bucket, policies, day, cycle, erased, policyEdits, retentionFaults>>

\* routers/events.py: one event, or all of them; waits for rows a cycle has deleted.
DeleteEvents(gone) ==
  /\ gone # {} /\ gone \subseteq hot \ Held
  /\ hot' = hot \ gone /\ erased' = erased \cup gone
  /\ UNCHANGED <<cold, bucket, policies, day, cycle, arrived, policyEdits, retentionFaults>>

Write(p, row) == policies' = [q \in DOMAIN policies \cup {p} |-> IF q = p THEN row ELSE policies[q]]
CreatePolicy(p, row) == p \notin DOMAIN policies /\ Write(p, row)
UpdatePolicy(p, row) == p \in DOMAIN policies /\ Write(p, row)
DeletePolicy(p) == p \in DOMAIN policies /\ policies' = Restrict(policies, DOMAIN policies \ {p})

EditPolicies ==
  /\ policyEdits < MaxPolicyEdits /\ policyEdits' = policyEdits + 1
  /\ \E p \in Policy : \/ \E row \in PolicyRow : CreatePolicy(p, row) \/ UpdatePolicy(p, row)
                       \/ DeletePolicy(p)
  /\ UNCHANGED <<hot, cold, bucket, day, cycle, arrived, erased, retentionFaults>>

DayPasses ==
  /\ day < LastDay /\ day' = day + 1
  /\ UNCHANGED <<hot, cold, bucket, policies, cycle, arrived, erased, policyEdits, retentionFaults>>

CycleStep(c) == Select(c) \/ Flush(c) \/ Upload(c) \/ Commit(c) \/ Deadlock(c)

RetentionNext ==
  \/ WakeLoop \/ RunNow \/ EditPolicies \/ DayPasses \/ RetentionCrash
  \/ \E c \in Cycle : CycleStep(c) \/ FailCycle(c)
  \/ \E e \in StoredEvent : StoreRow(e) \/ DeleteEvents({e})
  \/ DeleteEvents(hot)

\* WF: the event loop wakes _loop and runs every task whose statement is answered.
\* SF: PostgreSQL grants a row lock in the order of the queue for it.
RetentionFairness ==
  /\ WF_retentionVars(WakeLoop)
  /\ \A c \in Cycle : WF_retentionVars(CycleStep(c)) /\ SF_retentionVars(Flush(c))
RetentionSpec == RetentionInit /\ [][RetentionNext]_retentionVars /\ RetentionFairness

-----------------------------------------------------------------------------
\* Every variable keeps its shape, and a task's phase agrees with what it carries.
RetentionTypeOK ==
  /\ hot \subseteq arrived /\ bucket \subseteq arrived /\ erased \subseteq arrived
  /\ arrived \subseteq StoredEvent /\ cold \in [StoredEvent -> Nat]
  /\ DOMAIN policies \subseteq Policy /\ \A p \in DOMAIN policies : policies[p] \in PolicyRow
  /\ day \in 0..LastDay
  /\ policyEdits \in 0..MaxPolicyEdits /\ retentionFaults \in 0..MaxRetentionFaults
  /\ \A c \in Cycle :
       LET k == cycle[c]
       IN /\ k.pc \in {"idle", "select", "flush", "upload", "done"}
          /\ k.archive \in BOOLEAN /\ k.moved \subseteq arrived /\ k.batch \subseteq arrived
          /\ DOMAIN k.todo \subseteq Policy /\ \A p \in DOMAIN k.todo : k.todo[p].enabled
          /\ ~Running(c) => k = [NoCycle EXCEPT !.pc = k.pc]
          /\ k.pc = "upload" => k.archive /\ k.batch \subseteq k.moved

\* An event that no analyst deleted is in exactly one of the two tables, however
\* cycles, crashes, aborts and edits interleave (retention.py:58-104).
InOneTable == \A e \in arrived \ erased : (e \in hot) <=> (cold[e] = 0)

\* An event that a policy in force calls aged leaves security_events, or the
\* policies change, although a batch is limited and any cycle may fail.
AgedEventsLeave ==
  \A e \in StoredEvent :
    LET due == \E p \in DOMAIN policies : policies[p].enabled /\ e \in Aged(policies[p])
    IN (e \in hot /\ due) ~> (e \notin hot \/ ~due)
=============================================================================
