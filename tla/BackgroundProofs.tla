-------------------------- MODULE BackgroundProofs --------------------------
(***************************************************************************)
(* Proofs about Retention and UserBaselines, for every value of their      *)
(* constants.  Whatever cycles, crashes, deadlocks, deletions and edits    *)
(* interleave, an event that no analyst deleted is in exactly one table.   *)
(* Whatever refreshes wait for one another or clash, a profile is learnt   *)
(* from committed events of its own user alone.                            *)
(***************************************************************************)
EXTENDS Retention, UserBaselines, FiniteSetTheorems, TLAPS

-----------------------------------------------------------------------------
(* Retention *)

Rows(S) == UNION {[P -> PolicyRow] : P \in SUBSET S}

\* A task whose transaction works on events of the set stored.
CycleRow(stored) ==
  [pc : {"idle", "select", "flush", "upload", "done"}, todo : Rows(Policy),
   batch : SUBSET stored, archive : BOOLEAN, moved : SUBSET stored]

Sound(k, stored) ==
  /\ k \in CycleRow(stored)
  /\ \A p \in DOMAIN k.todo : k.todo[p].enabled
  /\ k.pc \in {"idle", "done"} => k = [NoCycle EXCEPT !.pc = k.pc]
  /\ k.pc = "upload" => k.archive /\ k.batch \subseteq k.moved

\* The tasks, and the clock, the policies and the bounds.
TasksSound == /\ cycle \in [Cycle -> CycleRow(arrived)]
              /\ \A c \in Cycle : Sound(cycle[c], arrived)
Surroundings ==
  /\ policies \in Rows(Policy) /\ day \in 0..LastDay
  /\ policyEdits \in 0..MaxPolicyEdits /\ retentionFaults \in 0..MaxRetentionFaults

\* The tables: InOneTable is inductive once events that have not arrived have
\* no copy, and what a transaction moves has arrived.
Tables ==
  /\ hot \subseteq arrived /\ bucket \subseteq arrived /\ erased \subseteq arrived
  /\ arrived \subseteq StoredEvent /\ cold \in [StoredEvent -> Nat]
  /\ \A e \in StoredEvent \ arrived : cold[e] = 0
  /\ InOneTable

RetentionInv == TasksSound /\ Surroundings /\ Tables

-----------------------------------------------------------------------------
(* Rows of policies *)

LEMMA NoRows == <<>> \in Rows(Policy) /\ DOMAIN <<>> = {}
<1>1. <<>> \in [{} -> PolicyRow] /\ DOMAIN <<>> = {}
  OBVIOUS
<1>2. {} \in SUBSET Policy
  OBVIOUS
<1> QED BY <1>1, <1>2 DEF Rows

LEMMA RestrictRows ==
  ASSUME NEW f \in Rows(Policy), NEW S \in SUBSET DOMAIN f
  PROVE  /\ Restrict(f, S) \in Rows(Policy) /\ DOMAIN Restrict(f, S) = S
         /\ \A p \in S : Restrict(f, S)[p] = f[p] /\ f[p] \in PolicyRow
<1>1. PICK P \in SUBSET Policy : f \in [P -> PolicyRow]
  BY DEF Rows
<1>2. S \in SUBSET Policy /\ [x \in S |-> f[x]] \in [S -> PolicyRow]
  BY <1>1
<1>3. [x \in S |-> f[x]] \in Rows(Policy)
  BY <1>2 DEF Rows
<1> QED BY <1>1, <1>3 DEF Restrict

LEMMA NoCycleRow ==
  ASSUME NEW stored
  PROVE  /\ NoCycle \in CycleRow(stored) /\ NoCycle.pc = "idle" /\ NoCycle.todo = <<>>
         /\ NoCycle.batch = {} /\ NoCycle.archive = FALSE /\ NoCycle.moved = {}
BY NoRows DEF NoCycle, CycleRow

LEMMA NoCycleSound ==
  ASSUME NEW stored, NEW pc \in {"idle", "done", "select"}
  PROVE  Sound([NoCycle EXCEPT !.pc = pc], stored)
<1> DEFINE k == [NoCycle EXCEPT !.pc = pc]
<1>1. k \in CycleRow(stored) /\ k.pc = pc /\ k.todo = <<>>
  BY NoCycleRow DEF CycleRow
<1>2. k = [NoCycle EXCEPT !.pc = k.pc]
  BY <1>1
<1> HIDE DEF k
<1>3. Sound(k, stored)
  BY <1>1, <1>2, NoRows DEF Sound
<1> QED BY <1>3 DEF k

LEMMA EndedSound ==
  ASSUME NEW stored, NEW c
  PROVE  Sound(Ended(c), stored)
<1>1. (IF c = Loop THEN "idle" ELSE "done") \in {"idle", "done", "select"}
  OBVIOUS
<1> QED BY <1>1, NoCycleSound DEF Ended

\* A larger table keeps every task sound.
LEMMA SoundGrows ==
  ASSUME NEW S, NEW T, S \subseteq T, NEW k, Sound(k, S)
  PROVE  Sound(k, T)
<1>1. k \in CycleRow(T)
  BY DEF Sound, CycleRow
<1> QED BY <1>1 DEF Sound

\* What a step of one task does.
LEMMA TaskChanges ==
  ASSUME TasksSound, NEW c \in Cycle, NEW k, Sound(k, arrived),
         cycle' = [cycle EXCEPT ![c] = k], arrived' = arrived
  PROVE  TasksSound'
<1>1. k \in CycleRow(arrived)
  BY DEF Sound
<1>2. cycle' \in [Cycle -> CycleRow(arrived)]
  BY <1>1 DEF TasksSound
<1>3. \A d \in Cycle : cycle'[d] = IF d = c THEN k ELSE cycle[d]
  BY DEF TasksSound
<1> QED BY <1>2, <1>3 DEF TasksSound

-----------------------------------------------------------------------------
(* The steps *)

LEMMA BeginTyped ==
  ASSUME RetentionInv, NEW c \in Cycle, Begin(c)
  PROVE  TasksSound'
<1> DEFINE on == {p \in DOMAIN policies : policies[p].enabled}
           k == [NoCycle EXCEPT !.pc = "select", !.todo = Restrict(policies, on)]
<1>1. cycle' = [cycle EXCEPT ![c] = k] /\ arrived' = arrived
  BY DEF Begin
<1>2. /\ Restrict(policies, on) \in Rows(Policy) /\ DOMAIN Restrict(policies, on) = on
      /\ \A p \in on : Restrict(policies, on)[p] = policies[p]
  BY RestrictRows DEF RetentionInv, Surroundings
<1>3. k \in CycleRow(arrived) /\ k.pc = "select" /\ k.todo = Restrict(policies, on)
  BY <1>2, NoCycleRow DEF CycleRow
<1> HIDE DEF k
<1>4. \A p \in DOMAIN k.todo : k.todo[p].enabled
  BY <1>2, <1>3
<1>5. Sound(k, arrived)
  BY <1>3, <1>4 DEF Sound
<1> QED BY <1>1, <1>5, TaskChanges DEF RetentionInv

LEMMA SelectTyped ==
  ASSUME RetentionInv, NEW c \in Cycle, Select(c)
  PROVE  TasksSound'
<1>1. Sound(cycle[c], arrived) /\ arrived' = arrived
  BY DEF RetentionInv, TasksSound, Select
<1>2. PICK p \in DOMAIN cycle[c].todo :
        \E batch \in Batches(Aged(cycle[c].todo[p]) \cap (hot \ cycle[c].moved)) :
          cycle' = [cycle EXCEPT ![c].todo = Restrict(@, DOMAIN @ \ {p}),
                                 ![c].archive = cycle[c].todo[p].archive, ![c].batch = batch,
                                 ![c].pc = IF batch = {} THEN "select" ELSE "flush"]
  BY DEF Select
<1>3. PICK batch \in Batches(Aged(cycle[c].todo[p]) \cap (hot \ cycle[c].moved)) :
        cycle' = [cycle EXCEPT ![c].todo = Restrict(@, DOMAIN @ \ {p}),
                               ![c].archive = cycle[c].todo[p].archive, ![c].batch = batch,
                               ![c].pc = IF batch = {} THEN "select" ELSE "flush"]
  BY <1>2
<1> DEFINE rest == Restrict(cycle[c].todo, DOMAIN cycle[c].todo \ {p})
           k == [cycle[c] EXCEPT !.todo = rest, !.archive = cycle[c].todo[p].archive,
                                 !.batch = batch, !.pc = IF batch = {} THEN "select" ELSE "flush"]
<1>4. cycle' = [cycle EXCEPT ![c] = k]
  BY <1>3 DEF RetentionInv, TasksSound
<1>5. cycle[c].todo \in Rows(Policy) /\ cycle[c].moved \subseteq arrived
  BY <1>1 DEF Sound, CycleRow
<1>6. cycle[c].todo[p] \in PolicyRow
  BY <1>5 DEF Rows
<1>7. batch \subseteq arrived
  BY <1>3 DEF RetentionInv, Tables, Batches, kSubset
<1>8. /\ rest \in Rows(Policy) /\ DOMAIN rest = DOMAIN cycle[c].todo \ {p}
      /\ \A q \in DOMAIN cycle[c].todo \ {p} : rest[q] = cycle[c].todo[q]
  BY <1>5, RestrictRows
<1>9. \A q \in DOMAIN rest : rest[q].enabled
  BY <1>1, <1>8 DEF Sound
<1> HIDE DEF rest
<1>10. /\ k \in CycleRow(arrived) /\ k.todo = rest
       /\ k.pc = IF batch = {} THEN "select" ELSE "flush"
  BY <1>1, <1>6, <1>7, <1>8, RetentionAssumption DEF CycleRow, Sound
<1> HIDE DEF k
<1>11. Sound(k, arrived)
  BY <1>9, <1>10 DEF Sound
<1> QED BY <1>1, <1>4, <1>11, TaskChanges DEF RetentionInv

LEMMA FlushTyped ==
  ASSUME RetentionInv, NEW c \in Cycle, Flush(c)
  PROVE  TasksSound'
<1> DEFINE k == [cycle[c] EXCEPT !.moved = @ \cup cycle[c].batch,
                                 !.pc = IF cycle[c].archive THEN "upload" ELSE "select"]
<1>1. Sound(cycle[c], arrived) /\ arrived' = arrived
  BY DEF RetentionInv, TasksSound, Flush
<1>2. cycle' = [cycle EXCEPT ![c] = k]
  BY DEF RetentionInv, TasksSound, Flush
<1>3. /\ k \in CycleRow(arrived) /\ k.todo = cycle[c].todo /\ k.archive = cycle[c].archive
      /\ k.pc = IF cycle[c].archive THEN "upload" ELSE "select"
      /\ k.batch = cycle[c].batch /\ k.moved = cycle[c].moved \cup cycle[c].batch
  BY <1>1 DEF Sound, CycleRow
<1> HIDE DEF k
<1>4. Sound(k, arrived)
  BY <1>1, <1>3 DEF Sound
<1> QED BY <1>1, <1>2, <1>4, TaskChanges DEF RetentionInv

LEMMA UploadTyped ==
  ASSUME RetentionInv, NEW c \in Cycle, Upload(c)
  PROVE  TasksSound'
<1> DEFINE k == [cycle[c] EXCEPT !.pc = "select"]
<1>1. Sound(cycle[c], arrived) /\ arrived' = arrived
  BY DEF RetentionInv, TasksSound, Upload
<1>2. cycle' = [cycle EXCEPT ![c] = k]
  BY DEF RetentionInv, TasksSound, Upload
<1>3. k \in CycleRow(arrived) /\ k.todo = cycle[c].todo /\ k.pc = "select"
  BY <1>1 DEF Sound, CycleRow
<1> HIDE DEF k
<1>4. Sound(k, arrived)
  BY <1>1, <1>3 DEF Sound
<1> QED BY <1>1, <1>2, <1>4, TaskChanges DEF RetentionInv

LEMMA WriteRows ==
  ASSUME policies \in Rows(Policy), NEW p \in Policy, NEW row \in PolicyRow, Write(p, row)
  PROVE  policies' \in Rows(Policy)
<1>1. PICK P \in SUBSET Policy : policies \in [P -> PolicyRow]
  BY DEF Rows
<1>2. policies' \in [P \cup {p} -> PolicyRow] /\ P \cup {p} \in SUBSET Policy
  BY <1>1 DEF Write
<1> QED BY <1>2 DEF Rows

LEMMA RetentionStep == RetentionInv /\ [RetentionNext]_retentionVars => RetentionInv'
<1> SUFFICES ASSUME RetentionInv, [RetentionNext]_retentionVars
             PROVE  RetentionInv'
  OBVIOUS
<1>1. ASSUME NEW c \in Cycle, Begin(c)
      PROVE  RetentionInv'
  <2>1. TasksSound'
    BY <1>1, BeginTyped
  <2>2. Surroundings' /\ Tables'
    BY <1>1 DEF Begin, RetentionInv, Surroundings, Tables, InOneTable
  <2> QED BY <2>1, <2>2 DEF RetentionInv
<1>2. ASSUME NEW c \in Cycle, CycleStep(c)
      PROVE  RetentionInv'
  <2>0. Sound(cycle[c], arrived)
    BY DEF RetentionInv, TasksSound
  <2>1. CASE Select(c)
    <3>1. Surroundings' /\ Tables'
      BY <2>1 DEF Select, RetentionInv, Surroundings, Tables, InOneTable
    <3> QED BY <2>1, <3>1, SelectTyped DEF RetentionInv
  <2>2. CASE Flush(c)
    <3>1. Surroundings' /\ Tables'
      BY <2>2 DEF Flush, RetentionInv, Surroundings, Tables, InOneTable
    <3> QED BY <2>2, <3>1, FlushTyped DEF RetentionInv
  <2>3. CASE Upload(c)
    <3>1. Surroundings'
      BY <2>3 DEF Upload, RetentionInv, Surroundings
    <3>2. bucket' \subseteq arrived'
      BY <2>0, <2>3 DEF Upload, RetentionInv, Tables, Sound, CycleRow
    <3>3. Tables'
      BY <2>3, <3>2 DEF Upload, RetentionInv, Tables, InOneTable
    <3> QED BY <2>3, <3>1, <3>3, UploadTyped DEF RetentionInv
  <2>4. CASE Commit(c)
    <3>1. TasksSound'
      BY <2>4, EndedSound, TaskChanges DEF Commit, RetentionInv
    <3>2. Surroundings'
      BY <2>4 DEF Commit, RetentionInv, Surroundings
    <3>3. cycle[c].moved \subseteq arrived
      BY <2>0 DEF Sound, CycleRow
    <3>4. Tables'
      BY <2>4, <3>3 DEF Commit, Hot, RetentionInv, Tables, InOneTable
    <3> QED BY <3>1, <3>2, <3>4 DEF RetentionInv
  <2>5. CASE Deadlock(c)
    <3>1. TasksSound'
      BY <2>5, EndedSound, TaskChanges DEF Deadlock, RolledBack, RetentionInv
    <3>2. Surroundings' /\ Tables'
      BY <2>5 DEF Deadlock, RetentionInv, Surroundings, Tables, InOneTable
    <3> QED BY <3>1, <3>2 DEF RetentionInv
  <2> QED BY <1>2, <2>1, <2>2, <2>3, <2>4, <2>5 DEF CycleStep
<1>3. ASSUME NEW c \in Cycle, FailCycle(c)
      PROVE  RetentionInv'
  <2>1. TasksSound'
    BY <1>3, EndedSound, TaskChanges DEF FailCycle, RolledBack, RetentionInv
  <2>2. Surroundings' /\ Tables'
    BY <1>3, RetentionAssumption DEF FailCycle, RetentionInv, Surroundings, Tables, InOneTable
  <2> QED BY <2>1, <2>2 DEF RetentionInv
<1>4. CASE RetentionCrash
  <2>1. \A c \in Cycle : Sound(IF Running(c) THEN Ended(c) ELSE cycle[c], arrived)
    BY EndedSound DEF RetentionInv, TasksSound
  <2>2. \A c \in Cycle : cycle'[c] = IF Running(c) THEN Ended(c) ELSE cycle[c]
    BY <1>4 DEF RetentionCrash
  <2>4. TasksSound'
    BY <1>4, <2>1, <2>2 DEF RetentionCrash, TasksSound, Sound
  <2>3. Surroundings' /\ Tables'
    BY <1>4, RetentionAssumption DEF RetentionCrash, RetentionInv, Surroundings, Tables, InOneTable
  <2> QED BY <2>3, <2>4 DEF RetentionInv
<1>5. ASSUME NEW e \in StoredEvent, StoreRow(e)
      PROVE  RetentionInv'
  <2>1. arrived \subseteq arrived' /\ cycle' = cycle
    BY <1>5 DEF StoreRow
  <2>2. TasksSound'
    BY <2>1, SoundGrows DEF RetentionInv, TasksSound, Sound
  <2>3. Surroundings' /\ Tables'
    BY <1>5 DEF StoreRow, RetentionInv, Surroundings, Tables, InOneTable
  <2> QED BY <2>2, <2>3 DEF RetentionInv
<1>6. ASSUME NEW gone, DeleteEvents(gone)
      PROVE  RetentionInv'
  <2>1. TasksSound' /\ Surroundings'
    BY <1>6 DEF DeleteEvents, RetentionInv, TasksSound, Surroundings
  <2>2. Tables'
    BY <1>6 DEF DeleteEvents, RetentionInv, Tables, InOneTable
  <2> QED BY <2>1, <2>2 DEF RetentionInv
<1>7. CASE EditPolicies
  <2>1. TasksSound' /\ Tables'
    BY <1>7 DEF EditPolicies, RetentionInv, TasksSound, Tables, InOneTable
  <2>2. policies' \in Rows(Policy)
    BY <1>7, WriteRows, RestrictRows
    DEF EditPolicies, CreatePolicy, UpdatePolicy, DeletePolicy, RetentionInv, Surroundings
  <2>3. Surroundings'
    BY <1>7, <2>2, RetentionAssumption DEF EditPolicies, RetentionInv, Surroundings
  <2> QED BY <2>1, <2>3 DEF RetentionInv
<1>8. CASE DayPasses
  <2>1. TasksSound' /\ Surroundings' /\ Tables'
    BY <1>8, RetentionAssumption
    DEF DayPasses, RetentionInv, TasksSound, Surroundings, Tables, InOneTable
  <2> QED BY <2>1 DEF RetentionInv
<1>9. CASE UNCHANGED retentionVars
  BY <1>9 DEF retentionVars, RetentionInv, TasksSound, Surroundings, Tables, InOneTable
<1> QED BY <1>1, <1>2, <1>3, <1>4, <1>5, <1>6, <1>7, <1>8, <1>9, RetentionAssumption
        DEF RetentionNext, WakeLoop, RunNow

LEMMA RetentionStarts == RetentionInit => RetentionInv
<1> SUFFICES ASSUME RetentionInit
             PROVE  RetentionInv
  OBVIOUS
<1>1. NoCycle = [NoCycle EXCEPT !.pc = "idle"]
  BY NoCycleRow DEF CycleRow
<1>2. TasksSound
  BY <1>1, NoCycleSound DEF RetentionInit, TasksSound, Sound
<1>3. Surroundings
  BY NoRows, RetentionAssumption DEF RetentionInit, Surroundings
<1>4. Tables
  BY DEF RetentionInit, Tables, InOneTable
<1> QED BY <1>2, <1>3, <1>4 DEF RetentionInv

LEMMA RetentionAlways == RetentionSpec => []RetentionInv
<1> QED BY RetentionStarts, RetentionStep, PTL DEF RetentionSpec

\* Every variable of the retention cycles keeps its shape, and a task between cycles
\* carries nothing (retention.py:58-104).
THEOREM RetentionTyped == RetentionSpec => []RetentionTypeOK
<1>1. RetentionInv => RetentionTypeOK
  <2> SUFFICES ASSUME RetentionInv
               PROVE  RetentionTypeOK
    OBVIOUS
  <2>1. DOMAIN policies \subseteq Policy /\ \A p \in DOMAIN policies : policies[p] \in PolicyRow
    BY DEF RetentionInv, Surroundings, Rows
  <2>2. ASSUME NEW c \in Cycle
        PROVE  LET k == cycle[c]
               IN /\ k.pc \in {"idle", "select", "flush", "upload", "done"}
                  /\ k.archive \in BOOLEAN /\ k.moved \subseteq arrived /\ k.batch \subseteq arrived
                  /\ DOMAIN k.todo \subseteq Policy /\ \A p \in DOMAIN k.todo : k.todo[p].enabled
                  /\ ~Running(c) => k = [NoCycle EXCEPT !.pc = k.pc]
                  /\ k.pc = "upload" => k.archive /\ k.batch \subseteq k.moved
    <3>1. Sound(cycle[c], arrived)
      BY DEF RetentionInv, TasksSound
    <3>2. DOMAIN cycle[c].todo \subseteq Policy
      BY <3>1 DEF Sound, CycleRow, Rows
    <3> QED BY <3>1, <3>2 DEF Sound, CycleRow, Running
  <2> QED BY <2>1, <2>2 DEF RetentionTypeOK, RetentionInv, Surroundings, Tables
<1> QED BY <1>1, RetentionAlways, PTL

\* An event that no analyst deleted is in exactly one of the two tables, however cycles,
\* crashes, aborts and edits interleave (retention.py:58-104).
THEOREM EventsAreInOneTable == RetentionSpec => []InOneTable
<1>1. RetentionInv => InOneTable
  BY DEF RetentionInv, Tables
<1> QED BY <1>1, RetentionAlways, PTL

-----------------------------------------------------------------------------
(* UserBaselines *)

Ages == {"none", "flushed", "recent", "month", "old", "undone"}
ProfileRow == [hours : SUBSET Range(HourAt), ips : SUBSET Range(IpOf)]
Profiles == UNION {[U -> ProfileRow] : U \in SUBSET Range(UserOf)}
LoadedRow == [user : Range(UserOf), known : BOOLEAN, row : ProfileRow]
RefreshRow ==
  [pc : {"idle", "user", "flush", "over"}, todo : SUBSET Range(UserOf),
   loaded : SUBSET LoadedRow, changes : Profiles, broken : BOOLEAN]
DetectorRow == [pc : {"none", "profile", "recent", "persist", "over"}, score : Nat]

\* Values that are in the table, or are to be written there, were learnt from the user.
AllLearnt(values) == \A u \in DOMAIN values : values[u] \in Learnable(u)

RefreshSound(q) ==
  /\ q \in RefreshRow /\ AllLearnt(q.changes)
  /\ \A l \in q.loaded : l.row \in Learnable(l.user)
  /\ q.loaded = {} \/ \E l \in LoadedRow : q.loaded = {l}

\* Two transactions have not written the same profile.
Separate(p, q) == DOMAIN p.changes \cap DOMAIN q.changes = {}

Refreshing ==
  /\ refresh \in [Refresh -> RefreshRow]
  /\ \A r \in Refresh : RefreshSound(refresh[r])
  /\ \A p, q \in Refresh : p # q => Separate(refresh[p], refresh[q])

\* Whoever looks further than the profile has found one.
Detecting ==
  /\ detector \in [UserEvent -> DetectorRow] /\ anomalies \subseteq UserEvent
  /\ \A e \in UserEvent : detector[e].pc \in {"recent", "persist"} \/ e \in anomalies
                          => UserOf[e] \in DOMAIN profiles

Profiled == profiles \in Profiles /\ AllLearnt(profiles)

UebaInv == ageOf \in [UserEvent -> Ages] /\ Profiled /\ Refreshing /\ Detecting

LEMMA NoProfiles == <<>> \in Profiles /\ DOMAIN <<>> = {}
<1>1. <<>> = [u \in {} |-> [hours |-> {}, ips |-> {}]]
  OBVIOUS
<1>2. <<>> \in [{} -> ProfileRow]
  BY <1>1
<1> QED BY <1>1, <1>2 DEF Profiles

LEMMA LearnableRow == ASSUME NEW u PROVE Learnable(u) \subseteq ProfileRow
<1>1. {HourAt[e] : e \in Committed(u)} \subseteq Range(HourAt)
  BY UebaAssumption DEF Committed, Range
<1>2. {IpOf[e] : e \in Committed(u)} \subseteq Range(IpOf)
  BY UebaAssumption DEF Committed, Range
<1> QED BY <1>1, <1>2 DEF Learnable, ProfileRow

\* What was committed stays so, and with it what can be learnt.
Later == \A e \in UserEvent : ageOf[e] \in {"recent", "month", "old"} => ageOf'[e] \in {"recent", "month", "old"}

LEMMA LearnableGrows == ASSUME Later, NEW u PROVE Learnable(u) \subseteq Learnable(u)'
<1>1. Committed(u) \subseteq Committed(u)'
  BY DEF Later, Committed
<1>2. /\ {HourAt[e] : e \in Committed(u)} \subseteq {HourAt[e] : e \in Committed(u)'}
      /\ {IpOf[e] : e \in Committed(u)} \subseteq {IpOf[e] : e \in Committed(u)'}
  BY <1>1
<1>3. Learnable(u)' = [hours : SUBSET {HourAt[e] : e \in Committed(u)'},
                       ips : SUBSET {IpOf[e] : e \in Committed(u)'}]
  BY DEF Learnable
<1> QED BY <1>2, <1>3 DEF Learnable

LEMMA IdleRefresh ==
  ASSUME NEW pc \in {"idle", "over"}
  PROVE  LET q == [NoRefresh EXCEPT !.pc = pc]
         IN RefreshSound(q) /\ DOMAIN q.changes = {} /\ q.todo = {} /\ q.loaded = {} /\ ~q.broken
BY NoProfiles DEF NoRefresh, RefreshSound, RefreshRow, AllLearnt

-----------------------------------------------------------------------------
\* One refresh moves and takes no profile that another has written.
LEMMA RefreshMoves ==
  ASSUME Refreshing, ageOf' = ageOf, NEW r \in Refresh, NEW row, Refreshes(r, row), RefreshSound(row),
         \A q \in Refresh \ {r} : Separate(row, refresh[q])
  PROVE  Refreshing'
<1>1. row \in RefreshRow
  BY DEF RefreshSound
<1>2. /\ refresh' \in [Refresh -> RefreshRow] /\ refresh'[r] = row
      /\ \A q \in Refresh \ {r} : refresh'[q] = refresh[q]
  BY <1>1 DEF Refreshing, Refreshes
<1>3. \A u : Learnable(u)' = Learnable(u)
  BY DEF Learnable, Committed
<1>4. \A q \in Refresh : RefreshSound(refresh'[q])
  BY <1>2 DEF Refreshing
<1>5. \A q \in Refresh : RefreshSound(refresh[q])'
  BY <1>3, <1>4 DEF RefreshSound, AllLearnt
<1>6. \A q \in Refresh \ {r} : Separate(row, refresh[q]) /\ Separate(refresh[q], row)
  BY DEF Separate
<1>7. \A p, q \in Refresh : p # q => Separate(refresh'[p], refresh'[q])
  <2> SUFFICES ASSUME NEW p \in Refresh, NEW q \in Refresh, p # q
               PROVE  Separate(refresh'[p], refresh'[q])
    OBVIOUS
  <2>1. CASE p = r
    BY <2>1, <1>2, <1>6
  <2>2. CASE q = r
    BY <2>2, <1>2, <1>6
  <2>3. CASE p # r /\ q # r
    BY <2>3, <1>2 DEF Refreshing
  <2> QED BY <2>1, <2>2, <2>3
<1> QED BY <1>2, <1>5, <1>7 DEF Refreshing

\* A table that did not change, with the detectors.
LEMMA SameProfiles == ASSUME UebaInv, UNCHANGED <<ageOf, profiles>> PROVE Profiled'
<1>1. \A u : Learnable(u)' = Learnable(u)
  BY DEF Learnable, Committed
<1> QED BY <1>1 DEF UebaInv, Profiled, AllLearnt

LEMMA RefreshKeeps ==
  ASSUME UebaInv, NEW r \in Refresh, NEW row, Refreshes(r, row), RefreshSound(row),
         \A q \in Refresh \ {r} : Separate(row, refresh[q]), UNCHANGED <<ageOf, profiles, detector, anomalies>>
  PROVE  UebaInv'
<1>1. Refreshing'
  BY RefreshMoves DEF UebaInv
<1>2. Profiled'
  BY SameProfiles
<1> QED BY <1>1, <1>2 DEF UebaInv, Detecting

LEMMA BeginRefreshKeeps == ASSUME UebaInv, NEW r \in Refresh, BeginRefresh(r) PROVE UebaInv'
<1> DEFINE row == [NoRefresh EXCEPT !.pc = "user", !.todo = Users]
<1>1. Users \subseteq Range(UserOf)
  BY UebaAssumption DEF Users, Range
<1>2. row \in RefreshRow /\ row.changes = <<>> /\ row.loaded = {}
  BY <1>1, NoProfiles DEF NoRefresh, RefreshRow
<1>3. Refreshes(r, row) /\ UNCHANGED <<ageOf, profiles, detector, anomalies>>
  BY DEF BeginRefresh
<1> HIDE DEF row
<1>4. RefreshSound(row)
  BY <1>2, NoProfiles DEF RefreshSound, AllLearnt
<1>5. \A q \in Refresh \ {r} : Separate(row, refresh[q])
  BY <1>2, NoProfiles DEF Separate
<1> QED BY <1>3, <1>4, <1>5, RefreshKeeps

LEMMA ComputedIsLearnt ==
  ASSUME UebaInv, NEW u
  PROVE  LET old == IF u \in DOMAIN profiles THEN profiles[u] ELSE [hours |-> {}, ips |-> {}]
         IN Computed(u, old) \in Learnable(u)
<1> DEFINE old == IF u \in DOMAIN profiles THEN profiles[u] ELSE [hours |-> {}, ips |-> {}]
<1>1. old \in Learnable(u)
  <2>1. u \in DOMAIN profiles => profiles[u] \in Learnable(u)
    BY DEF UebaInv, Profiled, AllLearnt
  <2>2. [hours |-> {}, ips |-> {}] \in Learnable(u)
    BY DEF Learnable
  <2> QED BY <2>1, <2>2
<1> HIDE DEF old
<1>2. InMonth(u) \subseteq Committed(u)
  BY DEF InMonth, Committed
<1>3. [hours |-> {HourAt[e] : e \in InMonth(u)}, ips |-> {IpOf[e] : e \in InMonth(u)}] \in Learnable(u)
  BY <1>2 DEF Learnable
<1>4. Computed(u, old) \in Learnable(u)
  BY <1>1, <1>3 DEF Computed
<1> QED BY <1>4 DEF old

LEMMA ComputeKeeps == ASSUME UebaInv, NEW r \in Refresh, ComputeBaseline(r) PROVE UebaInv'
<1> DEFINE old(u) == IF u \in DOMAIN profiles THEN profiles[u] ELSE [hours |-> {}, ips |-> {}]
           l(u) == [user |-> u, known |-> u \in DOMAIN profiles, row |-> Computed(u, old(u))]
<1>1. PICK u \in refresh[r].todo :
        Refreshes(r, [refresh[r] EXCEPT !.pc = "flush", !.todo = @ \ {u}, !.loaded = {l(u)}])
  BY DEF ComputeBaseline
<1> DEFINE q == refresh[r]
           row == [q EXCEPT !.pc = "flush", !.todo = @ \ {u}, !.loaded = {l(u)}]
<1>2. q \in RefreshRow /\ RefreshSound(q)
  BY DEF UebaInv, Refreshing
<1>3. u \in Range(UserOf)
  BY <1>2 DEF RefreshRow
<1>4. Computed(u, old(u)) \in Learnable(u)
  BY ComputedIsLearnt
<1>5. Computed(u, old(u)) \in ProfileRow
  BY <1>4, LearnableRow
<1>6. l(u) \in LoadedRow /\ l(u).user = u /\ l(u).row = Computed(u, old(u))
  BY <1>3, <1>5 DEF LoadedRow
<1> HIDE DEF l, old
<1>7. row \in RefreshRow /\ row.changes = q.changes /\ row.loaded = {l(u)}
  BY <1>2, <1>6 DEF RefreshRow
<1>8. Refreshes(r, row) /\ UNCHANGED <<ageOf, profiles, detector, anomalies>>
  BY <1>1 DEF ComputeBaseline
<1>9. \A p \in Refresh \ {r} : Separate(q, refresh[p])
  BY DEF UebaInv, Refreshing
<1> HIDE DEF q, row
<1>10. RefreshSound(row)
  BY <1>2, <1>4, <1>6, <1>7 DEF RefreshSound
<1>11. \A p \in Refresh \ {r} : Separate(row, refresh[p])
  BY <1>7, <1>9 DEF Separate
<1> QED BY <1>8, <1>10, <1>11, RefreshKeeps

\* A broken session keeps nothing of what it wrote.
LEMMA BreakKeeps ==
  ASSUME UebaInv, NEW r \in Refresh, Break(r), UNCHANGED <<ageOf, profiles, detector, anomalies>>
  PROVE  UebaInv'
<1> DEFINE q == refresh[r]
           row == [q EXCEPT !.pc = "user", !.loaded = {}, !.changes = <<>>, !.broken = TRUE]
<1>1. q \in RefreshRow
  BY DEF UebaInv, Refreshing
<1>2. row \in RefreshRow /\ row.changes = <<>> /\ row.loaded = {}
  BY <1>1, NoProfiles DEF RefreshRow
<1>3. Refreshes(r, row)
  BY DEF Break
<1> HIDE DEF q, row
<1>4. RefreshSound(row)
  BY <1>2, NoProfiles DEF RefreshSound, AllLearnt
<1>5. \A p \in Refresh \ {r} : Separate(row, refresh[p])
  BY <1>2, NoProfiles DEF Separate
<1> QED BY <1>3, <1>4, <1>5, RefreshKeeps

\* A flush writes a profile that no other transaction has written: it would wait.
LEMMA FlushBaselineKeeps == ASSUME UebaInv, NEW r \in Refresh, FlushBaseline(r) PROVE UebaInv'
<1>1. UNCHANGED <<ageOf, profiles, detector, anomalies>>
  BY DEF FlushBaseline
<1>2. CASE Break(r)
  BY <1>1, <1>2, BreakKeeps
<1> DEFINE q == refresh[r]
           grown(l) == [u \in DOMAIN q.changes \cup {l.user} |-> IF u = l.user THEN l.row ELSE q.changes[u]]
           row(l) == [q EXCEPT !.pc = "user", !.loaded = {}, !.changes = grown(l)]
<1>3. CASE \E l \in q.loaded : Refreshes(r, row(l))
  <2>1. PICK l \in q.loaded : Refreshes(r, row(l))
    BY <1>3
  <2>2. /\ q \in RefreshRow /\ RefreshSound(q) /\ refresh \in [Refresh -> RefreshRow]
    BY DEF UebaInv, Refreshing
  <2>3. l \in LoadedRow /\ l.row \in Learnable(l.user) /\ AllLearnt(q.changes) /\ q.changes \in Profiles
    BY <2>2 DEF RefreshSound, RefreshRow
  <2>4. l.user \in Range(UserOf) /\ l.row \in ProfileRow
    BY <2>3 DEF LoadedRow
  <2>5. PICK U \in SUBSET Range(UserOf) : q.changes \in [U -> ProfileRow]
    BY <2>3 DEF Profiles
  <2>6. grown(l) \in [U \cup {l.user} -> ProfileRow] /\ DOMAIN grown(l) = U \cup {l.user}
    BY <2>4, <2>5
  <2>7. grown(l) \in Profiles
    BY <2>4, <2>6 DEF Profiles
  <2>8. AllLearnt(grown(l))
    BY <2>3, <2>5 DEF AllLearnt
  <2> HIDE DEF grown
  <2>9. row(l) \in RefreshRow /\ row(l).changes = grown(l) /\ row(l).loaded = {}
    BY <2>2, <2>7 DEF RefreshRow
  <2>10. \A p \in Refresh \ {r} : Separate(q, refresh[p])
    BY DEF UebaInv, Refreshing
  <2>11. \A p \in Refresh \ {r} : l.user \notin DOMAIN refresh[p].changes
    BY <2>1 DEF FlushBaseline, Await, Profile
  <2> HIDE DEF q, row
  <2>12. RefreshSound(row(l))
    BY <2>8, <2>9 DEF RefreshSound
  <2>13. \A p \in Refresh \ {r} : Separate(row(l), refresh[p])
    BY <2>5, <2>6, <2>9, <2>10, <2>11 DEF Separate
  <2> QED BY <1>1, <2>1, <2>12, <2>13, RefreshKeeps
<1>4. Break(r) \/ \E l \in q.loaded : Refreshes(r, row(l))
  BY DEF FlushBaseline
<1> QED BY <1>2, <1>3, <1>4

LEMMA CommitRefreshKeeps == ASSUME UebaInv, NEW r \in Refresh, CommitRefresh(r) PROVE UebaInv'
<1> DEFINE q == refresh[r]
           row == EndedRefresh(r)
<1>1. /\ q \in RefreshRow /\ RefreshSound(q)
  BY DEF UebaInv, Refreshing
<1>2. Refreshes(r, row) /\ UNCHANGED <<ageOf, detector, anomalies>>
  BY DEF CommitRefresh
<1>3. RefreshSound(row) /\ DOMAIN row.changes = {}
  BY IdleRefresh DEF EndedRefresh
<1>4. profiles' = profiles \/ profiles' = Stamped(r)
  BY DEF CommitRefresh
<1>5. q.changes \in Profiles /\ AllLearnt(q.changes)
  BY <1>1 DEF RefreshRow, RefreshSound
<1>6. Stamped(r) = [u \in DOMAIN profiles \cup DOMAIN q.changes |->
                      IF u \in DOMAIN q.changes THEN q.changes[u] ELSE profiles[u]]
  BY DEF Stamped
<1> HIDE DEF q, row
<1>7. Refreshing'
  <2>1. \A p \in Refresh \ {r} : Separate(row, refresh[p])
    BY <1>3 DEF Separate
  <2> QED BY <2>1, <1>2, <1>3, RefreshMoves DEF UebaInv
<1>8. Stamped(r) \in Profiles /\ AllLearnt(Stamped(r)) /\ DOMAIN profiles \subseteq DOMAIN Stamped(r)
  <2>1. PICK U \in SUBSET Range(UserOf) : q.changes \in [U -> ProfileRow]
    BY <1>5 DEF Profiles
  <2>2. PICK V \in SUBSET Range(UserOf) : profiles \in [V -> ProfileRow]
    BY DEF UebaInv, Profiled, Profiles
  <2>3. Stamped(r) \in [V \cup U -> ProfileRow]
    BY <1>6, <2>1, <2>2
  <2>4. AllLearnt(Stamped(r))
    BY <1>5, <1>6, <2>1, <2>2 DEF AllLearnt, UebaInv, Profiled
  <2> QED BY <2>2, <2>3, <2>4 DEF Profiles
<1>9. profiles' \in Profiles /\ AllLearnt(profiles') /\ DOMAIN profiles \subseteq DOMAIN profiles'
  BY <1>4, <1>8 DEF UebaInv, Profiled
<1>10. \A u : Learnable(u)' = Learnable(u)
  BY <1>2 DEF Learnable, Committed
<1>11. Profiled'
  BY <1>9, <1>10 DEF Profiled, AllLearnt
<1> QED BY <1>2, <1>7, <1>9, <1>11 DEF UebaInv, Detecting

-----------------------------------------------------------------------------
\* Events come, are committed or undone, and age.
LEMMA EventsMove ==
  ASSUME UebaInv, ageOf' \in [UserEvent -> Ages], Later, UNCHANGED <<profiles, refresh>>
  PROVE  Profiled' /\ Refreshing'
<1>1. \A u : Learnable(u) \subseteq Learnable(u)'
  BY LearnableGrows
<1>2. Profiled'
  BY <1>1 DEF UebaInv, Profiled, AllLearnt
<1>3. \A r \in Refresh : RefreshSound(refresh[r])'
  BY <1>1 DEF UebaInv, Refreshing, RefreshSound, AllLearnt
<1> QED BY <1>2, <1>3 DEF UebaInv, Refreshing

LEMMA DetectorMoves ==
  ASSUME Detecting, NEW e \in UserEvent, NEW row \in DetectorRow, Detects(e, row), profiles' = profiles,
         row.pc \in {"recent", "persist"} => UserOf[e] \in DOMAIN profiles,
         anomalies' = anomalies \/ (anomalies' = anomalies \cup {e} /\ UserOf[e] \in DOMAIN profiles)
  PROVE  Detecting'
<1>1. /\ detector' \in [UserEvent -> DetectorRow] /\ detector'[e] = row
      /\ \A f \in UserEvent \ {e} : detector'[f] = detector[f]
  BY DEF Detecting, Detects
<1> QED BY <1>1 DEF Detecting

LEMMA NoDetectorRow == ASSUME NEW pc \in {"none", "profile", "over"}
                       PROVE  [NoDetector EXCEPT !.pc = pc] \in DetectorRow /\ [NoDetector EXCEPT !.pc = pc].pc = pc
BY DEF NoDetector, DetectorRow

LEMMA UserEventsKeep ==
  ASSUME UebaInv, NEW e \in UserEvent, StoreUserEvent(e) \/ CommitUserEvent(e) \/ UndoUserEvent(e)
  PROVE  UebaInv'
<1>1. ageOf \in [UserEvent -> Ages] /\ Detecting
  BY DEF UebaInv
<1>2. UNCHANGED <<profiles, refresh, anomalies>>
  BY DEF StoreUserEvent, CommitUserEvent, UndoUserEvent
<1>3. ageOf' \in [UserEvent -> Ages] /\ Later
  BY <1>1 DEF StoreUserEvent, CommitUserEvent, UndoUserEvent, Ages, Later
<1>4. Profiled' /\ Refreshing'
  BY <1>2, <1>3, EventsMove
<1>5. Detecting'
  <2>1. CASE StoreUserEvent(e)
    <3>1. Detects(e, [NoDetector EXCEPT !.pc = "profile"])
      BY <2>1 DEF StoreUserEvent
    <3>2. /\ [NoDetector EXCEPT !.pc = "profile"] \in DetectorRow
          /\ [NoDetector EXCEPT !.pc = "profile"].pc = "profile"
      BY NoDetectorRow
    <3> QED BY <1>1, <1>2, <3>1, <3>2, DetectorMoves
  <2>2. CASE CommitUserEvent(e) \/ UndoUserEvent(e)
    <3>1. detector' = detector
      BY <2>2 DEF CommitUserEvent, UndoUserEvent
    <3> QED BY <1>1, <1>2, <3>1 DEF Detecting
  <2> QED BY <2>1, <2>2
<1> QED BY <1>3, <1>4, <1>5 DEF UebaInv

LEMMA EventsAgeKeeps == ASSUME UebaInv, EventsAge PROVE UebaInv'
<1>1. PICK gone \in {"recent", "month"} :
        ageOf' = [e \in UserEvent |->
                    CASE gone = "recent" /\ ageOf[e] = "recent" -> "month"
                      [] gone = "month" /\ ageOf[e] \in {"recent", "month"} -> "old"
                      [] OTHER -> ageOf[e]]
  BY DEF EventsAge
<1>2. ageOf \in [UserEvent -> Ages] /\ Detecting /\ UNCHANGED <<profiles, refresh, anomalies, detector>>
  BY DEF UebaInv, EventsAge
<1>3. ageOf' \in [UserEvent -> Ages] /\ Later
  BY <1>1, <1>2 DEF Ages, Later
<1>4. Profiled' /\ Refreshing'
  BY <1>2, <1>3, EventsMove
<1> QED BY <1>2, <1>3, <1>4 DEF UebaInv, Detecting

LEMMA DetectorKeeps == ASSUME UebaInv, NEW e \in UserEvent, DetectorStep(e) PROVE UebaInv'
<1>1. ageOf \in [UserEvent -> Ages] /\ Detecting /\ UNCHANGED <<ageOf, profiles, refresh>>
  BY DEF UebaInv, DetectorStep, ReadProfile, ReadRecent, PersistAnomaly
<1>2. Later
  BY <1>1 DEF Later
<1>3. Profiled' /\ Refreshing'
  BY <1>1, <1>2, EventsMove
<1>4. detector[e] \in DetectorRow
  BY <1>1 DEF Detecting
<1>5. /\ [NoDetector EXCEPT !.pc = "over"] \in DetectorRow
      /\ [NoDetector EXCEPT !.pc = "over"].pc = "over"
  BY NoDetectorRow
<1>6. CASE ReadProfile(e)
  <2>1. \/ Detects(e, [NoDetector EXCEPT !.pc = "over"])
        \/ UserOf[e] \in DOMAIN profiles /\ \E n \in Nat : Detects(e, [pc |-> "recent", score |-> n])
    BY <1>6 DEF ReadProfile
  <2>2. \A n \in Nat : [pc |-> "recent", score |-> n] \in DetectorRow
    BY DEF DetectorRow
  <2>3. anomalies' = anomalies
    BY <1>6 DEF ReadProfile
  <2>4. Detecting'
    BY <1>1, <1>5, <2>1, <2>2, <2>3, DetectorMoves
  <2> QED BY <2>4, <1>1, <1>3 DEF UebaInv
<1>7. CASE ReadRecent(e)
  <2>1. UserOf[e] \in DOMAIN profiles
    BY <1>1, <1>7 DEF Detecting, ReadRecent
  <2>2. \E place \in {"over", "persist"}, n \in {0, 60} :
          Detects(e, [pc |-> place, score |-> detector[e].score + n])
    BY <1>7 DEF ReadRecent
  <2>3. \A place \in {"over", "persist"}, n \in {0, 60} :
          [pc |-> place, score |-> detector[e].score + n] \in DetectorRow
    BY <1>4 DEF DetectorRow
  <2>4. anomalies' = anomalies
    BY <1>7 DEF ReadRecent
  <2>5. Detecting'
    BY <1>1, <2>1, <2>2, <2>3, <2>4, DetectorMoves
  <2> QED BY <2>5, <1>1, <1>3 DEF UebaInv
<1>8. CASE PersistAnomaly(e)
  <2>1. UserOf[e] \in DOMAIN profiles
    BY <1>1, <1>8 DEF Detecting, PersistAnomaly
  <2>2. Detects(e, [NoDetector EXCEPT !.pc = "over"]) /\ anomalies' = anomalies \cup {e}
    BY <1>8 DEF PersistAnomaly
  <2>3. Detecting'
    BY <1>1, <1>5, <2>1, <2>2, DetectorMoves
  <2> QED BY <2>3, <1>1, <1>3 DEF UebaInv
<1> QED BY <1>6, <1>7, <1>8 DEF DetectorStep

LEMMA UebaCrashKeeps == ASSUME UebaInv, UebaCrash PROVE UebaInv'
<1>1. /\ refresh' = [r \in Refresh |-> IF refresh[r].pc = "idle" THEN NoRefresh ELSE EndedRefresh(r)]
      /\ detector' = [e \in UserEvent |-> NoDetector]
      /\ ageOf' = [e \in UserEvent |-> IF ageOf[e] = "flushed" THEN "undone" ELSE ageOf[e]]
      /\ UNCHANGED <<profiles, anomalies>> /\ ageOf \in [UserEvent -> Ages]
  BY DEF UebaCrash, UebaInv
<1>2. ageOf' \in [UserEvent -> Ages] /\ Later
  BY <1>1 DEF Ages, Later
<1>3. Profiled'
  <2>1. \A u : Learnable(u) \subseteq Learnable(u)'
    BY <1>2, LearnableGrows
  <2> QED BY <1>1, <2>1 DEF UebaInv, Profiled, AllLearnt
<1>4. \A r \in Refresh : RefreshSound(refresh'[r]) /\ DOMAIN refresh'[r].changes = {} /\ refresh'[r].loaded = {}
  <2>1. NoRefresh = [NoRefresh EXCEPT !.pc = "idle"]
    BY DEF NoRefresh
  <2> QED BY <1>1, <2>1, IdleRefresh DEF EndedRefresh
<1>5. Refreshing'
  <2>1. \A r \in Refresh : RefreshSound(refresh[r])'
    BY <1>4 DEF RefreshSound, AllLearnt
  <2>2. refresh' \in [Refresh -> RefreshRow]
    BY <1>1, <1>4 DEF RefreshSound
  <2>3. \A p, q \in Refresh : Separate(refresh'[p], refresh'[q])
    BY <1>4 DEF Separate
  <2> QED BY <2>1, <2>2, <2>3 DEF Refreshing
<1>6. Detecting'
  <2>1. NoDetector \in DetectorRow /\ NoDetector.pc = "none"
    BY DEF NoDetector, DetectorRow
  <2> QED BY <1>1, <2>1 DEF UebaInv, Detecting
<1> QED BY <1>2, <1>3, <1>5, <1>6 DEF UebaInv

LEMMA UebaStarts == UebaInit => UebaInv
<1> SUFFICES ASSUME UebaInit PROVE UebaInv
  OBVIOUS
<1>1. NoRefresh = [NoRefresh EXCEPT !.pc = "idle"]
  BY DEF NoRefresh
<1>2. RefreshSound(NoRefresh) /\ DOMAIN NoRefresh.changes = {}
  BY <1>1, IdleRefresh
<1>3. \A r \in Refresh : refresh[r] = NoRefresh
  BY DEF UebaInit
<1>4. Refreshing
  <2>1. refresh \in [Refresh -> RefreshRow]
    BY <1>2 DEF UebaInit, RefreshSound
  <2> QED BY <2>1, <1>2, <1>3 DEF Refreshing, Separate
<1>5. Profiled
  BY NoProfiles DEF UebaInit, Profiled, AllLearnt
<1>6. Detecting
  <2>1. NoDetector \in DetectorRow /\ NoDetector.pc = "none"
    BY DEF NoDetector, DetectorRow
  <2> QED BY <2>1 DEF UebaInit, Detecting
<1>7. ageOf \in [UserEvent -> Ages]
  BY DEF UebaInit, Ages
<1> QED BY <1>4, <1>5, <1>6, <1>7 DEF UebaInv

LEMMA UebaGoesOn == UebaInv /\ [UebaNext]_uebaVars => UebaInv'
<1> SUFFICES ASSUME UebaInv, [UebaNext]_uebaVars PROVE UebaInv'
  OBVIOUS
<1>1. ASSUME NEW r \in Refresh, BeginRefresh(r) \/ RefreshStep(r) \/ FailRefresh(r) PROVE UebaInv'
  <2>1. CASE BeginRefresh(r)
    BY <2>1, BeginRefreshKeeps
  <2>2. CASE ComputeBaseline(r)
    BY <2>2, ComputeKeeps
  <2>3. CASE FlushBaseline(r)
    BY <2>3, FlushBaselineKeeps
  <2>4. CASE RefreshDeadlock(r) \/ FailRefresh(r)
    BY <2>4, BreakKeeps DEF RefreshDeadlock, FailRefresh
  <2>5. CASE CommitRefresh(r)
    BY <2>5, CommitRefreshKeeps
  <2> QED BY <1>1, <2>1, <2>2, <2>3, <2>4, <2>5 DEF RefreshStep
<1>2. ASSUME NEW e \in UserEvent, StoreUserEvent(e) \/ CommitUserEvent(e) \/ UndoUserEvent(e) PROVE UebaInv'
  BY <1>2, UserEventsKeep
<1>3. ASSUME NEW e \in UserEvent, DetectorStep(e) PROVE UebaInv'
  BY <1>3, DetectorKeeps
<1>4. CASE EventsAge
  BY <1>4, EventsAgeKeeps
<1>5. CASE UebaCrash
  BY <1>5, UebaCrashKeeps
<1>6. CASE UNCHANGED uebaVars
  <2>1. UNCHANGED <<ageOf, profiles, refresh, detector, anomalies>>
    BY <1>6 DEF uebaVars
  <2>2. ageOf' \in [UserEvent -> Ages] /\ Later
    BY <2>1 DEF UebaInv, Later
  <2>3. Profiled' /\ Refreshing'
    BY <2>1, <2>2, EventsMove
  <2> QED BY <2>1, <2>2, <2>3 DEF UebaInv, Detecting
<1> QED BY <1>1, <1>2, <1>3, <1>4, <1>5, <1>6 DEF UebaNext

\* For every set of events, users and refreshes, and whatever refreshes wait for one another,
\* clash over a new profile, fail or crash: no two transactions hold one profile, profiles
\* are learnt from committed events of their own user alone, and anomalies are of users
\* that have one (baseline.py:19-94, anomaly_detector.py:18-31).
THEOREM ProfilesAreLearnt == UebaSpec => [](UebaTypeOK /\ BaselinesAreLearnt)
<1>1. UebaInv => UebaTypeOK /\ BaselinesAreLearnt
  <2> SUFFICES ASSUME UebaInv PROVE UebaTypeOK /\ BaselinesAreLearnt
    OBVIOUS
  <2>1. DOMAIN profiles \subseteq Range(UserOf)
    BY DEF UebaInv, Profiled, Profiles
  <2>2. \A e \in UserEvent : /\ ageOf[e] \in {"none", "flushed", "recent", "month", "old", "undone"}
                             /\ detector[e].pc \in {"none", "profile", "recent", "persist", "over"}
    <3>1. \A e \in UserEvent : ageOf[e] \in Ages /\ detector[e] \in DetectorRow
      BY DEF UebaInv, Detecting
    <3> QED BY <3>1 DEF Ages, DetectorRow
  <2>3. \A r \in Refresh : refresh[r].pc \in {"idle", "user", "flush", "over"}
    BY DEF UebaInv, Refreshing, RefreshRow
  <2>4. \A r \in Refresh : Cardinality(refresh[r].loaded) <= 1
    <3> SUFFICES ASSUME NEW r \in Refresh PROVE Cardinality(refresh[r].loaded) <= 1
      OBVIOUS
    <3>1. refresh[r].loaded = {} \/ \E l \in LoadedRow : refresh[r].loaded = {l}
      BY DEF UebaInv, Refreshing, RefreshSound
    <3>2. Cardinality({}) = 0 /\ \A l \in LoadedRow : Cardinality({l}) = 1
      BY FS_EmptySet, FS_Singleton
    <3>3. Cardinality(refresh[r].loaded) = 0 \/ Cardinality(refresh[r].loaded) = 1
      BY <3>1, <3>2
    <3> QED BY <3>3
  <2>5. UebaTypeOK
    BY <2>1, <2>2, <2>3, <2>4 DEF UebaInv, Refreshing, Detecting, Separate, UebaTypeOK
  <2>6. BaselinesAreLearnt
    BY DEF UebaInv, Profiled, AllLearnt, Detecting, BaselinesAreLearnt
  <2> QED BY <2>5, <2>6
<1> QED BY UebaStarts, UebaGoesOn, <1>1, PTL DEF UebaSpec
=============================================================================
