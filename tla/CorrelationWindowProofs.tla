---------------------- MODULE CorrelationWindowProofs ----------------------
(***************************************************************************)
(* Proofs about CorrelationWindow, for every set of events, rules, groups  *)
(* and rule versions, every lag and skew of the timestamps.                *)
(***************************************************************************)
EXTENDS CorrelationWindow, FiniteSetTheorems, TLAPS

\* A coroutine still has to evaluate only rules that were enabled when it
\* began and whose condition its event meets.
TodoEnabled ==
  \A e \in Events : task[e] # NotEvaluated =>
    \A r \in task[e].todo : task[e].rules[r] # Disabled /\ task[e].match[r] # NoGroup

TypeInv == TypeOK /\ TodoEnabled

\* The counter that EvaluateRule(e, r) reads and the one it computes.
KeyOf(e, r) == <<r, task[e].match[r]>>
RuleOf(e, r) == task[e].rules[r]
OldCounter(e, r) ==
  IF counters[KeyOf(e, r)] = NoCounter THEN NewCounter(RuleOf(e, r).window)
                                       ELSE counters[KeyOf(e, r)]
Updated(e, r) == Add([OldCounter(e, r) EXCEPT !.window = RuleOf(e, r).window], e)
Met(e, r) == Cardinality(Updated(e, r).events) >= RuleOf(e, r).threshold

-----------------------------------------------------------------------------
\* Purging keeps the window of a counter and drops events from it.
LEMMA PurgeResult ==
  ASSUME NEW c \in Counter, NEW t
  PROVE  /\ Purge(c, t) \in Counter
         /\ Purge(c, t).window = c.window
         /\ Purge(c, t).events \subseteq c.events
         /\ \A e \in Purge(c, t).events : Timestamp(e) >= t - c.window
BY DEF Purge, Counter

\* What EvaluateRule puts together: the new event and what the counter held,
\* all within the rule's window of the new event.
LEMMA UpdatedCounter ==
  ASSUME TypeInv, NEW e \in Events, NEW r \in Rules,
         task[e] # NotEvaluated, r \in task[e].todo
  PROVE  /\ KeyOf(e, r) \in Keys
         /\ RuleOf(e, r) \in Versions
         /\ OldCounter(e, r) \in Counter
         /\ OldCounter(e, r).events \subseteq
              (IF counters[KeyOf(e, r)] = NoCounter THEN {} ELSE counters[KeyOf(e, r)].events)
         /\ Updated(e, r) \in Counter
         /\ Updated(e, r).events \subseteq OldCounter(e, r).events \cup {e}
         /\ \A x \in Updated(e, r).events :
              Timestamp(x) >= Timestamp(e) - RuleOf(e, r).window
<1>1. task[e] \in Task
  BY DEF TypeInv, TypeOK
<1>2. /\ RuleOf(e, r) \in Versions
      /\ KeyOf(e, r) \in Keys
  BY <1>1 DEF TypeInv, TodoEnabled, Task, RuleTable, Matching, RuleOf, KeyOf, Keys
<1>3. RuleOf(e, r).window \in Int
  BY <1>2, VersionsAssumption
<1>4. /\ OldCounter(e, r) \in Counter
      /\ OldCounter(e, r).events \subseteq
           (IF counters[KeyOf(e, r)] = NoCounter THEN {} ELSE counters[KeyOf(e, r)].events)
  BY <1>2, <1>3 DEF TypeInv, TypeOK, OldCounter, NewCounter, Counter
<1> DEFINE c == [OldCounter(e, r) EXCEPT !.window = RuleOf(e, r).window]
           d == [c EXCEPT !.events = c.events \cup {e}]
<1>5. /\ d \in Counter
      /\ d.window = RuleOf(e, r).window
      /\ d.events = OldCounter(e, r).events \cup {e}
  BY <1>3, <1>4 DEF Counter
<1>6. Updated(e, r) = Purge(d, Timestamp(e))
  BY DEF Updated, Add
<1> HIDE DEF c, d
<1>7. QED
  BY <1>2, <1>4, <1>5, <1>6, PurgeResult

\* The effect of EvaluateRule in these terms.
LEMMA EvaluateRuleEffect ==
  ASSUME NEW e \in Events, NEW r \in Rules, EvaluateRule(e, r)
  PROVE  /\ counters' = [counters EXCEPT ![KeyOf(e, r)] =
              IF Met(e, r) THEN NewCounter(RuleOf(e, r).window) ELSE Updated(e, r)]
         /\ fired' = IF Met(e, r)
              THEN fired \cup {[key |-> KeyOf(e, r), by |-> e,
                                events |-> Updated(e, r).events, rule |-> RuleOf(e, r)]}
              ELSE fired
         /\ task' = [task EXCEPT ![e].todo = @ \ {r}]
         /\ UNCHANGED <<now, rules>>
         /\ task[e] # NotEvaluated
         /\ r \in task[e].todo
BY DEF EvaluateRule, KeyOf, RuleOf, OldCounter, Updated, Met, ThresholdMet, Reset

-----------------------------------------------------------------------------
\* TypeInv is inductive.
LEMMA TypeInvInit == Init => TypeInv
BY BoundsAssumption DEF Init, TypeInv, TypeOK, TodoEnabled

LEMMA TypeInvStep == TypeInv /\ [Next]_vars => TypeInv'
<1> SUFFICES ASSUME TypeInv, [Next]_vars
             PROVE  TypeInv'
  OBVIOUS
<1> USE DEF TypeInv
<1>1. CASE Tick
  BY <1>1, BoundsAssumption DEF Tick, TypeOK, TodoEnabled
<1>2. CASE LoadRules
  BY <1>2 DEF LoadRules, TypeOK, TodoEnabled
<1>3. ASSUME NEW e \in Events, EvaluateEvent(e)
      PROVE  TypeInv'
  <2>1. PICK ts \in (now - MaxLag)..(now + MaxSkew), match \in Matching :
          task' = [task EXCEPT ![e] =
            [ts |-> ts, match |-> match, rules |-> rules,
             todo |-> Applicable(match)]]
    BY <1>3 DEF EvaluateEvent
  <2>2. ts \in Int
    BY BoundsAssumption DEF TypeOK
  <2>3. task'[e] \in Task /\ task' \in [Events -> Task \cup {NotEvaluated}]
    BY <2>1, <2>2 DEF TypeOK, Task, Applicable
  <2>4. TypeOK'
    BY <1>3, <2>3 DEF EvaluateEvent, TypeOK
  <2>5. TodoEnabled'
    BY <2>1 DEF TodoEnabled, TypeOK, Applicable
  <2>6. QED
    BY <2>4, <2>5
<1>4. ASSUME NEW e \in Events, NEW r \in Rules, EvaluateRule(e, r)
      PROVE  TypeInv'
  <2> USE EvaluateRuleEffect, <1>4
  <2>1. /\ KeyOf(e, r) \in Keys
        /\ RuleOf(e, r) \in Versions
        /\ Updated(e, r) \in Counter
    BY UpdatedCounter
  <2>2. NewCounter(RuleOf(e, r).window) \in Counter
    BY <2>1, VersionsAssumption DEF NewCounter, Counter
  <2>3. counters' \in [Keys -> Counter \cup {NoCounter}]
    BY <2>1, <2>2 DEF TypeOK
  <2>4. fired' \subseteq Firing
    BY <2>1 DEF TypeOK, Firing, Counter
  <2>5. task[e] \in Task
    BY DEF TypeOK
  <2>6. task' \in [Events -> Task \cup {NotEvaluated}]
    BY <2>5 DEF TypeOK, Task
  <2>7. TodoEnabled'
    BY <2>5 DEF TodoEnabled, TypeOK, Task
  <2>8. QED
    BY <2>3, <2>4, <2>6, <2>7 DEF TypeOK
<1>5. CASE PurgeOldCounters
  <2>1. \A k \in Keys : counters[k] # NoCounter => Purge(counters[k], now) \in Counter
    BY PurgeResult DEF TypeOK
  <2>2. QED
    BY <1>5, <2>1 DEF PurgeOldCounters, TypeOK, TodoEnabled
<1>6. CASE UNCHANGED vars
  BY <1>6 DEF vars, TypeOK, TodoEnabled
<1>7. QED
  BY <1>1, <1>2, <1>3, <1>4, <1>5, <1>6 DEF Next

\* TypeOK: every counter, firing and task has the shape the code gives it, and
\* the engine evaluates only rules that were enabled when the loop began.
THEOREM TypeCorrect == Spec => []TypeOK
<1>1. TypeInv => TypeOK
  BY DEF TypeInv
<1>2. QED
  BY <1>1, TypeInvInit, TypeInvStep, PTL DEF Spec
-----------------------------------------------------------------------------
\* An event evaluated on a key stays evaluated on it, with its timestamp.
LEMMA EvaluatedStable ==
  ASSUME TypeInv, [Next]_vars, NEW x \in Events, NEW k \in Keys, Evaluated(x, k)
  PROVE  Evaluated(x, k)' /\ Timestamp(x)' = Timestamp(x)
<1> USE DEF Evaluated, Timestamp
<1>1. CASE Tick \/ LoadRules \/ PurgeOldCounters \/ UNCHANGED vars
  BY <1>1 DEF Tick, LoadRules, PurgeOldCounters, vars
<1>2. ASSUME NEW e \in Events, EvaluateEvent(e)
      PROVE  Evaluated(x, k)' /\ Timestamp(x)' = Timestamp(x)
  BY <1>2 DEF EvaluateEvent, TypeInv, TypeOK
<1>3. ASSUME NEW e \in Events, NEW r \in Rules, EvaluateRule(e, r)
      PROVE  Evaluated(x, k)' /\ Timestamp(x)' = Timestamp(x)
  <2>1. /\ task[e] \in Task
        /\ task' = [task EXCEPT ![e].todo = @ \ {r}]
    BY <1>3, EvaluateRuleEffect DEF TypeInv, TypeOK
  <2>2. x = e => /\ task'[x].match = task[x].match
                 /\ task'[x].rules = task[x].rules
                 /\ task'[x].ts = task[x].ts
                 /\ task'[x].todo \subseteq task[x].todo
                 /\ task'[x] \in Task
    BY <2>1 DEF Task, TypeInv, TypeOK
  <2>3. x # e => task'[x] = task[x]
    BY <2>1 DEF TypeInv, TypeOK
  <2>4. QED
    BY <2>2, <2>3, MarksAssumption DEF Task, Matching, RuleTable
<1>4. QED
  BY <1>1, <1>2, <1>3 DEF Next

-----------------------------------------------------------------------------
\* The inductive invariant of the evidence: an event sits in a counter or in a
\* firing of a key only after it was evaluated on it, in at most one of them.
\* Without WaitingIsUnconsumed the disjointness of the firings is not
\* inductive: a firing could take an event that an earlier one already took.
EvidenceInv ==
  /\ TypeInv
  /\ WaitingIsUnconsumed
  /\ FiringsDisjoint
  /\ FiringsJustified

\* What justifies a firing goes on justifying it.
LEMMA FiringStaysJustified ==
  ASSUME EvidenceInv, [Next]_vars, NEW f \in fired
  PROVE  /\ Cardinality(f.events) >= f.rule.threshold
         /\ Evaluated(f.by, f.key)'
         /\ \A x \in f.events :
              /\ Evaluated(x, f.key)'
              /\ Timestamp(x)' >= Timestamp(f.by)' - f.rule.window
<1>1. f.key \in Keys /\ f.by \in Events /\ f.events \subseteq Events
  BY DEF EvidenceInv, TypeInv, TypeOK, Firing
<1>2. Evaluated(f.by, f.key)' /\ Timestamp(f.by)' = Timestamp(f.by)
  BY <1>1, EvaluatedStable DEF EvidenceInv, FiringsJustified
<1>3. ASSUME NEW x \in f.events
      PROVE  Evaluated(x, f.key)' /\ Timestamp(x)' = Timestamp(x)
  BY <1>1, EvaluatedStable DEF EvidenceInv, FiringsJustified
<1>4. QED
  BY <1>2, <1>3 DEF EvidenceInv, FiringsJustified

\* A step that leaves the firings alone and only drops events from counters,
\* or replaces a counter by a new one, keeps the invariant.
LEMMA EvidenceKept ==
  ASSUME EvidenceInv, [Next]_vars, fired' = fired,
         \A k \in Keys : counters'[k] # NoCounter =>
           /\ counters[k] # NoCounter
           /\ counters'[k].events \subseteq counters[k].events
  PROVE  EvidenceInv'
<1>1. TypeInv'
  BY TypeInvStep DEF EvidenceInv
<1>2. WaitingIsUnconsumed'
  <2> SUFFICES ASSUME NEW k \in Keys, counters'[k] # NoCounter,
                      NEW x \in counters'[k].events
               PROVE  Evaluated(x, k)' /\ x \notin Consumed(k)'
    BY DEF WaitingIsUnconsumed
  <2>1. counters[k] # NoCounter /\ x \in counters[k].events
    OBVIOUS
  <2>2. x \in Events
    BY <2>1 DEF EvidenceInv, TypeInv, TypeOK, Counter
  <2>3. Evaluated(x, k) /\ x \notin Consumed(k)
    BY <2>1 DEF EvidenceInv, WaitingIsUnconsumed
  <2>4. QED
    BY <2>2, <2>3, EvaluatedStable DEF EvidenceInv, Consumed
<1>3. FiringsDisjoint'
  BY DEF EvidenceInv, FiringsDisjoint
<1>4. FiringsJustified'
  BY FiringStaysJustified DEF EvidenceInv, FiringsJustified
<1>5. QED
  BY <1>1, <1>2, <1>3, <1>4 DEF EvidenceInv

\* EvaluateRule takes an event that its key has not seen.
LEMMA NewEvidence ==
  ASSUME EvidenceInv, NEW e \in Events, NEW r \in Rules,
         task[e] # NotEvaluated, r \in task[e].todo
  PROVE  /\ ~ Evaluated(e, KeyOf(e, r))
         /\ e \notin Consumed(KeyOf(e, r))
         /\ \A x \in Updated(e, r).events \ {e} :
              Evaluated(x, KeyOf(e, r)) /\ x \notin Consumed(KeyOf(e, r))
<1> DEFINE k == KeyOf(e, r)
<1>1. k[1] = r
  BY DEF KeyOf
<1>2. ~ Evaluated(e, k)
  BY <1>1 DEF Evaluated
<1>3. e \notin Consumed(k)
  BY <1>2 DEF Consumed, EvidenceInv, FiringsJustified
<1>4. ASSUME NEW x \in Updated(e, r).events \ {e}
      PROVE  Evaluated(x, k) /\ x \notin Consumed(k)
  <2>1. k \in Keys /\ counters[k] # NoCounter /\ x \in counters[k].events
    BY <1>4, UpdatedCounter DEF EvidenceInv
  <2>2. QED
    BY <2>1 DEF EvidenceInv, WaitingIsUnconsumed
<1>5. QED
  BY <1>2, <1>3, <1>4

\* After the step, the new event counts as evaluated too.
LEMMA UpdatedEvaluated ==
  ASSUME EvidenceInv, NEW e \in Events, NEW r \in Rules, EvaluateRule(e, r),
         NEW k, k = KeyOf(e, r)
  PROVE  /\ Evaluated(e, k)'
         /\ Timestamp(e)' = Timestamp(e)
         /\ \A x \in Updated(e, r).events :
              Evaluated(x, k)' /\ Timestamp(x)' = Timestamp(x)
<1>1. /\ task[e] # NotEvaluated
      /\ r \in task[e].todo
      /\ task' = [task EXCEPT ![e].todo = @ \ {r}]
  BY EvaluateRuleEffect
<1>2. /\ task[e] \in Task
      /\ task[e].rules[r] # Disabled
  BY <1>1 DEF EvidenceInv, TypeInv, TypeOK, TodoEnabled
<1>3. /\ task'[e] \in Task
      /\ task'[e].match = task[e].match
      /\ task'[e].rules = task[e].rules
      /\ task'[e].ts = task[e].ts
      /\ r \notin task'[e].todo
  BY <1>1, <1>2 DEF EvidenceInv, TypeInv, TypeOK, Task
<1>4. Evaluated(e, k)' /\ Timestamp(e)' = Timestamp(e)
  BY <1>2, <1>3, MarksAssumption DEF Evaluated, Timestamp, KeyOf, Task, Matching, RuleTable
<1>5. ASSUME NEW x \in Updated(e, r).events, x # e
      PROVE  Evaluated(x, k)' /\ Timestamp(x)' = Timestamp(x)
  <2>1. k \in Keys /\ x \in Events
    BY <1>1, UpdatedCounter DEF EvidenceInv, Counter
  <2>2. [Next]_vars
    BY DEF Next
  <2>3. Evaluated(x, k)
    BY <1>1, <1>5, NewEvidence
  <2>4. QED
    BY <2>1, <2>2, <2>3, EvaluatedStable DEF EvidenceInv
<1>6. QED
  BY <1>4, <1>5

LEMMA EvidenceEvaluateRule ==
  ASSUME EvidenceInv, NEW e \in Events, NEW r \in Rules, EvaluateRule(e, r)
  PROVE  EvidenceInv'
<1> DEFINE k == KeyOf(e, r)
           used == Updated(e, r).events
           firing == [key |-> k, by |-> e, events |-> used, rule |-> RuleOf(e, r)]
<1>0. /\ TypeInv
      /\ [Next]_vars
      /\ TypeInv'
  BY TypeInvStep DEF EvidenceInv, Next
<1>1. /\ task[e] # NotEvaluated
      /\ r \in task[e].todo
  BY EvaluateRuleEffect
<1>2. /\ k \in Keys
      /\ used \subseteq Events
      /\ \A x \in used : Timestamp(x) >= Timestamp(e) - RuleOf(e, r).window
  BY <1>0, <1>1, UpdatedCounter DEF Counter
<1>3. \A x \in used : x \notin Consumed(k)
  BY <1>1, NewEvidence
<1>4. PICK c : c = k
  OBVIOUS
<1>5. /\ Evaluated(e, c)'
      /\ Timestamp(e)' = Timestamp(e)
      /\ \A x \in used : Evaluated(x, c)' /\ Timestamp(x)' = Timestamp(x)
  BY <1>4, UpdatedEvaluated
<1>6. CASE ~ Met(e, r)
  <2>1. /\ fired' = fired
        /\ counters' = [counters EXCEPT ![k] = Updated(e, r)]
    BY <1>6, EvaluateRuleEffect
  <2>2. WaitingIsUnconsumed'
    <3> SUFFICES ASSUME NEW l \in Keys, counters'[l] # NoCounter,
                        NEW x \in counters'[l].events
                 PROVE  Evaluated(x, l)' /\ x \notin Consumed(l)'
      BY DEF WaitingIsUnconsumed
    <3>1. CASE l = k
      <4>1. x \in used
        BY <2>1, <3>1, <1>0, <1>2 DEF TypeInv, TypeOK
      <4>2. QED
        BY <4>1, <3>1, <1>3, <1>4, <1>5, <2>1 DEF Consumed
    <3>2. CASE l # k
      <4>1. counters'[l] = counters[l]
        BY <2>1, <3>2, <1>0 DEF TypeInv, TypeOK
      <4>2. x \in Events /\ Evaluated(x, l) /\ x \notin Consumed(l)
        BY <4>1, <1>0 DEF EvidenceInv, WaitingIsUnconsumed, TypeInv, TypeOK, Counter
      <4>3. QED
        BY <4>2, <2>1, <1>0, EvaluatedStable DEF Consumed
    <3>3. QED
      BY <3>1, <3>2
  <2>3. FiringsDisjoint'
    BY <2>1 DEF EvidenceInv, FiringsDisjoint
  <2>4. FiringsJustified'
    BY <2>1, <1>0, FiringStaysJustified DEF FiringsJustified
  <2>5. QED
    BY <1>0, <2>2, <2>3, <2>4 DEF EvidenceInv
<1>7. CASE Met(e, r)
  <2>1. /\ fired' = fired \cup {firing}
        /\ counters' = [counters EXCEPT ![k] = NewCounter(RuleOf(e, r).window)]
    BY <1>7, EvaluateRuleEffect
  <2>2. WaitingIsUnconsumed'
    <3> SUFFICES ASSUME NEW l \in Keys, counters'[l] # NoCounter,
                        NEW x \in counters'[l].events
                 PROVE  Evaluated(x, l)' /\ x \notin Consumed(l)'
      BY DEF WaitingIsUnconsumed
    <3>1. l # k
      BY <2>1, <1>0, <1>2 DEF TypeInv, TypeOK, NewCounter
    <3>2. counters'[l] = counters[l]
      BY <2>1, <3>1, <1>0 DEF TypeInv, TypeOK
    <3>3. x \in Events /\ Evaluated(x, l) /\ x \notin Consumed(l)
      BY <3>2, <1>0 DEF EvidenceInv, WaitingIsUnconsumed, TypeInv, TypeOK, Counter
    <3>4. Consumed(l)' = Consumed(l)
      BY <2>1, <3>1 DEF Consumed
    <3>5. QED
      BY <3>3, <3>4, <1>0, EvaluatedStable
  <2>3. FiringsDisjoint'
    <3>1. \A f \in fired : f.key = k => f.events \cap used = {}
      BY <1>3 DEF Consumed
    <3>2. firing.key = k /\ firing.events = used
      OBVIOUS
    <3>3. QED
      BY <2>1, <3>1, <3>2 DEF EvidenceInv, FiringsDisjoint
  <2>4. FiringsJustified'
    <3>1. /\ firing.key = c /\ firing.by = e /\ firing.events = used
          /\ firing.rule = RuleOf(e, r)
      BY <1>4
    <3>2. Cardinality(used) >= RuleOf(e, r).threshold
      BY <1>7 DEF Met
    <3> HIDE DEF k, used, firing
    <3>3. PICK fr : fr = firing
      OBVIOUS
    <3>4. /\ Cardinality(fr.events) >= fr.rule.threshold
          /\ Evaluated(fr.by, fr.key)'
          /\ \A x \in fr.events :
               /\ Evaluated(x, fr.key)'
               /\ Timestamp(x)' >= Timestamp(fr.by)' - fr.rule.window
      BY <1>2, <1>5, <3>1, <3>2, <3>3
    <3>5. ASSUME NEW f \in fired'
          PROVE  /\ Cardinality(f.events) >= f.rule.threshold
                 /\ Evaluated(f.by, f.key)'
                 /\ \A x \in f.events :
                      /\ Evaluated(x, f.key)'
                      /\ Timestamp(x)' >= Timestamp(f.by)' - f.rule.window
      <4>1. CASE f \in fired
        BY <4>1, <1>0, FiringStaysJustified
      <4>2. CASE f = fr
        BY <4>2, <3>4
      <4>3. QED
        BY <2>1, <3>3, <3>5, <4>1, <4>2
    <3>6. QED
      BY <3>5 DEF FiringsJustified
  <2>5. QED
    BY <1>0, <2>2, <2>3, <2>4 DEF EvidenceInv
<1>8. QED
  BY <1>6, <1>7

LEMMA EvidenceInit == Init => EvidenceInv
BY TypeInvInit DEF Init, EvidenceInv, WaitingIsUnconsumed, FiringsDisjoint, FiringsJustified

LEMMA EvidenceStep == EvidenceInv /\ [Next]_vars => EvidenceInv'
<1> SUFFICES ASSUME EvidenceInv, [Next]_vars
             PROVE  EvidenceInv'
  OBVIOUS
<1>1. CASE Tick \/ LoadRules \/ UNCHANGED vars
  BY <1>1, EvidenceKept DEF Tick, LoadRules, vars
<1>2. ASSUME NEW e \in Events, EvaluateEvent(e)
      PROVE  EvidenceInv'
  BY <1>2, EvidenceKept DEF EvaluateEvent
<1>3. ASSUME NEW e \in Events, NEW r \in Rules, EvaluateRule(e, r)
      PROVE  EvidenceInv'
  BY <1>3, EvidenceEvaluateRule
<1>4. CASE PurgeOldCounters
  <2>1. \A k \in Keys : counters[k] # NoCounter =>
          Purge(counters[k], now).events \subseteq counters[k].events
    BY PurgeResult DEF EvidenceInv, TypeInv, TypeOK
  <2>2. \A k \in Keys : counters'[k] # NoCounter =>
          /\ counters[k] # NoCounter
          /\ counters'[k].events \subseteq counters[k].events
    BY <1>4, <2>1 DEF PurgeOldCounters
  <2>3. QED
    BY <1>4, <2>2, EvidenceKept DEF PurgeOldCounters
<1>5. QED
  BY <1>1, <1>2, <1>3, <1>4 DEF Next

LEMMA EvidenceAlways == Spec => []EvidenceInv
BY EvidenceInit, EvidenceStep, PTL DEF Spec

\* Every event is evidence for at most one firing of a key, whatever coroutines
\* are in flight: the lock of _evaluate_rule counts each event once, and a
\* firing empties the counter (correlation.py 119-140).
THEOREM EvidenceUsedOncePerKey == Spec => []FiringsDisjoint
<1>1. EvidenceInv => FiringsDisjoint
  BY DEF EvidenceInv
<1>2. QED
  BY <1>1, EvidenceAlways, PTL

\* Every firing rests on threshold events that its key really saw, none of them
\* older than the window (correlation.py 126-136).
THEOREM FiringsAreJustified == Spec => []FiringsJustified
<1>1. EvidenceInv => FiringsJustified
  BY DEF EvidenceInv
<1>2. QED
  BY <1>1, EvidenceAlways, PTL

-----------------------------------------------------------------------------
\* The size of the counter that EvaluateRule computes.
LEMMA UpdatedSize ==
  ASSUME TypeInv, CountersBounded, NEW e \in Events, NEW r \in Rules,
         task[e] # NotEvaluated, r \in task[e].todo
  PROVE  Cardinality(Updated(e, r).events) \in 0..ThresholdBound
<1> DEFINE old == OldCounter(e, r).events
           used == Updated(e, r).events
<1>1. used \subseteq old \cup {e} /\ old \subseteq Events
  BY UpdatedCounter DEF Counter
<1>2. IsFiniteSet(old)
  BY <1>1, EventsFinite, FS_Subset
<1>3. Cardinality(old) \in Nat /\ Cardinality(old) < ThresholdBound
  <2>1. CASE counters[KeyOf(e, r)] = NoCounter
    <3>1. old = {}
      BY <2>1 DEF OldCounter, NewCounter
    <3>2. QED
      BY <3>1, FS_EmptySet, BoundsAssumption
  <2>2. CASE counters[KeyOf(e, r)] # NoCounter
    <3>1. KeyOf(e, r) \in Keys /\ old = counters[KeyOf(e, r)].events
      BY <2>2, UpdatedCounter DEF OldCounter
    <3>2. QED
      BY <2>2, <3>1, <1>2, FS_CardinalityType DEF CountersBounded
  <2>3. QED
    BY <2>1, <2>2
<1>4. IsFiniteSet(old \cup {e}) /\ Cardinality(old \cup {e}) <= Cardinality(old) + 1
  BY <1>2, <1>3, FS_AddElement
<1>5. Cardinality(used) \in Nat /\ Cardinality(used) <= Cardinality(old \cup {e})
  BY <1>1, <1>4, FS_Subset, FS_CardinalityType
<1>6. Cardinality(old \cup {e}) \in Nat
  BY <1>4, FS_CardinalityType
<1>7. QED
  BY <1>3, <1>4, <1>5, <1>6, BoundsAssumption

\* No counter ever holds ThresholdBound events and no firing more than that:
\* the memory of the engine per key is bounded by its rules, not by its logs.
THEOREM CountersStayBounded == Spec => []CountersBounded
<1> DEFINE Inv == TypeInv /\ CountersBounded
<1>1. Init => Inv
  BY TypeInvInit DEF Init, CountersBounded
<1>2. Inv /\ [Next]_vars => Inv'
  <2> SUFFICES ASSUME TypeInv, CountersBounded, [Next]_vars
               PROVE  CountersBounded'
    BY TypeInvStep
  <2>1. CASE Tick \/ LoadRules \/ UNCHANGED vars
    BY <2>1 DEF Tick, LoadRules, vars, CountersBounded
  <2>2. ASSUME NEW e \in Events, EvaluateEvent(e)
        PROVE  CountersBounded'
    BY <2>2 DEF EvaluateEvent, CountersBounded
  <2>3. ASSUME NEW e \in Events, NEW r \in Rules, EvaluateRule(e, r)
        PROVE  CountersBounded'
    <3> DEFINE k == KeyOf(e, r)
               size == Cardinality(Updated(e, r).events)
    <3>1. /\ k \in Keys /\ RuleOf(e, r) \in Versions
          /\ size \in 0..ThresholdBound
      BY <2>3, EvaluateRuleEffect, UpdatedCounter, UpdatedSize
    <3>2. ~ Met(e, r) => size < ThresholdBound
      BY <3>1, VersionsAssumption, BoundsAssumption DEF Met
    <3>3. \A l \in Keys : counters'[l] # NoCounter =>
            Cardinality(counters'[l].events) < ThresholdBound
      <4> SUFFICES ASSUME NEW l \in Keys, counters'[l] # NoCounter
                   PROVE  Cardinality(counters'[l].events) < ThresholdBound
        OBVIOUS
      <4>1. CASE l # k
        <5>1. counters'[l] = counters[l]
          BY <2>3, <4>1, EvaluateRuleEffect DEF TypeInv, TypeOK
        <5>2. QED
          BY <5>1 DEF CountersBounded
      <4>2. CASE l = k /\ ~ Met(e, r)
        <5>1. counters'[l] = Updated(e, r)
          BY <2>3, <4>2, <3>1, EvaluateRuleEffect DEF TypeInv, TypeOK
        <5>2. QED
          BY <5>1, <4>2, <3>2
      <4>3. CASE l = k /\ Met(e, r)
        <5>1. counters'[l].events = {}
          BY <2>3, <4>3, <3>1, EvaluateRuleEffect DEF TypeInv, TypeOK, NewCounter
        <5>2. QED
          BY <5>1, FS_EmptySet, BoundsAssumption
      <4>4. QED
        BY <4>1, <4>2, <4>3
    <3>4. \A f \in fired' : Cardinality(f.events) <= ThresholdBound
      <4>1. \A f \in fired' \ fired : f.events = Updated(e, r).events
        BY <2>3, EvaluateRuleEffect
      <4>2. QED
        BY <4>1, <3>1, BoundsAssumption DEF CountersBounded
    <3>5. QED
      BY <3>3, <3>4 DEF CountersBounded
  <2>4. CASE PurgeOldCounters
    <3> SUFFICES ASSUME NEW k \in Keys, counters'[k] # NoCounter
                 PROVE  Cardinality(counters'[k].events) < ThresholdBound
      BY <2>4 DEF PurgeOldCounters, CountersBounded
    <3>1. counters[k] # NoCounter /\ counters'[k] = Purge(counters[k], now)
      BY <2>4 DEF PurgeOldCounters
    <3>2. counters[k] \in Counter
      BY <3>1 DEF TypeInv, TypeOK
    <3>3. /\ counters'[k].events \subseteq counters[k].events
          /\ IsFiniteSet(counters[k].events)
      BY <3>1, <3>2, PurgeResult, EventsFinite, FS_Subset DEF Counter
    <3>4. /\ Cardinality(counters'[k].events) <= Cardinality(counters[k].events)
          /\ Cardinality(counters'[k].events) \in Nat
          /\ Cardinality(counters[k].events) \in Nat
      BY <3>3, FS_Subset, FS_CardinalityType
    <3>5. QED
      BY <3>1, <3>4, BoundsAssumption DEF CountersBounded
  <2>5. QED
    BY <2>1, <2>2, <2>3, <2>4 DEF Next
<1>3. QED
  BY <1>1, <1>2, PTL DEF Spec
=============================================================================
