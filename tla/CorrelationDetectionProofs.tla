--------------------- MODULE CorrelationDetectionProofs ---------------------
(***************************************************************************)
(* Proofs about CorrelationDetection: with one version of the rule, prompt *)
(* evaluation and live timestamps, the lazily purged counters miss nothing *)
(* and implement Detector, for every set of events, rules and groups,      *)
(* every threshold and every window that is not negative.                  *)
(***************************************************************************)
EXTENDS CorrelationDetection, CorrelationWindowProofs

\* What CorrelationDetection is about.  A negative window holds no event, not
\* even the one being counted.
PromptAndLive ==
  /\ Prompt /\ MaxLag = 0 /\ MaxSkew = 0
  /\ Versions = {TheVersion}
  /\ TheVersion.window \in Nat

\* A coroutine at work has an event of this very second, and no event is from
\* the future.
Timely ==
  \A e \in Events : task[e] # NotEvaluated =>
    /\ Timestamp(e) <= now
    /\ task[e].todo # {} => Timestamp(e) = now

OneWindow ==
  \A k \in Keys : counters[k] # NoCounter => counters[k].window = TheVersion.window

\* The events that wait on k for others to come.
Waiting(k) == {e \in Events : Evaluated(e, k) /\ e \notin Consumed(k)}

\* Of the waiting events a counter holds all that the window covers.
LiveIsWaiting ==
  \A k \in Keys : Live(k) = {e \in Waiting(k) : Timestamp(e) >= now - TheVersion.window}

DetectionInv == EvidenceInv /\ Timely /\ OneWindow /\ LiveIsWaiting

-----------------------------------------------------------------------------
(* What a step does to the waiting events *)

\* A step of the clock, the rules or the cleanup, or the start of a loop, leaves
\* what was evaluated as it is.
LEMMA EvaluatedKept ==
  ASSUME TypeInv, [Next]_vars, \A e \in Events, r \in Rules : ~ EvaluateRule(e, r),
         NEW x \in Events, NEW k \in Keys
  PROVE  Evaluated(x, k)' <=> Evaluated(x, k)
<1>1. CASE Tick \/ LoadRules \/ PurgeOldCounters \/ UNCHANGED vars
  BY <1>1 DEF Tick, LoadRules, PurgeOldCounters, vars, Evaluated
<1>2. ASSUME NEW e \in Events, EvaluateEvent(e)
      PROVE  Evaluated(x, k)' <=> Evaluated(x, k)
  <2>1. PICK ts \in (now - MaxLag)..(now + MaxSkew), match \in Matching :
          task' = [task EXCEPT ![e] =
            [ts |-> ts, match |-> match, rules |-> rules, todo |-> Applicable(match)]]
    BY <1>2 DEF EvaluateEvent
  <2>2. CASE x # e
    BY <2>1, <2>2 DEF TypeInv, TypeOK, Evaluated
  <2>3. CASE x = e
    <3>1. task'[x] = [ts |-> ts, match |-> match, rules |-> rules, todo |-> Applicable(match)]
      BY <2>1, <2>3 DEF TypeInv, TypeOK
    <3>2. k[1] \in Rules /\ k[2] \in Groups
      BY DEF Keys
    <3>3. match[k[1]] = k[2] /\ rules[k[1]] # Disabled => k[1] \in Applicable(match)
      BY <3>2, MarksAssumption DEF Applicable
    <3>4. ~ Evaluated(x, k)'
      BY <3>1, <3>3 DEF Evaluated
    <3>5. ~ Evaluated(x, k)
      BY <1>2, <2>3 DEF EvaluateEvent, Evaluated
    <3>6. QED
      BY <3>4, <3>5
  <2>4. QED
    BY <2>2, <2>3
<1>3. QED
  BY <1>1, <1>2 DEF Next

\* The evaluation of a rule makes its event an evaluated one of its key, and
\* nothing else.
LEMMA EvaluatedByRule ==
  ASSUME EvidenceInv, NEW e \in Events, NEW r \in Rules, EvaluateRule(e, r),
         NEW c, c = KeyOf(e, r), NEW x \in Events, NEW k \in Keys
  PROVE  Evaluated(x, k)' <=> (Evaluated(x, k) \/ (x = e /\ k = c))
<1>1. /\ task[e] # NotEvaluated
      /\ r \in task[e].todo
      /\ task' = [task EXCEPT ![e].todo = @ \ {r}]
  BY EvaluateRuleEffect
<1>2. task[e] \in Task
  BY <1>1 DEF EvidenceInv, TypeInv, TypeOK
<1>3. CASE x # e
  BY <1>1, <1>3 DEF Evaluated, EvidenceInv, TypeInv, TypeOK
<1>4. CASE x = e
  <2>1. /\ task'[e].match = task[e].match /\ task'[e].rules = task[e].rules
        /\ task'[e].todo = task[e].todo \ {r} /\ task'[e] \in Task
    BY <1>1, <1>2 DEF EvidenceInv, TypeInv, TypeOK, Task
  <2>2. task'[e] # NotEvaluated
    BY <2>1, MarksAssumption DEF Task, Matching, RuleTable
  <2>3. CASE k = c
    BY <2>3, <1>4, UpdatedEvaluated
  <2>4. CASE k # c
    <3>1. k = <<k[1], k[2]>>
      BY DEF Keys
    <3>2. k[1] = r => k[2] # task[e].match[r]
      BY <2>4, <3>1 DEF KeyOf
    <3>3. QED
      BY <1>1, <1>4, <2>1, <2>2, <2>4, <3>2 DEF Evaluated
  <2>5. QED
    BY <2>3, <2>4
<1>5. QED
  BY <1>3, <1>4

\* A coroutine keeps its event's timestamp and the rules it started with.
LEMMA TaskKept ==
  ASSUME TypeInv, [Next]_vars, NEW x \in Events, task[x] # NotEvaluated
  PROVE  /\ task'[x] # NotEvaluated /\ task'[x].rules = task[x].rules
         /\ Timestamp(x)' = Timestamp(x) /\ task'[x].todo \subseteq task[x].todo
<1>1. CASE Tick \/ LoadRules \/ PurgeOldCounters \/ UNCHANGED vars
  BY <1>1 DEF Tick, LoadRules, PurgeOldCounters, vars, Timestamp
<1>2. ASSUME NEW e \in Events, EvaluateEvent(e)
      PROVE  task'[x] = task[x]
  BY <1>2 DEF EvaluateEvent, TypeInv, TypeOK
<1>3. ASSUME NEW e \in Events, NEW r \in Rules, EvaluateRule(e, r)
      PROVE  /\ task'[x] # NotEvaluated /\ task'[x].rules = task[x].rules
             /\ task'[x].ts = task[x].ts /\ task'[x].todo \subseteq task[x].todo
  <2>1. task[e] \in Task /\ task' = [task EXCEPT ![e].todo = @ \ {r}]
    BY <1>3, EvaluateRuleEffect DEF TypeInv, TypeOK
  <2>2. x # e => task'[x] = task[x]
    BY <2>1 DEF TypeInv, TypeOK
  <2>3. x = e => /\ task'[x] \in Task /\ task'[x].rules = task[x].rules
                 /\ task'[x].ts = task[x].ts /\ task'[x].todo \subseteq task[x].todo
    BY <2>1 DEF TypeInv, TypeOK, Task
  <2>4. QED
    BY <2>2, <2>3, MarksAssumption DEF Task, Matching, RuleTable
<1>4. QED
  BY <1>1, <1>2, <1>3 DEF Next, Timestamp

LEMMA TimelyStep ==
  ASSUME PromptAndLive, TypeInv, Timely, [Next]_vars
  PROVE  Timely'
<1> SUFFICES ASSUME NEW x \in Events, task'[x] # NotEvaluated
             PROVE  Timestamp(x)' <= now' /\ (task'[x].todo # {} => Timestamp(x)' = now')
  BY DEF Timely
<1>0. now \in Int
  BY DEF TypeInv, TypeOK
<1>1. CASE task[x] # NotEvaluated
  <2>1. /\ Timestamp(x)' = Timestamp(x) /\ task'[x].todo \subseteq task[x].todo
        /\ Timestamp(x) <= now /\ (task[x].todo # {} => Timestamp(x) = now)
    BY <1>1, TaskKept DEF Timely
  <2>2. now' = now \/ (now' = now + 1 /\ task[x].todo = {})
    BY <1>1 DEF PromptAndLive, Next, Tick, LoadRules, EvaluateEvent, EvaluateRule, PurgeOldCounters, vars
  <2>3. Timestamp(x) \in Int
    BY <1>1 DEF TypeInv, TypeOK, Task, Timestamp
  <2>4. QED
    BY <1>0, <2>1, <2>2, <2>3
<1>2. CASE task[x] = NotEvaluated
  <2>1. PICK e \in Events : EvaluateEvent(e)
    BY <1>2, EvaluateRuleEffect
       DEF Next, Tick, LoadRules, PurgeOldCounters, vars, TypeInv, TypeOK
  <2>2. PICK ts \in (now - MaxLag)..(now + MaxSkew), match \in Matching :
          task' = [task EXCEPT ![e] =
            [ts |-> ts, match |-> match, rules |-> rules, todo |-> Applicable(match)]]
    BY <2>1 DEF EvaluateEvent
  <2>3. x = e /\ task'[x].ts = ts /\ now' = now
    BY <1>2, <2>1, <2>2 DEF TypeInv, TypeOK, EvaluateEvent
  <2>4. QED
    BY <1>0, <2>2, <2>3 DEF Timestamp, PromptAndLive
<1>3. QED
  BY <1>1, <1>2

\* The counter that EvaluateRule computes holds the live events of its key and
\* the new one.
LEMMA UpdatedIsLive ==
  ASSUME PromptAndLive, TypeInv, Timely, OneWindow,
         NEW e \in Events, NEW r \in Rules, EvaluateRule(e, r)
  PROVE  /\ RuleOf(e, r) = TheVersion
         /\ Updated(e, r).window = TheVersion.window
         /\ Updated(e, r).events = Live(KeyOf(e, r)) \cup {e}
         /\ Timestamp(e) = now
<1>1. task[e] # NotEvaluated /\ r \in task[e].todo
  BY EvaluateRuleEffect
<1>2. /\ KeyOf(e, r) \in Keys /\ RuleOf(e, r) \in Versions
      /\ OldCounter(e, r) \in Counter
  BY <1>1, UpdatedCounter
<1>3. /\ RuleOf(e, r) = TheVersion /\ RuleOf(e, r).window \in Int
      /\ Timestamp(e) = now /\ now \in Int /\ TheVersion.window \in Nat
  BY <1>1, <1>2 DEF PromptAndLive, Timely, TypeInv, TypeOK
<1> DEFINE old == OldCounter(e, r)
           c == [old EXCEPT !.window = RuleOf(e, r).window]
           d == [c EXCEPT !.events = c.events \cup {e}]
<1>4. d \in Counter /\ d.window = TheVersion.window /\ d.events = old.events \cup {e}
  BY <1>2, <1>3 DEF Counter
<1>5. Updated(e, r) = Purge(d, now)
  BY <1>3 DEF Updated, Add
<1>6. Live(KeyOf(e, r)) = {x \in old.events : Timestamp(x) >= now - TheVersion.window}
  <2>1. CASE counters[KeyOf(e, r)] = NoCounter
    BY <2>1 DEF Live, OldCounter, NewCounter
  <2>2. CASE counters[KeyOf(e, r)] # NoCounter
    BY <1>2, <2>2 DEF Live, OldCounter, OneWindow, Purge, Counter
  <2>3. QED
    BY <2>1, <2>2
<1> HIDE DEF old, c, d
<1>7. Updated(e, r).window = TheVersion.window
      /\ Updated(e, r).events = {x \in old.events \cup {e} : Timestamp(x) >= now - TheVersion.window}
  BY <1>4, <1>5 DEF Purge, Counter
<1>8. QED
  BY <1>3, <1>6, <1>7

-----------------------------------------------------------------------------
(* What a step does to the live events *)

LEMMA OneWindowStep ==
  ASSUME PromptAndLive, TypeInv, Timely, OneWindow, [Next]_vars
  PROVE  OneWindow'
<1>1. CASE counters' = counters
  BY <1>1 DEF OneWindow
<1>2. ASSUME NEW e \in Events, NEW r \in Rules, EvaluateRule(e, r)
      PROVE  OneWindow'
  <2>1. NewCounter(TheVersion.window).window = TheVersion.window
    BY DEF NewCounter
  <2>2. \A k \in Keys : counters'[k] = counters[k] \/ counters'[k].window = TheVersion.window
    BY <1>2, <2>1, UpdatedIsLive, EvaluateRuleEffect DEF TypeInv, TypeOK
  <2>3. QED
    BY <2>2 DEF OneWindow
<1>3. CASE PurgeOldCounters
  <2>1. \A k \in Keys : counters'[k] # NoCounter =>
          counters[k] # NoCounter /\ counters'[k] = Purge(counters[k], now)
    BY <1>3 DEF PurgeOldCounters
  <2>2. \A k \in Keys : counters'[k] # NoCounter => counters[k] \in Counter
    BY <2>1 DEF TypeInv, TypeOK
  <2>3. QED
    BY <2>1, <2>2, PurgeResult DEF OneWindow
<1>4. QED
  BY <1>1, <1>2, <1>3 DEF Next, Tick, LoadRules, EvaluateEvent, vars

\* Live without reference to the window a counter carries.
LEMMA LiveNow ==
  ASSUME TypeInv, OneWindow, NEW k \in Keys
  PROVE  /\ Live(k) \subseteq Events
         /\ counters[k] = NoCounter => Live(k) = {}
         /\ counters[k] # NoCounter =>
              Live(k) = {x \in counters[k].events : Timestamp(x) >= now - TheVersion.window}
<1>1. counters[k] # NoCounter => counters[k] \in Counter
  BY DEF TypeInv, TypeOK
<1>2. QED
  BY <1>1 DEF Live, OneWindow, Purge, Counter

LEMMA LiveNext ==
  ASSUME TypeInv', OneWindow', NEW k \in Keys
  PROVE  /\ Live(k)' \subseteq Events
         /\ counters'[k] = NoCounter => Live(k)' = {}
         /\ counters'[k] # NoCounter =>
              Live(k)' = {x \in counters'[k].events : Timestamp(x)' >= now' - TheVersion.window}
<1>1. counters'[k] # NoCounter => counters'[k] \in Counter
  BY DEF TypeInv, TypeOK
<1>2. QED
  BY <1>1 DEF Live, OneWindow, Purge, Counter

\* The events in a counter keep their timestamps.
LEMMA CountedKept ==
  ASSUME EvidenceInv, [Next]_vars, NEW k \in Keys, counters[k] # NoCounter,
         NEW x \in counters[k].events
  PROVE  x \in Events /\ Timestamp(x)' = Timestamp(x) /\ Timestamp(x) \in Int
<1>1. x \in Events /\ Evaluated(x, k) /\ TypeInv
  BY DEF EvidenceInv, TypeInv, TypeOK, Counter, WaitingIsUnconsumed
<1>2. task[x] # NotEvaluated
  BY <1>1 DEF Evaluated
<1>3. Timestamp(x) \in Int
  BY <1>1, <1>2 DEF TypeInv, TypeOK, Task, Timestamp
<1>4. QED
  BY <1>1, <1>2, <1>3, TaskKept

\* The clock takes from the live events, and nothing else but a firing does:
\* what the cleanup drops was not live any more.
LEMMA LiveKept ==
  ASSUME PromptAndLive, EvidenceInv, Timely, OneWindow, [Next]_vars,
         \A e \in Events, r \in Rules : ~ EvaluateRule(e, r),
         NEW k \in Keys
  PROVE  Live(k)' = {x \in Live(k) : Timestamp(x) >= now' - TheVersion.window}
<1>1. TypeInv /\ TypeInv' /\ OneWindow' /\ now \in Int /\ now' \in Int /\ TheVersion.window \in Int
  BY TypeInvStep, OneWindowStep DEF EvidenceInv, TypeInv, TypeOK, PromptAndLive
<1>2. now' >= now
  BY <1>1 DEF Next, Tick, LoadRules, EvaluateEvent, PurgeOldCounters, vars
<1>3. counters[k] # NoCounter => counters[k] \in Counter
  BY <1>1 DEF TypeInv, TypeOK
<1>4. CASE counters[k] = NoCounter
  <2>1. counters'[k] = NoCounter
    BY <1>4 DEF Next, Tick, LoadRules, EvaluateEvent, PurgeOldCounters, vars
  <2>2. QED
    BY <1>1, <1>4, <2>1, LiveNow, LiveNext
<1>5. CASE counters[k] # NoCounter /\ counters'[k] = counters[k]
  <2>1. /\ Live(k)' = {x \in counters[k].events : Timestamp(x)' >= now' - TheVersion.window}
        /\ Live(k) = {x \in counters[k].events : Timestamp(x) >= now - TheVersion.window}
    BY <1>1, <1>5, LiveNow, LiveNext
  <2>2. \A x \in counters[k].events : Timestamp(x)' = Timestamp(x) /\ Timestamp(x) \in Int
    BY <1>5, CountedKept
  <2>3. QED
    BY <1>1, <1>2, <2>1, <2>2
<1>6. CASE counters[k] # NoCounter /\ counters'[k] # counters[k]
  <2>1. PurgeOldCounters
    BY <1>6 DEF Next, Tick, LoadRules, EvaluateEvent, vars
  <2>2. now' = now
    BY <2>1 DEF PurgeOldCounters
  <2>3. Purge(counters[k], now).events = Live(k)
    BY <1>6 DEF Live
  <2>4. Live(k) = {x \in Live(k) : Timestamp(x) >= now' - TheVersion.window}
    BY <1>1, <1>6, <2>2, LiveNow
  <2>5. CASE Live(k) = {}
    <3>1. counters'[k] = NoCounter
      BY <1>6, <2>1, <2>3, <2>5 DEF PurgeOldCounters, Empty
    <3>2. QED
      BY <1>1, <2>4, <2>5, <3>1, LiveNext
  <2>6. CASE Live(k) # {}
    <3>0. Purge(counters[k], now) # NoCounter
      BY <1>3, <1>6, PurgeResult, MarksAssumption DEF Counter
    <3>1. counters'[k] = Purge(counters[k], now) /\ counters'[k] # NoCounter
      BY <1>6, <2>1, <2>3, <2>6, <3>0 DEF PurgeOldCounters, Empty
    <3>2. Live(k)' = {x \in Live(k) : Timestamp(x)' >= now' - TheVersion.window}
      BY <1>1, <2>3, <3>1, LiveNext
    <3>3. \A x \in Live(k) : Timestamp(x)' = Timestamp(x)
      BY <1>1, <1>6, CountedKept, LiveNow
    <3>4. QED
      BY <3>2, <3>3
  <2>7. QED
    BY <2>5, <2>6
<1>7. QED
  BY <1>4, <1>5, <1>6

\* The evaluation of a rule adds its event to the live ones of the key, and a
\* firing takes them all.
LEMMA LiveByRule ==
  ASSUME PromptAndLive, EvidenceInv, Timely, OneWindow,
         NEW e \in Events, NEW r \in Rules, EvaluateRule(e, r),
         NEW k \in Keys
  PROVE  Live(k)' = IF k # KeyOf(e, r) THEN Live(k)
                    ELSE IF Met(e, r) THEN {} ELSE Live(k) \cup {e}
<1>0. [Next]_vars
  BY DEF Next
<1>1. TypeInv /\ TypeInv' /\ OneWindow' /\ now \in Int /\ now' = now /\ TheVersion.window \in Nat
  BY <1>0, TypeInvStep, OneWindowStep, EvaluateRuleEffect DEF EvidenceInv, TypeInv, TypeOK, PromptAndLive
<1>2. counters' = [counters EXCEPT ![KeyOf(e, r)] =
        IF Met(e, r) THEN NewCounter(RuleOf(e, r).window) ELSE Updated(e, r)]
  BY EvaluateRuleEffect
<1>3. CASE k # KeyOf(e, r)
  <2>1. counters'[k] = counters[k]
    BY <1>1, <1>2, <1>3 DEF TypeInv, TypeOK
  <2>2. CASE counters[k] = NoCounter
    BY <1>1, <1>3, <2>1, <2>2, LiveNow, LiveNext
  <2>3. CASE counters[k] # NoCounter
    <3>1. /\ Live(k)' = {x \in counters[k].events : Timestamp(x)' >= now - TheVersion.window}
          /\ Live(k) = {x \in counters[k].events : Timestamp(x) >= now - TheVersion.window}
      BY <1>1, <2>1, <2>3, LiveNow, LiveNext
    <3>2. \A x \in counters[k].events : Timestamp(x)' = Timestamp(x)
      BY <1>0, <2>3, CountedKept
    <3>3. QED
      BY <1>3, <3>1, <3>2
  <2>4. QED
    BY <2>2, <2>3
<1>4. CASE k = KeyOf(e, r) /\ Met(e, r)
  <2>1. counters'[k] = NewCounter(RuleOf(e, r).window)
    BY <1>1, <1>2, <1>4 DEF TypeInv, TypeOK
  <2>2. counters'[k] # NoCounter => counters'[k].events = {}
    BY <2>1 DEF NewCounter
  <2>3. Live(k)' = {}
    BY <1>1, <2>2, LiveNext
  <2>4. QED
    BY <1>4, <2>3
<1>5. CASE k = KeyOf(e, r) /\ ~ Met(e, r)
  <2>1. counters'[k] = Updated(e, r) /\ Updated(e, r) \in Counter
    BY <1>1, <1>2, <1>5, UpdatedCounter, EvaluateRuleEffect DEF TypeInv, TypeOK
  <2>2. counters'[k] # NoCounter
    BY <2>1, MarksAssumption DEF Counter
  <2>3. Live(k)' = {x \in Live(k) \cup {e} : Timestamp(x)' >= now - TheVersion.window}
    BY <1>1, <1>5, <2>1, <2>2, LiveNext, UpdatedIsLive
  <2>4. \A x \in Updated(e, r).events : Timestamp(x)' = Timestamp(x)
    BY UpdatedEvaluated
  <2>5. \A x \in Live(k) \cup {e} : Timestamp(x)' = Timestamp(x)
    BY <1>1, <1>5, <2>4, UpdatedIsLive
  <2>6. \A x \in Live(k) : Timestamp(x) >= now - TheVersion.window
    BY <1>1, LiveNow
  <2>7. Timestamp(e) >= now - TheVersion.window
    BY <1>1, UpdatedIsLive
  <2>8. QED
    BY <1>5, <2>3, <2>5, <2>6, <2>7
<1>6. QED
  BY <1>3, <1>4, <1>5

-----------------------------------------------------------------------------
(* Nothing is missed *)

\* What is used up is what the firings list; a firing takes the live events and
\* the new one.
LEMMA ConsumedByRule ==
  ASSUME PromptAndLive, EvidenceInv, Timely, OneWindow,
         NEW e \in Events, NEW r \in Rules, EvaluateRule(e, r),
         NEW k \in Keys
  PROVE  Consumed(k)' = IF k = KeyOf(e, r) /\ Met(e, r)
                          THEN Consumed(k) \cup Live(k) \cup {e} ELSE Consumed(k)
<1> DEFINE firing == [key |-> KeyOf(e, r), by |-> e,
                      events |-> Updated(e, r).events, rule |-> RuleOf(e, r)]
<1>1. fired' = IF Met(e, r) THEN fired \cup {firing} ELSE fired
  BY EvaluateRuleEffect
<1>2. firing.key = KeyOf(e, r) /\ firing.events = Live(KeyOf(e, r)) \cup {e}
  BY UpdatedIsLive DEF EvidenceInv
<1> HIDE DEF firing
<1>3. CASE Met(e, r)
  BY <1>1, <1>2, <1>3 DEF Consumed
<1>4. CASE ~ Met(e, r)
  BY <1>1, <1>4 DEF Consumed
<1>5. QED
  BY <1>3, <1>4

LEMMA WaitingKept ==
  ASSUME EvidenceInv, [Next]_vars, \A e \in Events, r \in Rules : ~ EvaluateRule(e, r),
         NEW k \in Keys
  PROVE  Waiting(k)' = Waiting(k)
<1>1. fired' = fired
  BY DEF Next, Tick, LoadRules, EvaluateEvent, PurgeOldCounters, vars
<1>2. \A x \in Events : Evaluated(x, k)' <=> Evaluated(x, k)
  BY EvaluatedKept DEF EvidenceInv
<1>3. QED
  BY <1>1, <1>2 DEF Waiting, Consumed

LEMMA WaitingByRule ==
  ASSUME PromptAndLive, EvidenceInv, Timely, OneWindow,
         NEW e \in Events, NEW r \in Rules, EvaluateRule(e, r),
         NEW k \in Keys
  PROVE  /\ e \notin Waiting(KeyOf(e, r))
         /\ Waiting(k)' = IF k # KeyOf(e, r) THEN Waiting(k)
                          ELSE IF Met(e, r) THEN Waiting(k) \ Live(k)
                          ELSE Waiting(k) \cup {e}
<1>1. ~ Evaluated(e, KeyOf(e, r)) /\ e \notin Consumed(KeyOf(e, r))
  BY NewEvidence, EvaluateRuleEffect
<1>2. PICK c : c = KeyOf(e, r)
  OBVIOUS
<1>3. \A x \in Events : Evaluated(x, k)' <=> (Evaluated(x, k) \/ (x = e /\ k = c))
  BY <1>2, EvaluatedByRule
<1>4. e \notin Waiting(KeyOf(e, r))
  BY <1>1 DEF Waiting
<1>5. CASE k # c
  BY <1>2, <1>3, <1>4, <1>5, ConsumedByRule DEF Waiting
<1>6. CASE k = c /\ Met(e, r)
  BY <1>1, <1>2, <1>3, <1>4, <1>6, ConsumedByRule DEF Waiting
<1>7. CASE k = c /\ ~ Met(e, r)
  BY <1>1, <1>2, <1>3, <1>4, <1>7, ConsumedByRule DEF Waiting
<1>8. QED
  BY <1>5, <1>6, <1>7

LEMMA WaitingTimes ==
  ASSUME TypeInv, Timely, [Next]_vars, NEW k \in Keys, NEW x \in Waiting(k)
  PROVE  /\ Timestamp(x) \in Int /\ Timestamp(x) <= now
         /\ Timestamp(x)' = Timestamp(x)
<1>1. x \in Events /\ task[x] # NotEvaluated
  BY DEF Waiting, Evaluated
<1>2. QED
  BY <1>1, TaskKept DEF TypeInv, TypeOK, Task, Timestamp, Timely

LEMMA LiveIsWaitingStep ==
  ASSUME PromptAndLive, DetectionInv, [Next]_vars
  PROVE  LiveIsWaiting'
<1>1. /\ EvidenceInv /\ Timely /\ OneWindow /\ TypeInv /\ TypeInv' /\ LiveIsWaiting
      /\ now \in Int /\ now' \in Int /\ TheVersion.window \in Nat
  BY TypeInvStep DEF DetectionInv, EvidenceInv, TypeInv, TypeOK, PromptAndLive
<1> SUFFICES ASSUME NEW k \in Keys
             PROVE  Live(k)' = {x \in Waiting(k)' : Timestamp(x)' >= now' - TheVersion.window}
  BY DEF LiveIsWaiting
<1>2. \A x \in Waiting(k) : Timestamp(x)' = Timestamp(x) /\ Timestamp(x) \in Int
  BY <1>1, WaitingTimes
<1>3. Live(k) = {x \in Waiting(k) : Timestamp(x) >= now - TheVersion.window}
  BY <1>1 DEF LiveIsWaiting
<1>4. CASE \A e \in Events, r \in Rules : ~ EvaluateRule(e, r)
  <2>1. now' >= now
    BY <1>1, <1>4 DEF Next, Tick, LoadRules, EvaluateEvent, PurgeOldCounters, vars
  <2>2. Live(k)' = {x \in Live(k) : Timestamp(x) >= now' - TheVersion.window}
    BY <1>1, <1>4, LiveKept
  <2>3. Waiting(k)' = Waiting(k)
    BY <1>1, <1>4, WaitingKept
  <2>4. QED
    BY <1>1, <1>2, <1>3, <2>1, <2>2, <2>3
<1>5. ASSUME NEW e \in Events, NEW r \in Rules, EvaluateRule(e, r)
      PROVE  Live(k)' = {x \in Waiting(k)' : Timestamp(x)' >= now' - TheVersion.window}
  <2>1. now' = now /\ Timestamp(e)' = now
    BY <1>1, <1>5, UpdatedIsLive, UpdatedEvaluated, EvaluateRuleEffect
  <2>2. Live(k)' = IF k # KeyOf(e, r) THEN Live(k)
                   ELSE IF Met(e, r) THEN {} ELSE Live(k) \cup {e}
    BY <1>1, <1>5, LiveByRule
  <2>3. Waiting(k)' = IF k # KeyOf(e, r) THEN Waiting(k)
                      ELSE IF Met(e, r) THEN Waiting(k) \ Live(k) ELSE Waiting(k) \cup {e}
    BY <1>1, <1>5, WaitingByRule
  <2>4. CASE k # KeyOf(e, r)
    BY <1>2, <1>3, <2>1, <2>2, <2>3, <2>4
  <2>5. CASE k = KeyOf(e, r) /\ Met(e, r)
    BY <1>2, <1>3, <2>1, <2>2, <2>3, <2>5
  <2>6. CASE k = KeyOf(e, r) /\ ~ Met(e, r)
    BY <1>1, <1>2, <1>3, <2>1, <2>2, <2>3, <2>6
  <2>7. QED
    BY <2>4, <2>5, <2>6
<1>6. QED
  BY <1>4, <1>5

LEMMA DetectionInit == Init => DetectionInv
<1> SUFFICES ASSUME Init
             PROVE  DetectionInv
  OBVIOUS
<1>1. Timely /\ OneWindow
  BY DEF Init, Timely, OneWindow
<1>2. LiveIsWaiting
  BY DEF Init, LiveIsWaiting, Live, Waiting, Evaluated
<1>3. QED
  BY <1>1, <1>2, EvidenceInit DEF DetectionInv

LEMMA DetectionStep ==
  ASSUME PromptAndLive
  PROVE  DetectionInv /\ [Next]_vars => DetectionInv'
<1> SUFFICES ASSUME DetectionInv, [Next]_vars
             PROVE  DetectionInv'
  OBVIOUS
<1>1. EvidenceInv /\ TypeInv /\ Timely /\ OneWindow
  BY DEF DetectionInv, EvidenceInv
<1>2. EvidenceInv'
  BY <1>1, EvidenceStep
<1>3. Timely' /\ OneWindow'
  BY <1>1, TimelyStep, OneWindowStep
<1>4. LiveIsWaiting'
  BY LiveIsWaitingStep
<1>5. QED
  BY <1>2, <1>3, <1>4 DEF DetectionInv

LEMMA DetectionAlways ==
  ASSUME PromptAndLive
  PROVE  Spec => []DetectionInv
<1>1. Init => DetectionInv
  BY DetectionInit
<1>2. DetectionInv /\ [Next]_vars => DetectionInv'
  BY DetectionStep
<1>3. QED
  BY <1>1, <1>2, PTL DEF Spec

\* The waiting events of k up to one of them, as far back as the window goes.
UpTo(k, last) ==
  {x \in Waiting(k) : Timestamp(x) \in (Timestamp(last) - TheVersion.window)..Timestamp(last)}

Sparse ==
  \A k \in Keys : \A last \in Waiting(k) : Cardinality(UpTo(k, last)) < TheVersion.threshold

LEMMA UpToFinite ==
  ASSUME NEW k, NEW last
  PROVE  IsFiniteSet(UpTo(k, last)) /\ Cardinality(UpTo(k, last)) \in Nat
<1>1. UpTo(k, last) \subseteq Events
  BY DEF UpTo, Waiting
<1>2. QED
  BY <1>1, EventsFinite, FS_Subset, FS_CardinalityType

LEMMA SparseStep ==
  ASSUME PromptAndLive
  PROVE  DetectionInv /\ Sparse /\ [Next]_vars => Sparse'
<1> SUFFICES ASSUME DetectionInv, Sparse, [Next]_vars, NEW k \in Keys, NEW last \in Waiting(k)'
             PROVE  Cardinality(UpTo(k, last)') < TheVersion.threshold
  BY DEF Sparse
<1>1. /\ EvidenceInv /\ Timely /\ OneWindow /\ TypeInv /\ LiveIsWaiting
      /\ now \in Int /\ TheVersion.window \in Nat /\ TheVersion.threshold \in Int
  BY VersionsAssumption DEF DetectionInv, EvidenceInv, TypeInv, TypeOK, PromptAndLive
<1>2. \A x \in Waiting(k) : Timestamp(x)' = Timestamp(x) /\ Timestamp(x) \in Int /\ Timestamp(x) <= now
  BY <1>1, WaitingTimes
<1>3. \A x \in Waiting(k) : Cardinality(UpTo(k, x)) < TheVersion.threshold
  BY DEF Sparse
<1>4. CASE Waiting(k)' = Waiting(k)
  <2>1. UpTo(k, last)' = UpTo(k, last)
    BY <1>2, <1>4 DEF UpTo
  <2>2. QED
    BY <1>3, <1>4, <2>1
<1>5. ASSUME NEW e \in Events, NEW r \in Rules, EvaluateRule(e, r), k = KeyOf(e, r)
      PROVE  Cardinality(UpTo(k, last)') < TheVersion.threshold
  <2>1. Live(k) = {x \in Waiting(k) : Timestamp(x) >= now - TheVersion.window}
    BY <1>1 DEF LiveIsWaiting
  <2>2. CASE Met(e, r)
    <3>1. Waiting(k)' = Waiting(k) \ Live(k)
      BY <1>1, <1>5, <2>2, WaitingByRule
    <3>2. UpTo(k, last)' \subseteq UpTo(k, last)
      BY <1>2, <3>1 DEF UpTo
    <3>3. /\ Cardinality(UpTo(k, last)') <= Cardinality(UpTo(k, last))
          /\ Cardinality(UpTo(k, last)') \in Nat /\ Cardinality(UpTo(k, last)) \in Nat
      BY <3>2, UpToFinite, FS_Subset, FS_CardinalityType
    <3>4. Cardinality(UpTo(k, last)) < TheVersion.threshold
      BY <1>3, <3>1
    <3>5. QED
      BY <1>1, <3>3, <3>4
  <2>3. CASE ~ Met(e, r)
    <3>1. /\ e \notin Waiting(k) /\ Waiting(k)' = Waiting(k) \cup {e}
          /\ Timestamp(e)' = now /\ RuleOf(e, r) = TheVersion
          /\ Updated(e, r).events = Live(k) \cup {e}
      BY <1>1, <1>5, <2>3, WaitingByRule, UpdatedIsLive, UpdatedEvaluated
    <3>2. CASE Timestamp(last)' = now
      <4>1. UpTo(k, last)' = Live(k) \cup {e}
        BY <1>1, <1>2, <2>1, <3>1, <3>2 DEF UpTo
      <4>2. IsFiniteSet(Live(k) \cup {e})
        BY <2>1, EventsFinite, FS_Subset DEF Waiting
      <4>3. Cardinality(Live(k) \cup {e}) \in Nat
        BY <4>2, FS_CardinalityType
      <4>4. QED
        BY <1>1, <2>3, <3>1, <4>1, <4>3 DEF Met
    <3>3. CASE Timestamp(last)' # now
      <4>1. last \in Waiting(k) /\ Timestamp(last)' = Timestamp(last) /\ Timestamp(last) < now
        BY <1>1, <1>2, <3>1, <3>3
      <4>2. UpTo(k, last)' = UpTo(k, last)
        BY <1>1, <1>2, <3>1, <4>1 DEF UpTo
      <4>3. QED
        BY <1>3, <4>1, <4>2
    <3>4. QED
      BY <3>2, <3>3
  <2>4. QED
    BY <2>2, <2>3
<1>6. QED
  BY <1>1, <1>4, <1>5, WaitingKept, WaitingByRule

\* The detection that the rules promise is never missed (correlation.py 126-140
\* and 340-350): with one version of the rule, prompt evaluation and live
\* timestamps, no threshold of unconsumed events of one key lies in one window,
\* however lazily the counters are purged, deleted and made anew.
THEOREM DetectionIsComplete == PromptAndLive => (Spec => []NothingMissed)
<1> SUFFICES ASSUME PromptAndLive
             PROVE  Spec => []NothingMissed
  OBVIOUS
<1>1. Init => Sparse
  BY DEF Init, Sparse, Waiting, Evaluated
<1>2. DetectionInv /\ Sparse /\ [Next]_vars => Sparse'
  BY SparseStep
<1>3. DetectionInv /\ Sparse => NothingMissed
  <2> SUFFICES ASSUME DetectionInv, Sparse, NEW k \in Keys
               PROVE  LET waiting == {e \in Events : Evaluated(e, k) /\ task[e].rules[k[1]] = TheVersion}
                                       \ Consumed(k)
                      IN  \A last \in waiting :
                            Cardinality({e \in waiting : Timestamp(e) \in
                              (Timestamp(last) - TheVersion.window)..Timestamp(last)})
                                < TheVersion.threshold
    BY DEF NothingMissed, PromptAndLive
  <2>1. \A e \in Events : Evaluated(e, k) => task[e].rules[k[1]] = TheVersion
    BY DEF Evaluated, DetectionInv, EvidenceInv, TypeInv, TypeOK, Task, RuleTable, Keys, PromptAndLive
  <2>2. {e \in Events : Evaluated(e, k) /\ task[e].rules[k[1]] = TheVersion} \ Consumed(k) = Waiting(k)
    BY <2>1 DEF Waiting
  <2>3. QED
    BY <2>2 DEF Sparse, UpTo
<1>4. QED
  BY <1>1, <1>2, <1>3, DetectionAlways, PTL DEF Spec

-----------------------------------------------------------------------------
(* The abstract detector *)

\* What the detector sees of the counters: the pool of each key.
Pool == [k \in Keys |-> {<<e, Timestamp(e)>> : e \in Live(k)}]
Reported == {p \in Events \X Keys : Evaluated(p[1], p[2])}
Alarms == {<<f.key, f.events>> : f \in fired}

\* The detector counts pairs, the counters count events.
Timed(S) == {<<x, Timestamp(x)>> : x \in S}

LEMMA PairsOfEvents ==
  ASSUME NEW S, IsFiniteSet(S)
  PROVE  D!Cardinality(Timed(S)) = Cardinality(S) /\ {p[1] : p \in Timed(S)} = S
<1> DEFINE f == [x \in S |-> <<x, Timestamp(x)>>]
<1>1. /\ f \in [S -> Timed(S)]
      /\ \A x, y \in S : f[x] = f[y] => x = y
      /\ \A p \in Timed(S) : \E x \in S : f[x] = p
  BY DEF Timed
<1> HIDE DEF f
<1>2. ExistsBijection(S, Timed(S))
  BY <1>1 DEF ExistsBijection, Bijection, Injection, Surjection, IsInjective
<1>3. Cardinality(Timed(S)) = Cardinality(S)
  BY <1>2, FS_Bijection
<1>4. D!Cardinality(Timed(S)) = Cardinality(Timed(S))
  BY DEF D!Cardinality, Cardinality
<1>5. {p[1] : p \in Timed(S)} = S
  <2>1. \A x \in S : <<x, Timestamp(x)>>[1] = x
    OBVIOUS
  <2>2. QED
    BY <2>1, Zenon DEF Timed
<1>6. QED
  BY <1>3, <1>4, <1>5

\* The steps of the engine that the detector does not see.
LEMMA UnseenStep ==
  ASSUME PromptAndLive, DetectionInv, [Next]_vars, now' = now,
         \A e \in Events, r \in Rules : ~ EvaluateRule(e, r)
  PROVE  Pool' = Pool /\ Reported' = Reported /\ fired' = fired
<1>1. /\ EvidenceInv /\ Timely /\ OneWindow /\ TypeInv /\ LiveIsWaiting
      /\ now \in Int /\ TheVersion.window \in Int
  BY DEF DetectionInv, EvidenceInv, TypeInv, TypeOK, PromptAndLive
<1>2. ASSUME NEW k \in Keys
      PROVE  {<<e, Timestamp(e)>> : e \in Live(k)}' = {<<e, Timestamp(e)>> : e \in Live(k)}
  <2>1. Live(k)' = {x \in Live(k) : Timestamp(x) >= now - TheVersion.window}
    BY <1>1, LiveKept
  <2>2. Live(k) = {x \in Waiting(k) : Timestamp(x) >= now - TheVersion.window}
    BY <1>1 DEF LiveIsWaiting
  <2>3. Live(k)' = Live(k)
    BY <2>1, <2>2
  <2>4. \A x \in Live(k) : Timestamp(x)' = Timestamp(x)
    BY <1>1, <2>2, WaitingTimes
  <2>5. QED
    BY <2>3, <2>4
<1>3. Pool' = Pool
  BY <1>2 DEF Pool
<1>4. \A x \in Events, k \in Keys : Evaluated(x, k)' <=> Evaluated(x, k)
  BY <1>1, EvaluatedKept
<1>5. Reported' = Reported
  BY <1>4 DEF Reported
<1>6. fired' = fired
  BY DEF Next, Tick, LoadRules, EvaluateEvent, PurgeOldCounters, vars
<1>7. QED
  BY <1>3, <1>5, <1>6

\* A second that goes by takes from every pool what has left the window.
LEMMA TickIsPass ==
  ASSUME PromptAndLive, DetectionInv, Tick
  PROVE  D!Pass
<1>1. /\ EvidenceInv /\ Timely /\ OneWindow /\ TypeInv /\ LiveIsWaiting
      /\ now \in Int /\ TheVersion.window \in Int /\ [Next]_vars
      /\ \A e \in Events, r \in Rules : ~ EvaluateRule(e, r)
  BY EvaluateRuleEffect DEF DetectionInv, EvidenceInv, TypeInv, TypeOK, PromptAndLive, Next, Tick
<1>2. now' = now + 1 /\ fired' = fired
  BY DEF Tick
<1>3. ASSUME NEW k \in Keys
      PROVE  {<<e, Timestamp(e)>> : e \in Live(k)}'
               = {p \in Pool[k] : p[2] >= now + 1 - TheVersion.window}
  <2>1. Live(k)' = {x \in Live(k) : Timestamp(x) >= now + 1 - TheVersion.window}
    BY <1>1, <1>2, LiveKept
  <2>2. \A x \in Live(k) : Timestamp(x)' = Timestamp(x)
    BY <1>1, WaitingTimes DEF LiveIsWaiting
  <2>3. {<<e, Timestamp(e)>> : e \in Live(k)}'
          = {<<e, Timestamp(e)>> : e \in {x \in Live(k) : Timestamp(x) >= now + 1 - TheVersion.window}}
    BY <2>1, <2>2
  <2>4. Pool[k] = {<<e, Timestamp(e)>> : e \in Live(k)}
    BY DEF Pool
  <2>5. QED
    BY <2>3, <2>4
<1>4. Pool' = [k \in Keys |-> {p \in Pool[k] : p[2] >= now + 1 - TheVersion.window}]
  BY <1>3 DEF Pool
<1>5. \A x \in Events, k \in Keys : Evaluated(x, k)' <=> Evaluated(x, k)
  BY <1>1, EvaluatedKept
<1>6. Reported' = Reported
  BY <1>5 DEF Reported
<1>7. QED
  BY <1>2, <1>4, <1>6 DEF D!Pass, Pool, Reported

\* The evaluation of a rule is a report, with an alarm when it fires.
LEMMA EvaluateRuleIsReport ==
  ASSUME PromptAndLive, DetectionInv, NEW e \in Events, NEW r \in Rules, EvaluateRule(e, r),
         NEW k, k = KeyOf(e, r)
  PROVE  D!Report(e, k)
<1> DEFINE evidence == Pool[k] \cup {<<e, now>>}
<1>1. EvidenceInv /\ Timely /\ OneWindow /\ TypeInv /\ LiveIsWaiting /\ [Next]_vars
  BY DEF DetectionInv, EvidenceInv, Next
<1>2. /\ k \in Keys /\ RuleOf(e, r) = TheVersion /\ Timestamp(e) = now
      /\ Updated(e, r).events = Live(k) \cup {e}
  BY <1>1, UpdatedIsLive, UpdatedCounter, EvaluateRuleEffect
<1>3. now' = now /\ Timestamp(e)' = now
  BY <1>1, <1>2, UpdatedEvaluated, EvaluateRuleEffect
<1>4. evidence = Timed(Live(k) \cup {e})
  BY <1>2 DEF Pool, Timed
<1>5. IsFiniteSet(Live(k) \cup {e})
  <2>1. Live(k) \cup {e} \subseteq Events
    BY <1>1, <1>2, LiveNow
  <2>2. QED
    BY <2>1, EventsFinite, FS_Subset
<1>6. /\ D!Cardinality(evidence) = Cardinality(Updated(e, r).events)
      /\ {p[1] : p \in evidence} = Updated(e, r).events
  BY <1>2, <1>4, <1>5, PairsOfEvents
<1>7. Met(e, r) <=> D!Cardinality(evidence) >= TheVersion.threshold
  BY <1>2, <1>6 DEF Met
<1>8. \A l \in Keys : \A x \in Live(l) : Timestamp(x)' = Timestamp(x)
  BY <1>1, WaitingTimes DEF LiveIsWaiting
<1>9. \A l \in Keys : Live(l)' = IF l # k THEN Live(l)
                                 ELSE IF Met(e, r) THEN {} ELSE Live(l) \cup {e}
  BY <1>1, LiveByRule
<1>10. ASSUME NEW l \in Keys
       PROVE  {<<x, Timestamp(x)>> : x \in Live(l)}'
                = IF l # k THEN Pool[l] ELSE IF Met(e, r) THEN {} ELSE evidence
  <2>1. CASE l # k
    BY <1>8, <1>9, <2>1 DEF Pool
  <2>2. CASE l = k /\ Met(e, r)
    BY <1>9, <2>2
  <2>3. CASE l = k /\ ~ Met(e, r)
    <3>1. Live(l)' = Live(l) \cup {e}
      BY <1>9, <2>3
    <3>2. \A x \in Live(l) \cup {e} : Timestamp(x)' = IF x = e THEN now ELSE Timestamp(x)
      BY <1>2, <1>3, <1>8
    <3>3. {<<x, Timestamp(x)>> : x \in Live(l)}' = Timed(Live(l) \cup {e})
      BY <1>2, <3>1, <3>2 DEF Timed
    <3>4. QED
      BY <1>4, <2>3, <3>3
  <2>4. QED
    BY <2>1, <2>2, <2>3
<1>11. Pool' = [Pool EXCEPT ![k] = IF Met(e, r) THEN {} ELSE evidence]
  BY <1>10 DEF Pool
<1>12. <<e, k>> \notin Reported /\ Reported' = Reported \cup {<<e, k>>}
  <2>1. ~ Evaluated(e, k)
    BY <1>1, NewEvidence, EvaluateRuleEffect
  <2>2. \A x \in Events, l \in Keys : Evaluated(x, l)' <=> (Evaluated(x, l) \/ (x = e /\ l = k))
    BY <1>1, EvaluatedByRule
  <2>3. QED
    BY <1>2, <2>1, <2>2 DEF Reported
<1>13. Alarms' = IF Met(e, r) THEN Alarms \cup {<<k, {p[1] : p \in evidence}>>} ELSE Alarms
  <2>1. fired' = IF Met(e, r)
          THEN fired \cup {[key |-> k, by |-> e, events |-> Updated(e, r).events, rule |-> RuleOf(e, r)]}
          ELSE fired
    BY EvaluateRuleEffect
  <2>2. CASE ~ Met(e, r)
    BY <2>1, <2>2 DEF Alarms
  <2>3. CASE Met(e, r)
    <3> DEFINE firing == [key |-> k, by |-> e, events |-> Updated(e, r).events, rule |-> RuleOf(e, r)]
    <3>1. <<firing.key, firing.events>> = <<k, {p[1] : p \in evidence}>>
      BY <1>6
    <3>2. fired' = fired \cup {firing}
      BY <2>1, <2>3
    <3> HIDE DEF firing, evidence
    <3>3. QED
      BY <2>3, <3>1, <3>2 DEF Alarms
  <2>4. QED
    BY <2>2, <2>3
<1> HIDE DEF evidence
<1>14. QED
  BY <1>3, <1>7, <1>11, <1>12, <1>13 DEF D!Report, Pool, Reported, Alarms, evidence

\* With one version of the rule, prompt evaluation and live timestamps, every
\* behaviour of the engine is one of the detector: no alarm is missed, none is
\* raised twice, none early (correlation.py 105-146, 340-350).
THEOREM EngineImplementsDetector == PromptAndLive => (Spec => ImplementsDetector)
<1> SUFFICES ASSUME PromptAndLive
             PROVE  Spec => ImplementsDetector
  OBVIOUS
<1>1. Init => D!Init
  BY DEF Init, D!Init, Live, Evaluated
<1>2. DetectionInv /\ [Next]_vars => [D!Next]_D!vars
  <2> SUFFICES ASSUME DetectionInv, [Next]_vars
               PROVE  [D!Next]_D!vars
    OBVIOUS
  <2>1. CASE Tick
    BY <2>1, TickIsPass DEF D!Next
  <2>2. ASSUME NEW e \in Events, NEW r \in Rules, EvaluateRule(e, r)
        PROVE  D!Next
    <3>1. KeyOf(e, r) \in Keys
      BY <2>2, UpdatedCounter, EvaluateRuleEffect DEF DetectionInv, EvidenceInv
    <3>2. PICK k \in Keys : k = KeyOf(e, r)
      BY <3>1
    <3>3. QED
      BY <2>2, <3>2, EvaluateRuleIsReport DEF D!Next
  <2>3. CASE now' = now /\ \A e \in Events, r \in Rules : ~ EvaluateRule(e, r)
    BY <2>3, UnseenStep DEF D!vars, Pool, Reported
  <2>4. QED
    BY <2>1, <2>2, <2>3 DEF Next, LoadRules, EvaluateEvent, PurgeOldCounters, vars
<1>3. QED
  BY <1>1, <1>2, DetectionAlways, PTL DEF Spec, ImplementsDetector, D!Spec
=============================================================================
