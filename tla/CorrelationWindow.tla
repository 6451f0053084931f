-------------------------- MODULE CorrelationWindow --------------------------
(***************************************************************************)
(* The threshold detector of backend/app/services/correlation.py: one      *)
(* in-memory sliding-window counter per (rule, group), fed by concurrent   *)
(* evaluate_event coroutines, emptied by a firing and by the periodic      *)
(* cleanup task.  Several coroutines are in flight at once; the body of    *)
(* "async with self._lock" holds no await, so it is one step here.         *)
(*                                                                         *)
(* An event is counted by its identity.  Its timestamp never changes once  *)
(* it is stored, so a counter's list of (timestamp, id) pairs is the set   *)
(* of the ids, and the timestamp is looked up in the event's task.         *)
(***************************************************************************)
EXTENDS Integers, FiniteSets

CONSTANTS
  Events,          \* ids of the events that may be ingested
  Rules,           \* ids of the correlation rules
  Groups,          \* group-by values, "__all__" included
  Versions,        \* the (threshold, time_window) pairs a rule may be given
  ThresholdBound,  \* no version asks for more events than this
  MaxTime,         \* bound of the clock
  MaxLag,          \* how old a timestamp may be when its event is evaluated
  MaxSkew,         \* how far in the future a timestamp may be
  Prompt,          \* TRUE: the clock waits for the evaluations in flight
  Disabled,        \* a rule that is disabled or absent
  NoGroup,         \* an event that a rule's condition does not match
  NoCounter,       \* a key without an entry in _counters
  NotEvaluated     \* an event no coroutine has started to evaluate

ASSUME VersionsAssumption ==
  /\ Versions \subseteq [threshold : Int, window : Int]
  /\ \A v \in Versions : v.threshold <= ThresholdBound
ASSUME EventsFinite == IsFiniteSet(Events)
ASSUME BoundsAssumption ==
  /\ ThresholdBound \in Nat \ {0}
  /\ MaxTime \in Nat /\ MaxLag \in Nat /\ MaxSkew \in Nat
  /\ Prompt \in BOOLEAN
ASSUME MarksAssumption ==
  /\ Disabled \notin Versions
  /\ NoGroup \notin Groups
  /\ NoCounter \notin [window : Int, events : SUBSET Events]
  /\ NotEvaluated \notin [ts : Int, match : [Rules -> Groups \cup {NoGroup}],
                          rules : [Rules -> Versions \cup {Disabled}],
                          todo : SUBSET Rules]

VARIABLES
  now,        \* wall clock, in seconds
  rules,      \* _rules: the version of each rule that the engine has loaded
  task,       \* the evaluate_event coroutine of each event
  counters,   \* _counters
  fired       \* history: one record per threshold that was met

vars == <<now, rules, task, counters, fired>>

Keys == Rules \X Groups
Counter == [window : Int, events : SUBSET Events]
RuleTable == [Rules -> Versions \cup {Disabled}]
Matching == [Rules -> Groups \cup {NoGroup}]
Task == [ts : Int, match : Matching, rules : RuleTable, todo : SUBSET Rules]
Firing == [key : Keys, by : Events, events : SUBSET Events, rule : Versions]

TypeOK ==
  /\ now \in 0..MaxTime
  /\ rules \in RuleTable
  /\ task \in [Events -> Task \cup {NotEvaluated}]
  /\ counters \in [Keys -> Counter \cup {NoCounter}]
  /\ fired \subseteq Firing

Init ==
  /\ now = 0
  /\ rules \in RuleTable
  /\ task = [e \in Events |-> NotEvaluated]
  /\ counters = [k \in Keys |-> NoCounter]
  /\ fired = {}

-----------------------------------------------------------------------------
(* WindowCounter *)

Timestamp(e) == task[e].ts

NewCounter(window) == [window |-> window, events |-> {}]

\* Mutant: events exactly one window old are dropped.
Purge_Exclusive(c, t) ==
  [c EXCEPT !.events = {e \in c.events : Timestamp(e) > t - c.window}]

Purge(c, t) ==
  [c EXCEPT !.events = {e \in c.events : Timestamp(e) >= t - c.window}]

\* Mutant: what has left the window is kept.
Add_NoPurge(c, e) == [c EXCEPT !.events = c.events \cup {e}]

Add(c, e) == Purge([c EXCEPT !.events = c.events \cup {e}], Timestamp(e))

\* The locked body fires when the count has reached the threshold, and replaces
\* the counter it fired from.
\* Mutant: "more than threshold".
ThresholdMet_Above(counter, rule) == Cardinality(counter.events) > rule.threshold

ThresholdMet(counter, rule) == Cardinality(counter.events) >= rule.threshold

\* Mutant: no reset.
Reset_Forgotten(counter, rule, e) == counter

Reset(counter, rule, e) == NewCounter(rule.window)

\* What the cleanup deletes.
\* Mutants: an off-by-one; nothing.
Empty_AtMostOne(c) == Cardinality(c.events) <= 1
Empty_Never(c) == FALSE

Empty(c) == c.events = {}

-----------------------------------------------------------------------------
Tick ==
  /\ now < MaxTime
  /\ Prompt => \A e \in Events : task[e] # NotEvaluated => task[e].todo = {}
  /\ now' = now + 1
  /\ UNCHANGED <<rules, task, counters, fired>>

\* load_rules, from the staleness check of an evaluation or from the rules
\* router: the engine gets what the rule table holds, which operators edit.
LoadRules ==
  /\ rules' \in RuleTable \ {rules}
  /\ UNCHANGED <<now, task, counters, fired>>

\* The rules that can count an event: enabled, and with a condition it meets.
\* Mutant: the group values take the place of the rules.
Applicable_Groups(match) ==
  {match[r] : r \in {q \in Rules : rules[q] # Disabled /\ match[q] # NoGroup}}

Applicable(match) == {r \in Rules : rules[r] # Disabled /\ match[r] # NoGroup}

\* evaluate_event starts its loop over the rules loaded at that moment.  A rule
\* whose condition the event does not meet returns at once and changes nothing.
EvaluateEvent(e) ==
  /\ task[e] = NotEvaluated
  /\ \E ts \in (now - MaxLag)..(now + MaxSkew), match \in Matching :
       task' = [task EXCEPT ![e] =
         [ts |-> ts, match |-> match, rules |-> rules, todo |-> Applicable(match)]]
  /\ UNCHANGED <<now, rules, counters, fired>>

\* The locked body of _evaluate_rule: add, count, and reset on a firing.
EvaluateRule(e, r) ==
  /\ task[e] # NotEvaluated
  /\ r \in task[e].todo
  /\ LET k == <<r, task[e].match[r]>>
         rule == task[e].rules[r]
         old == IF counters[k] = NoCounter THEN NewCounter(rule.window) ELSE counters[k]
         counter == Add([old EXCEPT !.window = rule.window], e)
     IN  /\ counters' = [counters EXCEPT ![k] =
              IF ThresholdMet(counter, rule) THEN Reset(counter, rule, e) ELSE counter]
         /\ fired' = IF ThresholdMet(counter, rule)
              THEN fired \cup {[key |-> k, by |-> e, events |-> counter.events, rule |-> rule]}
              ELSE fired
  /\ task' = [task EXCEPT ![e].todo = @ \ {r}]
  /\ UNCHANGED <<now, rules>>

\* _purge_old_counters: every counter is purged by the wall clock, and the
\* empty ones are deleted.
PurgeOldCounters ==
  /\ counters' = [k \in Keys |->
       IF counters[k] = NoCounter \/ Empty(Purge(counters[k], now))
         THEN NoCounter
         ELSE Purge(counters[k], now)]
  /\ UNCHANGED <<now, rules, task, fired>>

Next ==
  \/ Tick
  \/ LoadRules
  \/ \E e \in Events : EvaluateEvent(e)
  \/ \E e \in Events, r \in Rules : EvaluateRule(e, r)
  \/ PurgeOldCounters

Spec == Init /\ [][Next]_vars

\* The cleanup loop sleeps and runs again for as long as the process lives.
FairSpec == Spec /\ WF_vars(PurgeOldCounters)

-----------------------------------------------------------------------------
(* Properties *)

Evaluated(e, k) ==
  /\ task[e] # NotEvaluated
  /\ task[e].match[k[1]] = k[2]
  /\ task[e].rules[k[1]] # Disabled
  /\ k[1] \notin task[e].todo

Consumed(k) == UNION {f.events : f \in {g \in fired : g.key = k}}

\* No event is evidence for two firings of one (rule, group): the reset on a
\* firing and the add of the next coroutine never overlap (correlation.py
\* 119-140).
FiringsDisjoint ==
  \A f, g \in fired : f.key = g.key /\ f # g => f.events \cap g.events = {}

\* A firing rests on at least threshold events of its own rule and group, all
\* evaluated, none older than the window that ends at the triggering event.
FiringsJustified ==
  \A f \in fired :
    /\ Cardinality(f.events) >= f.rule.threshold
    /\ Evaluated(f.by, f.key)
    /\ \A e \in f.events :
         /\ Evaluated(e, f.key)
         /\ Timestamp(e) >= Timestamp(f.by) - f.rule.window

\* What is waiting in a counter is evaluated on its key and not yet consumed:
\* neither the cleanup nor a change of the rule brings an event back.
WaitingIsUnconsumed ==
  \A k \in Keys : counters[k] # NoCounter =>
    \A e \in counters[k].events : Evaluated(e, k) /\ e \notin Consumed(k)

\* The counters stay small: below the largest threshold between two
\* evaluations, whatever the lag of the logs and the edits of the rules.
CountersBounded ==
  /\ \A k \in Keys : counters[k] # NoCounter =>
       Cardinality(counters[k].events) < ThresholdBound
  /\ \A f \in fired : Cardinality(f.events) <= ThresholdBound

\* With one version of the rule, prompt evaluation and live timestamps, no
\* group of unconsumed events reaches the threshold inside one window: the
\* detection that DEFAULT_RULES promise ("from the same IP within 5 minutes",
\* correlation.py 364) is never missed, whatever the cleanup purges.
NothingMissed ==
  \A k \in Keys, v \in Versions :
    LET waiting == {e \in Events : Evaluated(e, k) /\ task[e].rules[k[1]] = v} \ Consumed(k)
    IN  \A last \in waiting :
          Cardinality({e \in waiting : Timestamp(e) \in (Timestamp(last) - v.window)..Timestamp(last)})
            < v.threshold

\* The events of a firing lie within one window of each other, as the alert
\* says ("within {window} seconds", correlation.py 382-383).
FiringsWithinWindow ==
  \A f \in fired : \A d, e \in f.events : Timestamp(d) - Timestamp(e) <= f.rule.window

\* A group that went quiet is forgotten: the cleanup deletes a counter whose
\* events have all left the window, unless a new event arrives for it first.
Stale(k) ==
  /\ counters[k] # NoCounter
  /\ Purge(counters[k], now).events = {}

QuietKeysReclaimed == \A k \in Keys : Stale(k) ~> ~Stale(k)

=============================================================================
