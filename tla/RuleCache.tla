------------------------------ MODULE RuleCache ------------------------------
(***************************************************************************)
(* The correlation engine's copy of the rule table: load_rules and         *)
(* reload_rules_if_stale of backend/app/services/correlation.py, called by *)
(* the requests of backend/app/routers/rules.py after their commit and by  *)
(* evaluate_event when the copy is older than a minute.  load_rules reads  *)
(* in one step and assigns _rules in another, and what it assigns are the  *)
(* objects of the caller's session: a SELECT decides which rules those     *)
(* are, but an object that the session still has keeps the columns it was  *)
(* first read with.  A desk is a request, a feeder a session that stores   *)
(* and evaluates events one after the other.                               *)
(***************************************************************************)
EXTENDS Naturals, FiniteSets, TLC

CONSTANTS
  RuleId,          \* ids, each used once
  Definition,      \* what a rule says beside enabled
  RuleDesk,        \* sessions of the rules router
  Feeder,          \* sessions of ingestion
  MaxRuleFaults    \* bound of the failures and restarts

RuleRow == [enabled : BOOLEAN, says : Definition]
RuleSession == RuleDesk \cup Feeder
Nobody == "nobody"
Unreadable == [enabled |-> FALSE, says |-> "expired"]    \* an object expired and detached

ASSUME RuleCacheAssumption ==
  RuleDesk \cap Feeder = {} /\ Nobody \notin RuleSession /\ MaxRuleFaults \in Nat

VARIABLES
  ruleTable,     \* correlation_rules
  everUsed,      \* the ids that rules were created with
  engineRules,   \* _rules, the session its objects belong to, and how old _rules_loaded_at is
  ruleSession,   \* the sessions, the rule objects they have, and where their coroutine is
  ruleFaults
ruleVars == <<ruleTable, everUsed, engineRules, ruleSession, ruleFaults>>

Closed == [pc |-> "closed", objects |-> <<>>, edit |-> <<>>, answer |-> <<>>]
NoRules == [rules |-> <<>>, owner |-> Nobody, age |-> "never"]

RulesInit ==
  /\ ruleTable \in UNION {[R -> RuleRow] : R \in SUBSET RuleId}
  /\ everUsed = DOMAIN ruleTable
  /\ engineRules = NoRules /\ ruleFaults = 0
  /\ ruleSession = [s \in RuleSession |-> Closed]

EnabledRules == {r \in DOMAIN ruleTable : ruleTable[r].enabled}
Goes(s, pc) == ruleSession' = [ruleSession EXCEPT ![s].pc = pc]

\* The end of a session: its objects belong to nobody.
Orphaned(s) == IF engineRules.owner = s THEN [engineRules EXCEPT !.owner = Nobody] ELSE engineRules
CloseSession(s) == ruleSession' = [ruleSession EXCEPT ![s] = Closed] /\ engineRules' = Orphaned(s)

-----------------------------------------------------------------------------
(* routers/rules.py.  A request that answers 404 or 409 before its commit does nothing. *)

Ask(d, edit) ==
  /\ ruleSession[d].pc = "closed"
  /\ ruleSession' = [ruleSession EXCEPT ![d] = [Closed EXCEPT !.pc = "commit", !.edit = edit]]

CreateRule(d) ==
  /\ \E r \in RuleId \ everUsed, row \in RuleRow :
       Ask(d, [op |-> "create", rule |-> r, row |-> row]) /\ everUsed' = everUsed \cup {r}
  /\ UNCHANGED <<ruleTable, engineRules, ruleFaults>>

\* update_rule and toggle_rule read the row and set columns of the object.  A request that
\* sets them to what they are is left out.
ChangeRule(d) ==
  /\ \E r \in DOMAIN ruleTable : \E row \in RuleRow \ {ruleTable[r]} :
       Ask(d, [op |-> "change", rule |-> r, read |-> ruleTable[r], row |-> row])
  /\ UNCHANGED <<ruleTable, everUsed, engineRules, ruleFaults>>

DeleteRule(d) ==
  /\ \E r \in DOMAIN ruleTable : Ask(d, [op |-> "delete", rule |-> r])
  /\ UNCHANGED <<ruleTable, everUsed, engineRules, ruleFaults>>

\* An UPDATE writes the columns that differ from what was read.
Written(edit) ==
  LET old == ruleTable[edit.rule]
  IN [c \in {"enabled", "says"} |-> IF edit.row[c] = edit.read[c] THEN old[c] ELSE edit.row[c]]

\* The commit.  The UPDATE of a row that is gone raises; its DELETE only warns.
CommitEdit(d) ==
  LET edit == ruleSession[d].edit
      Put(row) == ruleTable' = (edit.rule :> row) @@ ruleTable
  IN /\ ruleSession[d].pc = "commit"
     /\ \/ edit.op = "create" /\ Put(edit.row) /\ Goes(d, "refresh") /\ UNCHANGED engineRules
        \/ /\ edit.op = "change" /\ edit.rule \in DOMAIN ruleTable
           /\ Put(Written(edit)) /\ Goes(d, "refresh") /\ UNCHANGED engineRules
        \/ /\ edit.op = "change" /\ edit.rule \notin DOMAIN ruleTable
           /\ CloseSession(d) /\ UNCHANGED ruleTable
        \/ /\ edit.op = "delete"
           /\ ruleTable' = [r \in DOMAIN ruleTable \ {edit.rule} |-> ruleTable[r]]
           /\ Goes(d, "load") /\ UNCHANGED engineRules
     /\ UNCHANGED <<everUsed, ruleFaults>>

\* refresh reads the row again, and raises if it is gone.
RefreshRule(d) ==
  LET r == ruleSession[d].edit.rule
  IN /\ ruleSession[d].pc = "refresh"
     /\ IF r \in DOMAIN ruleTable
          THEN /\ ruleSession' = [ruleSession EXCEPT ![d].pc = "load", ![d].objects = r :> ruleTable[r]]
               /\ UNCHANGED engineRules
          ELSE CloseSession(d)
     /\ UNCHANGED <<ruleTable, everUsed, ruleFaults>>

-----------------------------------------------------------------------------
(* services/correlation.py *)

\* The objects that a session surely still has when it reads: a request's own, and those
\* that _rules refers to.  Others may have been collected.
HeldBy(s) ==
  IF s \in RuleDesk THEN DOMAIN ruleSession[s].objects
  ELSE IF engineRules.owner = s THEN DOMAIN ruleSession[s].objects \cap DOMAIN engineRules.rules ELSE {}

ReadRules(s) ==
  /\ ruleSession[s].pc = "load"
  /\ \E kept \in SUBSET DOMAIN ruleSession[s].objects :
       LET object(r) == IF r \in kept THEN ruleSession[s].objects[r] ELSE ruleTable[r]
       IN /\ HeldBy(s) \subseteq kept
          /\ ruleSession' = [ruleSession EXCEPT ![s].pc = "assign",
                               ![s].answer = [r \in EnabledRules |-> object(r)],
                               ![s].objects = [r \in EnabledRules \cup kept |-> object(r)]]
  /\ UNCHANGED <<ruleTable, everUsed, engineRules, ruleFaults>>

AssignRules(s) ==
  /\ ruleSession[s].pc = "assign"
  /\ engineRules' = [rules |-> ruleSession[s].answer, age |-> "young",
                     owner |-> IF s \in RuleDesk THEN Nobody ELSE s]
  /\ ruleSession' = [ruleSession EXCEPT ![s] =
       IF s \in RuleDesk THEN Closed ELSE [@ EXCEPT !.pc = "evaluate", !.answer = <<>>]]
  /\ UNCHANGED <<ruleTable, everUsed, ruleFaults>>

\* A minute passes.
Ageing ==
  /\ engineRules.age = "young" /\ engineRules' = [engineRules EXCEPT !.age = "stale"]
  /\ UNCHANGED <<ruleTable, everUsed, ruleSession, ruleFaults>>

\* reload_rules_if_stale.
\* Mutant: only an engine that never loaded its rules does.
MustReload_Once == engineRules.age = "never"

MustReload == engineRules.age # "young"

\* An event comes to a session, the first one or a further one.
EventComes(s) ==
  /\ ruleSession[s].pc \in {"closed", "open"} /\ Goes(s, IF MustReload THEN "load" ELSE "evaluate")
  /\ UNCHANGED <<ruleTable, everUsed, engineRules, ruleFaults>>

\* The loop over _rules.  A rule that fires is added to the session, with its columns as
\* they are; that raises if its object belongs to another session, or has expired.
Evaluates(s) ==
  /\ ruleSession[s].pc = "evaluate"
  /\ \E firing \in SUBSET {r \in DOMAIN engineRules.rules : engineRules.rules[r] # Unreadable} :
       /\ engineRules.owner \notin {Nobody, s} => firing = {}
       /\ ruleSession' = [ruleSession EXCEPT ![s].pc = "open",
            ![s].objects = @ @@ [r \in firing |-> engineRules.rules[r]]]
  /\ UNCHANGED <<ruleTable, everUsed, engineRules, ruleFaults>>

SessionEnds(s) ==
  /\ ruleSession[s].pc = "open" /\ CloseSession(s)
  /\ UNCHANGED <<ruleTable, everUsed, ruleFaults>>

-----------------------------------------------------------------------------
\* The database fails, or a name clashes at a commit: an exception ends the work of a
\* session, and a rollback expires the objects of _rules that belong to it, so that reading
\* one raises until the next load.
Expired == [r \in DOMAIN engineRules.rules |-> Unreadable]
SessionFails(s) ==
  /\ ruleFaults < MaxRuleFaults /\ ruleSession[s].pc # "closed" /\ ruleFaults' = ruleFaults + 1
  /\ ruleSession' = [ruleSession EXCEPT ![s] = Closed]
  /\ \/ engineRules' = Orphaned(s)
     \/ engineRules.owner = s /\ engineRules' = [Orphaned(s) EXCEPT !.rules = Expired]
  /\ UNCHANGED <<ruleTable, everUsed>>

RulesRestart ==
  /\ ruleFaults < MaxRuleFaults /\ ruleFaults' = ruleFaults + 1
  /\ engineRules' = NoRules /\ ruleSession' = [s \in RuleSession |-> Closed]
  /\ UNCHANGED <<ruleTable, everUsed>>

SessionStep(s) == RefreshRule(s) \/ ReadRules(s) \/ AssignRules(s) \/ Evaluates(s) \/ CommitEdit(s)

RulesNext ==
  \/ \E d \in RuleDesk : CreateRule(d) \/ ChangeRule(d) \/ DeleteRule(d)
  \/ \E s \in RuleSession : SessionStep(s) \/ SessionFails(s)
  \/ \E s \in Feeder : EventComes(s) \/ SessionEnds(s)
  \/ Ageing \/ RulesRestart

\* The event loop resumes every coroutine, and time passes.
RulesFairness == WF_ruleVars(Ageing) /\ \A s \in RuleSession : WF_ruleVars(SessionStep(s))
RulesSpec == RulesInit /\ [][RulesNext]_ruleVars /\ RulesFairness

-----------------------------------------------------------------------------
(* Properties *)

\* While events keep coming and once the edits are over, the engine evaluates exactly the
\* rules that are enabled, whichever loads overlapped, failed after their commit or were
\* made by a session with old objects (correlation.py:73-86; rules.py:83-84, 132-133).
NobodyEdits == \A d \in RuleDesk : ruleSession[d].pc = "closed"
Evaluating == \E s \in Feeder : ruleSession[s].pc = "evaluate"
EnabledRulesRun ==
  <>[]NobodyEdits /\ []<>Evaluating => <>[](DOMAIN engineRules.rules = EnabledRules)

\* The same of what the rules say: rules.py reloads after each commit ("Reload rules in
\* correlation engine", 83, 132).
LatestRulesRun ==
  <>[]NobodyEdits /\ []<>Evaluating =>
    <>[](engineRules.rules = [r \in EnabledRules |-> ruleTable[r]])
=============================================================================
