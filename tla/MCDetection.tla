---------------------------- MODULE MCDetection ----------------------------
(* An instance of CorrelationWindow, with the detector it implements, and one of *)
(* RuleCache, which says how the rules that an evaluation starts with come to be,  *)
(* in one run of TLC: part says which of them moves.                                *)
EXTENDS CorrelationDetection, RuleCache

Thrice == {[threshold |-> 3, window |-> 2]}

VARIABLE part

MCInit == /\ part \in {"windows", "rules"}
          /\ Init /\ RulesInit
          /\ IF part = "windows" THEN ruleTable = <<>> ELSE \A r \in Rules : rules[r] = Disabled
MCNext == \/ part = "windows" /\ Next /\ UNCHANGED <<part, ruleVars>>
          \/ part = "rules" /\ RulesNext /\ UNCHANGED <<part, vars>>

\* The cleanup loop and the coroutines are resumed, and time passes.
Fairness ==
  /\ WF_vars(part = "windows" /\ PurgeOldCounters)
  /\ WF_ruleVars(part = "rules" /\ Ageing)
  /\ \A s \in RuleSession : WF_ruleVars(part = "rules" /\ SessionStep(s))
MCSpec == MCInit /\ [][MCNext]_<<part, vars, ruleVars>> /\ Fairness
=============================================================================
