SPECIFICATION MCSpec
CONSTANTS
  Events = {e1, e2, e3, e4}
  Rules = {r1}
  Groups = {g1}
  Versions <- Thrice
  ThresholdBound = 3
  MaxTime = 3
  MaxLag = 0
  MaxSkew = 0
  Prompt = TRUE
  Disabled = Disabled
  NoGroup = NoGroup
  NoCounter = NoCounter
  NotEvaluated = NotEvaluated
  RuleId = {"r"}
  Definition = {"x"}
  RuleDesk = {"d1", "d2"}
  Feeder = {"s"}
  MaxRuleFaults = 1
INVARIANTS NothingMissed
PROPERTIES ImplementsDetector QuietKeysReclaimed EnabledRulesRun
