SPECIFICATION Spec
CONSTANTS
  Events = {e1, e2, e3}
  Rules = {r1}
  Groups = {g1, g2}
  Versions <- Edited
  ThresholdBound = 3
  MaxTime = 2
  MaxLag = 1
  MaxSkew = 1
  Prompt = FALSE
  Disabled = Disabled
  NoGroup = NoGroup
  NoCounter = NoCounter
  NotEvaluated = NotEvaluated
INVARIANTS TypeOK FiringsDisjoint FiringsJustified CountersBounded
SYMMETRY EventGroupSymmetry
