SPECIFICATION MCSpec
CONSTANTS
  StoredEvent = {"e1", "e2"}
  Stamp <- StampOf
  Policy = {"p1", "p2"}
  PolicyRow <- PolicyRows
  Cycle = {"loop", "manual"}
  Loop = "loop"
  BatchLimit = 1
  LastDay = 1
  MaxPolicyEdits = 2
  MaxRetentionFaults = 1
  UserEvent = {"e1", "e2", "e3"}
  PastEvent = {"e1", "e3"}
  UserOf <- UserOfEvent
  HourAt <- HourOfEvent
  IpOf <- IpOfEvent
  Nightly = "nightly"
  Refresh = {"nightly", "manual"}
  MaxUebaFaults = 1
INVARIANT InOneTable
PROPERTIES AgedEventsLeave RefreshedBaselinesArrive
CHECK_DEADLOCK FALSE
