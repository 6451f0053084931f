SPECIFICATION Spec
CONSTANTS
  e1 = e1
  e2 = e2
  e3 = e3
  e4 = e4
  Events = {e1, e2, e3, e4}
  Syslog <- NoSyslog
  Threshold = 2
  MaxLoads = 1
  MaxFaults = 1
  Analyst = TRUE
  Serial = FALSE
  AssetDiscovery = FALSE
  Ueba = TRUE
  NoAlert = NoAlert
  Nobody = Nobody
INVARIANTS
  HitsBacked
  NotifiedIsSaved
  EvidenceNotShared
PROPERTIES
  StatusBelongsToAnalyst
SYMMETRY HttpSymmetry
