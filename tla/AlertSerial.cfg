SPECIFICATION Spec
CONSTANTS
  e1 = e1
  e2 = e2
  e3 = e3
  e4 = e4
  Events = {e1, e2, e3}
  Syslog <- OneSyslog
  Threshold = 1
  MaxLoads = 1
  MaxFaults = 1
  Analyst = TRUE
  Serial = TRUE
  AssetDiscovery = TRUE
  Ueba = TRUE
  NoAlert = NoAlert
  Nobody = Nobody
INVARIANTS
  SavedIsDispatched
PROPERTIES
  ImplementsLedger
