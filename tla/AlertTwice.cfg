SPECIFICATION Spec
CONSTANTS
  e1 = e1
  e2 = e2
  e3 = e3
  e4 = e4
  Events = {e1, e2}
  Syslog <- NoSyslog
  Threshold = 1
  MaxLoads = 2
  MaxFaults = 0
  Analyst = FALSE
  Serial = FALSE
  AssetDiscovery = FALSE
  Ueba = TRUE
  NoAlert = NoAlert
  Nobody = Nobody
PROPERTIES
  OpensOneAlert
