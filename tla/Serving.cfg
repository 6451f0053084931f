SPECIFICATION MCSpec
CONSTANTS
  Users = {"admin", "other"}
  Admins = {"admin"}
  FailureWindow = 2
  MaxFailures = 2
  LockoutDuration = 3
  MaxTime = 6
  MaxAttempts = 4
  Login = {"l1", "l2"}
  Callback = {"b1", "b2"}
  MaxConfigEdits = 2
  MaxRedisFaults = 1
  Term = {"a", "b", "u"}
  UnknownField = {"u"}
  MaxTerms = 3
  MaxNesting = 1
  MaxTokens = 5
  Case = {"c"}
  Item = {"e", "a"}
  Note = {"n"}
  Payload <- Payloads
  Desk = {"d1", "d2"}
  MaxCaseEdits = 5
  Playbook = {"p1", "p2"}
  PlaybookDef <- PlaybookDefs
  Run = {"t1", "t2"}
  MaxPlaybookEdits = 2
  MaxDeskEdits = 1
  MaxRunFaults = 1
  AssetId = {"a1", "a2", "a3"}
  Hostname = {"web"}
  Software = {"s1", "s2"}
  Cve = {"v"}
  Nvd <- NvdAnswers
  Enrichment = {"t1", "t2"}
  NoAsset = NoAsset
  Scan = {"t1", "t2"}
  Ip = {"i1", "i2"}
  NameOf <- OneName
  MaxScanFaults = 1
INVARIANTS GuessesBounded VerifierOnce LoginsFinish AnswersWhatIsAsked LinkedOnce ClosedIsDated CountIsBacked RecordsExplain CountersAreRows
PROPERTIES EveryRunEnds ScansEnd
CHECK_DEADLOCK FALSE
