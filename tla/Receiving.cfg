SPECIFICATION MCSpec
CONSTANTS
  c1 = c1
  c2 = c2
  Never = Never
  NoRow = NoRow
  Nowhere = Nowhere
  Connectors = {c1, c2}
  MaxRecords = 2
  MaxAged = 1
  Gaps <- OneGap
  Rejects <- OneReject
  Poison = {}
  MaxEvents = 1
  MaxMessages = 4
  Malformed = {1}
  MaxFaults = 2
  MaxStops = 2
  None = None
  Line = {"m1", "m2", "t1"}
  ViaTcp = {"t1"}
  Client = {"k1"}
  QueueSize = 2
  MaxSyslogFaults = 1
  MaxRestarts = 2
  Upload = {"u1", "u2", "u3"}
  Content <- Lines
  Host = {"h", "g"}
  HostOf <- HostOfLine
  Unparsable = {"x"}
  MaxBatch = 4
  MaxUploadFaults = 1
INVARIANTS NothingSkipped CommittedIsHandled OnlyTcpIsStrandedLate AnswersExact
PROPERTIES RecordsArrive CommittedIsFinal MessagesArrive AcceptedIsFinished
CHECK_DEADLOCK FALSE
