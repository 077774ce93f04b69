SPECIFICATION ServicesSpec
CONSTANTS
  Process = {1, 2}
  CreditId = {"c"}
  Job = {"j"}
  Buyer = {"b"}
  Miner = {"m"}
  WorkerKey = {"m"}
  Amount = {1}
  Duration = {1, 2}
  MaxLease = 1
  MaxTime = 1
  MaxEvents = 5
  Gate = {"proof"}
  IndependentGate = {"proof"}
  Key = {"a", "r"}
  Reviewer = {"r"}
  Commit = {1, 2}
  Manifest <- LaunchManifests
  Policies <- LaunchPolicies
  MaxSignatures = 2
  MaxEdits = 3
  LastTime = 1
  Participant = {"p"}
  Body <- SoakBodies
  Attends <- SoakAttends
  Seed = {"s"}
  Request = {1, 2}
  EpochLength = 1
  Recent = 2
  Interval = 1
  MaxGap = 2
  StallLimit = 2
  MinWindow = 3
  MaxWindow = 5
  Threshold = 2
  Deadline = 4
  MaxInstant = 4
  MaxHeight = 3
  MaxTroubles = 1
  WarnDisk = 85
  FailDisk = 95
  WarnAge = 0
  FailAge = 1
  WarnLife = 2
  FailLife = 1
  Disk = {85, 95}
  MaxHour = 1
  MaxGrowth = 1
  MaxFaults = 1
  Slot = {1, 2}
  Wallet = {"w", "v"}
  Email = {"e"}
  Action = {"share"}
  Campaign = {"c"}
  Week = {1, 2}
  MailBound = TRUE
  MaxRequests = 3
  MaxErrors = 1
  MaxSecond = 2
INVARIANTS
  JournalInv
  FundsInv
  LaunchIsApproved
  WorkerInv
  MonitorInv
  ReadyIsTrue
PROPERTIES
  ImplementsWorkLog
  FailsClosed
ACTION_CONSTRAINT Quiet
CHECK_DEADLOCK FALSE
