SPECIFICATION MarketSpec
CONSTANTS
  Branch = {"a", "b"}
  Request <- MCOneRequest
  Order <- MCOrder
  Validator = {1, 2, 3}
  Fork = 1
  Window = 1
  MaxOpenAudits = 1
  MaxHeight = 5
  Node = {"n"}
  Challenger = {"c1", "c2"}
  Faulty = {"c1"}
  Unscoped = {}
  Version = {1, 2}
  SlashAmount = 1
  RewardBps = 5000
  Num = 2
  Den = 3
  MinQuorum = 2
  MaxBond = 1
  MaxChecks = 2
  MaxClaims = 1
  Genesis = {"g1", "g2"}
  Legacy = "old"
  ResetId = {"", "one"}
  NoReset = ""
  MaxWrites = 6
  User = {"o", "u"}
  Deployer = "o"
  Deployments <- MCDeployments
  Amount = {1}
  InitialMint = 2
  MaxSupply = 5
  MinStake = 1
  LockPeriod = 1
  ClaimAmount = 1
  RewardPerYear <- MCReward
  Rate <- MCRate
  Ether = {1, 2, 3}
  MinPurchase = 2
  MaxPurchase = 2
  Batch <- MCBatch
  MaxTime = 2
  MaxRaised = 3
  MaxDirect = 1
  MaxSigned = 1
  Claimant = {1, 2}
  ValidatorId = {1, 2, 3}
  Body <- ScheduleBodies
  Stake = 2
  WindowSize = 2
  BeaconDelay = 1
  CommitteeSize = 2
  LeastCommittee = 2
  MinimumBond = 1
  DigestOf <- Drawn
  Sampled <- Extra
  MaxBlocks = 4
  MaxRequests = 1
  MaxForged = 1
  ComputeNode = {1, 2}
  Bid = {"dear", "science"}
  Task = {"train"}
  Capacity <- MCCapacity
  Price <- MCPrice
  Demand <- MCDemand
  AtLeast <- MCLeast
  Expiry <- MCExpiry
  Fallback = {"science"}
  RandomBid <- MCRandomBid
  Supports <- MCSupports
  MaxClock = 2
  MaxAssignments = 2
  MaxQueue = 1
INVARIANTS
  BookInv
  EvidenceInv
  OneDecision
  BrokerInv
  StakeInv
  ScheduleInv
  TokenInv
  DirectoryInv
PROPERTIES
  JGFirst
  ScheduledStaysValid
CHECK_DEADLOCK FALSE
