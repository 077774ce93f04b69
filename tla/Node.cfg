SPECIFICATION NodeSpec
CONSTANTS
  Block <- MCBlock
  Genesis = "g"
  Root <- MCRoot
  Unworkable <- MCUnworkable
  Parent <- MCParent
  BlockWork <- MCWork
  HashRank <- MCRank
  Valid <- MCValid
  Ancestry <- MCAncestry
  TotalWork <- MCTotalWork
  Mainnet = FALSE
  Peer = {p1}
  Local = local
  NoBlock = NoBlock
  Early = {"b1"}
  SnapshotInterval = 1
  Host = {"h", "k"}
  Socket = {1, 2}
  MaxPeers = 2
  MaxInboundSockets = 2
  MaxInboundPerHost = 1
  MessagesPerWindow = 1
  MessageWindow = 1
  BanScore = 2
  BanDuration = 2
  Penalty <- GuardPenalty
  MaxHosts = 1
  MaxQueued = 1
  HandshakeTime = 1
  MaxTime = 3
  Url = {"a", "b", "c", "o"}
  Own = "o"
  Seeds = {"a"}
  MaxBook = 2
  MaxAddrs = 2
  MaxOutbound = 1
  MaxPeerCount = 2
  MaxSeconds = 2
  MaxLinkDrops = 2
INVARIANTS
  ChainInv
  ActiveChainValid
  StateIsReplay
  RestartAccepted
  NoRefusal
  GuardInv
  DialInv
PROPERTIES
  KnownStays
  Converges
  BanHeld
CHECK_DEADLOCK FALSE
