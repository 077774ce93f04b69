SPECIFICATION FaultSpec
CONSTANTS
  Block <- MCFaultBlock
  Genesis = "g"
  Root <- MCRoot
  Unworkable <- MCUnworkable
  Parent <- MCParent
  BlockWork <- MCWork
  HashRank <- MCRank
  Valid <- MCAllValid
  Ancestry <- MCAncestry
  TotalWork <- MCTotalWork
  Mainnet = FALSE
  Peer = {p1}
  Local = local
  NoBlock = NoBlock
  Early = {}
  SnapshotInterval = 2
INVARIANTS
  LogIsLinear
