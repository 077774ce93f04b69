SPECIFICATION ArrivalSpec
CONSTANTS
  Block <- MCTieBlock
  Genesis = "g"
  Root <- MCRoot
  Unworkable <- MCUnworkable
  Parent <- MCParent
  BlockWork <- MCWork
  HashRank <- MCRank
  Valid <- MCValid
  Ancestry <- MCAncestry
  TotalWork <- MCTotalWork
  Mainnet = TRUE
  Peer = {p1, p2}
  Local = local
  NoBlock = NoBlock
  Early = {"b2"}
  SnapshotInterval = 1
INVARIANTS
  RestIsBest
  BestKnown
PROPERTIES
  OrphansDrain
  ImplementsForkChoice
CHECK_DEADLOCK FALSE
