SPECIFICATION Spec
CONSTANTS
  Block <- MCFork
  Genesis = "g"
  Root <- MCRoot
  Unworkable = {}
  Parent <- MCParent
  BlockWork <- MCOne
  HashRank <- MCRank
  Valid <- MCValid
  Ancestry <- MCAncestry
  TotalWork <- MCTotalWork
  Mainnet = FALSE
  Node = {n1, n2}
  Link <- MCLinks
  Producer = {n1, n2}
  AuthModes = {FALSE}
  MaxDrops = 0
PROPERTIES
  CatchesUp
CHECK_DEADLOCK FALSE
