SPECIFICATION Spec
CONSTANTS
  Block <- MCChain
  Genesis = "g"
  Root <- MCRoot
  Unworkable = {}
  Parent <- MCParent
  BlockWork <- MCOne
  HashRank <- MCRank
  Valid <- MCValid
  Ancestry <- MCAncestry
  TotalWork <- MCTotalWork
  Mainnet = FALSE
  Node = {n1, n2}
  Link <- MCLinks
  Producer = {n1}
  AuthModes = {TRUE}
  MaxDrops = 0
INVARIANTS
  GapIsFetched
CHECK_DEADLOCK FALSE
