SPECIFICATION Spec
CONSTANTS
  Tx <- MCTxGift
  Inputs <- MCInputs
  Outputs <- MCOutputs
  Funds <- MCFunds
  Fork = 1
  Miner = {1, 2}
  Subsidy = 5
  EpochLength = 2
  Maturity = 3
  Size <- MCSize
  MinRelayFeeRate = 1
  MaxMempoolTxs = 2
  Bodies <- MCBodiesReturn
  Works <- MCOneWork
  MaxReorg = 1
  MaxHeight = 4
INVARIANTS
  CandidateValid
