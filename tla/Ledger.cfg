SPECIFICATION LedgerSpec
CONSTANTS
  Tx <- MCTx
  Inputs <- MCInputs
  Outputs <- MCOutputs
  Funds <- MCFunds
  Fork = 1
  Miner = {1, 2}
  Subsidy = 5
  EpochLength = 2
  Maturity = 3
  Size <- MCSize
  MinRelayFeeRate = 1
  MaxMempoolTxs = 2
  Bodies <- MCBodies
  Works <- MCWorks
  MaxReorg = 1
  MaxHeight = 5
  Label = {3, 100, 101}
  Numeric = {3}
  Identifier = {100, 101}
  AccountName <- MCAccountName
  MaxAccounts = 2
  Coin <- MCCoin
  Payment = {1, 5}
  Fees = {0, 1}
  CoinMaturity = 2
  MaxMoney = 12
  MaxTip = 3
  MaxKeys = 3
  Window = 2
  Interval = 4
  MedianSpan = 3
  MaxFuture = 3
  EpochBlocks = 2
  EraLength = 3
  Initial = 7
  Base = 4
  Digits = 2
  MaxSize = 15
  Scale = 4
  Cents = 2
  FirstTarget = 9
  FeeTotals = {1}
  SnapshotEvery = 2
  Waits = {6, 40}
  MaxChain = 5
  MaxTime = 47
INVARIANTS
  Conservation
  PoolInv
  RulesInv
  ProofsInv
  EncodingInv
  WalletInv
PROPERTIES
  EvictedForBetter
  KeepsProducing
CHECK_DEADLOCK FALSE
