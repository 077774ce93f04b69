-------------------------------- MODULE Ledger --------------------------------
(***************************************************************************)
(* The state a JGC chain carries: the unspent outputs (consensus/utxo.ts)  *)
(* and the epoch accumulator with its settlement (consensus/epoch.ts).     *)
(*                                                                         *)
(* A transaction is a name whose inputs, output values and size are        *)
(* constants; spends are signed by their owners.  A block is its ordinary  *)
(* transactions and the work of its contributions: its coinbase follows    *)
(* from them (consensus/settlement-transaction.ts).  No transaction spends *)
(* a settlement made in the run, because COINBASE_MATURITY is longer.      *)
(***************************************************************************)
EXTENDS Integers, SequencesExt, FiniteSetsExt, Functions

CONSTANTS
  Tx,           \* ordinary transactions
  Inputs,       \* per transaction, the outputs it spends
  Outputs,      \* per transaction, the values of its outputs
  Funds,        \* the unspent outputs at the fork: [value, height, coinbase]
  Fork,         \* height of the common trunk, which ends an epoch
  Miner,        \* miners, numbered in the order of their addresses
  Subsidy,      \* getBlockReward, within one era
  EpochLength,  \* BLOCKS_PER_EPOCH
  Maturity      \* COINBASE_MATURITY

\* An output is named by its origin: <<"fund", i, 0>>, <<"tx", t, i>> or
\* <<"coinbase", height, miner>>.
Entry == [value : Nat \ {0}, height : Nat, coinbase : BOOLEAN]

ASSUME LedgerAssumption ==
  /\ DOMAIN Inputs = Tx /\ \A t \in Tx : Inputs[t] # {} /\ IsFiniteSet(Inputs[t])
  /\ \A t \in Tx : Inputs[t] \subseteq
       DOMAIN Funds \cup {<<"tx", s, i>> : s \in Tx, i \in 1 .. 9}
  /\ Outputs \in [Tx -> Seq(Nat)]
  /\ Range(Funds) \subseteq Entry
  /\ IsFiniteSet(DOMAIN Funds) /\ \A c \in DOMAIN Funds : c[1] = "fund"
  /\ Fork \in Nat /\ Subsidy \in Nat /\ Maturity \in Nat
  /\ Miner \subseteq Nat /\ IsFiniteSet(Miner)
  /\ EpochLength \in Nat \ {0} /\ (Fork + 1) % EpochLength = 0

Boundary(height) == height % EpochLength = EpochLength - 1

ValueOf(c) == IF c[1] = "tx" THEN Outputs[c[2]][c[3]] ELSE Funds[c].value
Spent(t) == SumFunction([c \in Inputs[t] |-> ValueOf(c)])
Paid(t) == SumFunction(Outputs[t])
Fee(t) == Spent(t) - Paid(t)

\* Mutant: a transaction may pay out more than it spends.
ValidSpendAnyValue(t, utxos, height) ==
  \A c \in Inputs[t] :
    /\ c \in DOMAIN utxos
    /\ utxos[c].coinbase => height - utxos[c].height >= Maturity

\* validateSpend
ValidSpend(t, utxos, height) ==
  /\ \A c \in Inputs[t] :
       /\ c \in DOMAIN utxos
       /\ utxos[c].coinbase => height - utxos[c].height >= Maturity
  /\ Paid(t) <= Spent(t)

\* UTXOSet.applyTransaction: outputs of no value are not tracked.
ApplyTransaction(utxos, t, height) ==
  LET created == {<<"tx", t, i>> : i \in {j \in DOMAIN Outputs[t] : Outputs[t][j] > 0}}
  IN  [c \in (DOMAIN utxos \ Inputs[t]) \cup created |->
         IF c \in created
           THEN [value |-> ValueOf(c), height |-> height, coinbase |-> FALSE]
           ELSE utxos[c]]

\* The unspent outputs after each of the first transactions of a block.
After(utxos, txs, height) ==
  LET u[i \in 0 .. Len(txs)] ==
        IF i = 0 THEN utxos ELSE ApplyTransaction(u[i - 1], txs[i], height)
  IN  u

ApplyTransactions(utxos, txs, height) == After(utxos, txs, height)[Len(txs)]

\* validateBlockSync: each transaction has outputs and spends what the ones
\* before it left; a block has work.
ValidTransactions(utxos, txs, height) ==
  \A i \in DOMAIN txs :
    /\ Outputs[txs[i]] # <<>>
    /\ ValidSpend(txs[i], After(utxos, txs, height)[i - 1], height)

ValidBlock(ledger, block, height) ==
  /\ ValidTransactions(ledger.utxos, block.txs, height)
  /\ \E m \in DOMAIN block.work : block.work[m] > 0

\* Mutant: fees are summed after the inputs are spent, when none resolves.
FeesAfterSpending(utxos, txs, height) ==
  LET left == DOMAIN ApplyTransactions(utxos, txs, height) IN
  SumFunction([i \in DOMAIN txs |-> IF Inputs[txs[i]] \subseteq left THEN Fee(txs[i]) ELSE 0])

\* calculateBlockFees: a transaction's fee counts if its inputs resolve, in the
\* set or in an output of this block.
BlockFees(utxos, txs, height) ==
  SumFunction([i \in DOMAIN txs |->
    IF Inputs[txs[i]] \subseteq DOMAIN After(utxos, txs, height)[i - 1]
      THEN Fee(txs[i]) ELSE 0])

TotalWork(work) == SumFunction(work)

\* The miner settled last: the least work, then the greatest address.
LastSettled(work) ==
  CHOOSE m \in DOMAIN work :
    \A n \in DOMAIN work \ {m} :
      work[m] < work[n] \/ (work[m] = work[n] /\ m > n)

Share(pool, work, m) == (pool * work[m]) \div TotalWork(work)

\* computeEpochSettlement: the last miner takes what the floors leave.
Payout(pool, work) ==
  [m \in DOMAIN work |->
     IF m = LastSettled(work)
       THEN pool - SumFunction([n \in DOMAIN work \ {m} |-> Share(pool, work, n)])
       ELSE Share(pool, work, m)]

\* applyBlockToEpoch for the contributions of one block.
AddWork(work, new) ==
  [m \in DOMAIN work \cup DOMAIN new |->
     (IF m \in DOMAIN work THEN work[m] ELSE 0)
       + (IF m \in DOMAIN new THEN new[m] ELSE 0)]

\* The outputs of the settlement coinbase.
Settled(pool, work, height) ==
  LET paid == {m \in DOMAIN work : Payout(pool, work)[m] > 0} IN
  [c \in {<<"coinbase", height, m>> : m \in paid} |->
     [value |-> Payout(pool, work)[c[3]], height |-> height, coinbase |-> TRUE]]

NoWork == [m \in {} |-> 0]

\* applyBlockState
ApplyBlockState(ledger, block, height) ==
  LET utxos == ApplyTransactions(ledger.utxos, block.txs, height)
      pool == ledger.pool + Subsidy + BlockFees(ledger.utxos, block.txs, height)
      work == AddWork(ledger.work, block.work)
      coins == Settled(pool, work, height)
  IN  IF Boundary(height)
        THEN [utxos |-> [c \in DOMAIN utxos \cup DOMAIN coins |->
                           IF c \in DOMAIN coins THEN coins[c] ELSE utxos[c]],
              pool |-> 0, work |-> NoWork]
        ELSE [utxos |-> utxos, pool |-> pool, work |-> work]

AtFork == [utxos |-> Funds, pool |-> 0, work |-> NoWork]

\* The ledgers after each of the first blocks above the trunk.
States(blocks) ==
  LET state[i \in 0 .. Len(blocks)] ==
        IF i = 0 THEN AtFork ELSE ApplyBlockState(state[i - 1], blocks[i], Fork + i)
  IN  state

Replay(blocks) == States(blocks)[Len(blocks)]

Worth(utxos) == SumFunction([c \in DOMAIN utxos |-> utxos[c].value])
==============================================================================
