------------------------------- MODULE Mempool -------------------------------
(***************************************************************************)
(* A JGC node's pending transactions (network/node.ts): admission, the fee *)
(* rate bound, what blocks and reorgs do to them, and the block candidate  *)
(* built from them, over the ledger of its active chain.                   *)
(*                                                                         *)
(* A transaction arrives from a peer or a user; both go through            *)
(* submitTransaction.  The pool is not persisted: a restart starts over.   *)
(***************************************************************************)
EXTENDS Ledger

CONSTANTS
  Size,           \* per transaction, its serialized length
  MinRelayFeeRate,
  MaxMempoolTxs,
  Bodies,         \* the transaction sequences of other nodes' blocks
  Works,          \* the contributions a block may carry
  MaxReorg,       \* bound: how many blocks a reorg may disconnect
  MaxHeight       \* bound: how long the chain may grow

ASSUME MempoolAssumption ==
  /\ Size \in [Tx -> Nat \ {0}]
  /\ MinRelayFeeRate \in Nat /\ MaxMempoolTxs \in Nat \ {0}
  /\ Bodies \subseteq Seq(Tx) /\ <<>> \in Bodies
  /\ Works # {} /\ \A w \in Works : DOMAIN w \subseteq Miner /\ w \in [DOMAIN w -> Nat]
  /\ MaxReorg \in Nat /\ MaxHeight \in Nat

VARIABLES
  chain,   \* the active chain's blocks above the trunk
  ledger,  \* ChainState.utxos and epochState
  pool     \* [txs: the mempool in Map order, spends: mempoolSpends]

vars == <<chain, ledger, pool>>

Height == Fork + Len(chain)
Block == [txs : Bodies, work : Works]

TypeOK ==
  /\ \A i \in DOMAIN chain :
       ToSet(chain[i].txs) \subseteq Tx /\ chain[i].work \in Works
  /\ Range(ledger.utxos) \subseteq Entry
  /\ ledger.pool \in Nat /\ DOMAIN ledger.work \subseteq Miner
  /\ ToSet(pool.txs) \subseteq Tx /\ Len(pool.txs) = Cardinality(ToSet(pool.txs))
  /\ Len(pool.txs) <= MaxMempoolTxs

EmptyPool == [txs |-> <<>>, spends |-> {}]

Init ==
  /\ chain = <<>>
  /\ ledger = AtFork
  /\ pool = EmptyPool
------------------------------------------------------------------------------
(* Admission *)

\* feeRateGreater, without division.
FeeRateGreater(t, u) == Fee(t) * Size[u] > Fee(u) * Size[t]

\* The transactions of a set, in the order of a sequence.
Keep(txs, some) ==
  LET kept[i \in 0 .. Len(txs)] ==
        IF i = 0 THEN <<>>
        ELSE IF txs[i] \in some THEN Append(kept[i - 1], txs[i]) ELSE kept[i - 1]
  IN  kept[Len(txs)]

\* removeFromMempool, for each of these transactions.
Release(p, gone) ==
  [txs |-> Keep(p.txs, Tx \ gone), spends |-> p.spends \ UNION {Inputs[t] : t \in gone}]

\* lowestFeeRateEntry: the first of the cheapest.
Worst(txs) ==
  txs[CHOOSE i \in DOMAIN txs :
        /\ \A j \in DOMAIN txs : ~FeeRateGreater(txs[i], txs[j])
        /\ \A j \in 1 .. i - 1 : FeeRateGreater(txs[j], txs[i])]

Full(p) == Len(p.txs) >= MaxMempoolTxs

\* Mutant: two pending transactions may spend the same output.
AdmissibleConflicts(p, t, utxos, height) ==
  /\ t \notin ToSet(p.txs)
  /\ ValidSpend(t, utxos, height + 1)
  /\ Fee(t) >= MinRelayFeeRate * Size[t]
  /\ Full(p) => FeeRateGreater(t, Worst(p.txs))

\* Mutant: a newcomer evicts whatever it pays.
AdmissibleWhenFull(p, t, utxos, height) ==
  /\ t \notin ToSet(p.txs)
  /\ Inputs[t] \cap p.spends = {}
  /\ ValidSpend(t, utxos, height + 1)
  /\ Fee(t) >= MinRelayFeeRate * Size[t]

\* The checks of submitTransaction.
Admissible(p, t, utxos, height) ==
  /\ t \notin ToSet(p.txs)
  /\ Inputs[t] \cap p.spends = {}
  /\ ValidSpend(t, utxos, height + 1)
  /\ Fee(t) >= MinRelayFeeRate * Size[t]
  /\ Full(p) => FeeRateGreater(t, Worst(p.txs))

Admit(p, t) ==
  LET room == IF Full(p) THEN Release(p, {Worst(p.txs)}) ELSE p IN
  [txs |-> Append(room.txs, t), spends |-> room.spends \cup Inputs[t]]

SubmitTransaction(t) ==
  /\ Admissible(pool, t, ledger.utxos, Height)
  /\ pool' = Admit(pool, t)
  /\ UNCHANGED <<chain, ledger>>

\* Mutant: only confirmed transactions are dropped, not their conflicts.
PruneConfirmed(p, blocks, utxos, height) ==
  Release(p, {t \in ToSet(p.txs) : \E i \in DOMAIN blocks : t \in ToSet(blocks[i].txs)})

\* pruneMempool
Prune(p, blocks, utxos, height) ==
  Release(p, {t \in ToSet(p.txs) : ~ValidSpend(t, utxos, height + 1)})
------------------------------------------------------------------------------
(* Blocks *)

\* ingestBlock and applyLiveBlock for a block that extends the tip.
Extend(block) ==
  /\ Height < MaxHeight
  /\ ValidBlock(ledger, block, Height + 1)
  /\ chain' = Append(chain, block)
  /\ ledger' = ApplyBlockState(ledger, block, Height + 1)
  /\ pool' = Prune(pool, chain', ledger'.utxos, Height + 1)

\* buildBlockCandidate takes the whole mempool.
Candidate(work) == [txs |-> pool.txs, work |-> work]

\* The designated producer builds and submits a candidate.
Produce(work) == Extend(Candidate(work))

\* A branch that takes over from the block at index kept: as high as the active
\* chain (equal work, lower hash) or one higher, and replayed from the trunk.
Overtakes(kept, blocks) ==
  LET branch == SubSeq(chain, 1, kept) \o blocks IN
  /\ Fork + Len(branch) \in {Height, Height + 1} /\ Fork + Len(branch) <= MaxHeight
  /\ \A i \in kept + 1 .. Len(branch) :
       ValidBlock(States(branch)[i - 1], branch[i], Fork + i)

\* The ordinary transactions of the blocks a reorg disconnects.
Disconnected(kept) ==
  FlattenSeq([i \in 1 .. Len(chain) - kept |-> chain[kept + i].txs])

Resubmit(p, txs, utxos, height) ==
  LET q[i \in 0 .. Len(txs)] ==
        IF i = 0 THEN p
        ELSE IF Admissible(q[i - 1], txs[i], utxos, height) THEN Admit(q[i - 1], txs[i])
        ELSE q[i - 1]
  IN  q[Len(txs)]

\* reorgToBlock: disconnected transactions are resubmitted, then the pool is
\* pruned.
Reorg(kept, blocks) ==
  LET branch == SubSeq(chain, 1, kept) \o blocks
      new == Replay(branch)
      h == Fork + Len(branch)
  IN
  /\ Overtakes(kept, blocks)
  /\ chain' = branch
  /\ ledger' = new
  /\ pool' = Prune(Resubmit(pool, Disconnected(kept), new.utxos, h),
                   branch, new.utxos, h)
------------------------------------------------------------------------------
Next ==
  \/ \E t \in Tx : SubmitTransaction(t)
  \/ \E block \in Block : Extend(block)
  \/ \E work \in Works : Produce(work)
  \/ \E kept \in 0 .. Len(chain) - 1 :
       /\ kept >= Len(chain) - MaxReorg
       /\ \E n \in {Len(chain) - kept, Len(chain) - kept + 1} : \E blocks \in [1 .. n -> Block] :
            Reorg(kept, blocks)

Spec == Init /\ [][Next]_vars
------------------------------------------------------------------------------
(* Properties *)

\* Nothing is minted or lost: what the unspent outputs and the epoch's pool hold
\* is what was there at the fork and one subsidy for every block since, however
\* fees, settlements and reorgs moved it.
Conservation ==
  Worth(ledger.utxos) + ledger.pool = Worth(Funds) + Subsidy * Len(chain)

\* After every handler the pool holds only transactions the next block could
\* spend, no two of them for the same output, and reserves exactly their inputs
\* (pruneMempool, mempoolSpends).
PoolSpendable ==
  /\ \A t \in ToSet(pool.txs) : ValidSpend(t, ledger.utxos, Height + 1)
  /\ \A t, u \in ToSet(pool.txs) : t # u => Inputs[t] \cap Inputs[u] = {}
  /\ pool.spends = UNION {Inputs[t] : t \in ToSet(pool.txs)}

\* "This remains correct after restart, sync, reorg, and retarget": whatever the
\* pool went through, the block built from all of it is valid.
CandidateValid ==
  \A work \in Works : ValidBlock(ledger, Candidate(work), Height + 1)

\* Both: each pending transaction can be spent, and all of them together make a
\* block the node itself accepts.
PoolInv == PoolSpendable /\ CandidateValid

\* A transaction that could still be spent leaves the pool only for one that
\* pays a strictly higher rate ("only if the newcomer pays a strictly higher
\* rate"), also when the newcomers are the transactions of a reorg.
EvictedForBetter ==
  [][\A t \in ToSet(pool.txs) \ ToSet(pool.txs)' :
       ValidSpend(t, ledger.utxos, Height + 1)'
         => \E u \in ToSet(pool.txs)' \ ToSet(pool.txs) : FeeRateGreater(u, t)]_vars

\* "Disconnected txs (old active blocks above the fork) return to the mempool":
\* one that the new chain can spend is pending after the reorg, unless another
\* pending transaction spends its inputs or the pool is full.
DisconnectedReturn ==
  [][\A i \in DOMAIN chain : \A t \in ToSet(chain[i].txs) :
       (~IsPrefix(chain, chain') /\ ValidSpend(t, ledger.utxos, Height + 1)')
         => \/ t \in ToSet(pool.txs)'
            \/ (Inputs[t] \cap pool.spends # {})'
            \/ Full(pool)'
            \/ Fee(t) < MinRelayFeeRate * Size[t]]_vars
==============================================================================
