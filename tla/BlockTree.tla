------------------------------ MODULE BlockTree ------------------------------
(***************************************************************************)
(* The block tree a JGC node sees: which header names which parent, how    *)
(* much work each header declares, which blocks pass full validation in    *)
(* the state their own ancestors produce, and the fork-choice order of     *)
(* packages/jgc-node/src/config/difficulty-policy.ts.                      *)
(*                                                                         *)
(* A block is a model value: its transactions, proofs and verdicts matter  *)
(* here only through Valid.  What its header says of itself is the         *)
(* sender's word: any block may declare height 0, and with it be the first *)
(* of a chain, whatever parent and however much work it names.             *)
(***************************************************************************)
EXTENDS Integers, Sequences

CONSTANTS
  Block,      \* every block that may reach the node, genesis included
  Genesis,    \* the compiled genesis block
  Root,       \* blocks whose header.height is 0, genesis among them
  Unworkable, \* blocks on whose difficultyBits networkBlockWork throws
  Parent,     \* header.prevHash
  BlockWork,  \* work of one header; networkBlockWork never returns less than 1
  HashRank,   \* the order of the header hashes as strings
  Valid,      \* blocks that validateBlockSync accepts on top of their ancestry
  Ancestry,   \* the chain from the first block of height 0 to each block b
  TotalWork,  \* the work of that chain
  Mainnet     \* chainId is MAINNET_NETWORK.chainId (tie-break, no snapshots)

\* validateBlockSync expects the height after its parent's, hence never 0, and
\* the difficulty of the state.  The parent that a block of height 0 names is
\* never followed, and need not exist.
ASSUME TreeAssumption ==
  /\ Genesis \in Root /\ Root \subseteq Block
  /\ Unworkable \subseteq Block \ {Genesis}
  /\ DOMAIN Parent = Block \ {Genesis}
  /\ \A b \in Block \ Root : Parent[b] \in Block
  /\ BlockWork \in [Block -> Nat \ {0}]
  /\ HashRank \in [Block -> Nat]
  /\ \A a, b \in Block : HashRank[a] = HashRank[b] => a = b
  /\ Valid \subseteq Block \ (Root \cup Unworkable)
  /\ Mainnet \in BOOLEAN

\* ancestryFromGenesis follows header.prevHash back to a block of height 0 and
\* reverses the list: each step adds a block to its parent's chain, and what is
\* walked from a block on the way is the part of the list that ends in it.
ASSUME AncestryAssumption ==
  /\ Ancestry \in [Block -> Seq(Block)]
  /\ \A r \in Root : Ancestry[r] = <<r>>
  /\ \A b \in Block \ Root : Ancestry[b] = Append(Ancestry[Parent[b]], b)
  /\ \A b \in Block : \A i \in 1 .. Len(Ancestry[b]) :
        SubSeq(Ancestry[b], 1, i) = Ancestry[Ancestry[b][i]]
  /\ \A b \in Block : Ancestry[b] # <<>> /\ Ancestry[b][1] \in Root

\* Work adds up along a chain, so a block has more of it than its ancestors.
ASSUME TotalWorkAssumption ==
  /\ TotalWork \in [Block -> Nat]
  /\ \A r \in Root : TotalWork[r] = BlockWork[r]
  /\ \A b \in Block \ Root :
        TotalWork[b] = TotalWork[Parent[b]] + BlockWork[b]
  /\ \A b \in Block : \A i \in 1 .. Len(Ancestry[b]) - 1 :
        TotalWork[Ancestry[b][i]] < TotalWork[b]

\* The first block of a chain: nothing makes it the compiled genesis.
Origin(b) == Ancestry[b][1]
FromGenesis(b) == Origin(b) = Genesis

Height(b) == Len(Ancestry[b]) - 1

\* prefersChainTip: more work wins; on the candidate network equal work is
\* decided by the lower header hash, elsewhere the first-seen tip stays.
PrefersChainTip(work, b, tipWork, tip) ==
  \/ work > tipWork
  \/ Mainnet /\ work = tipWork /\ HashRank[b] < HashRank[tip]
==============================================================================
