----------------------------- MODULE Contributions -----------------------------
(***************************************************************************)
(* Signed compute contributions of the public pilot, from participant to   *)
(* block: the participation loop (miner/testnet-participant.ts), the pool  *)
(* of pending proofs and its relay (network/node.ts), the designated       *)
(* producer (network/designated-producer.ts), the proof rules of a block   *)
(* (consensus/validation.ts, crypto/compute-proof.ts).                     *)
(*                                                                         *)
(* The nodes are connected pairwise.  A contribution is signed for one     *)
(* height and proves a task named by a random commitment, so every new one *)
(* has a task of its own.  Its weight is the target of the chain it was    *)
(* made for; targets do not change in the run.  A block that was produced  *)
(* reaches the other nodes in order (PeerSync), some time later.           *)
(***************************************************************************)
EXTENDS Integers, SequencesExt, FiniteSetsExt, Functions

CONSTANTS
  Node, Producer,  \* the designated producer is one of the nodes
  Miner,           \* participants, numbered in the order of their addresses
  Home,            \* per miner, the node it submits to
  Weight,          \* per miner, the TFLOPS it claims
  Target,          \* of a block, in TFLOPS
  MaxHeight, MaxTasks, MaxLosses   \* bounds

\* Who produces and who submits where; a block asks for some work.
MiningHypothesis == Producer \in Node /\ Target \in Nat \ {0} /\ Home \in [Miner -> Node]

VARIABLES
  height,   \* per node, the height of its tip
  pending,  \* per node, pendingProofs
  made,     \* per miner, the contribution it holds, or None
  wire,     \* contributions in flight: [from, to, proof]
  mined,   \* what the blocks above genesis credited
  tasks,    \* commitments drawn so far
  losses    \* messages lost and processes restarted

miningVars == <<height, pending, made, wire, mined, tasks, losses>>

None == [miner |-> 0, task |-> 0, height |-> 0]
Proofs(p) == [miner : {p}, task : 1 .. MaxTasks, height : 1 .. MaxHeight]

MiningInit ==
  /\ height = [n \in Node |-> 0]
  /\ pending = [n \in Node |-> {}]
  /\ made = [p \in Miner |-> None]
  /\ wire = {}
  /\ mined = <<>>
  /\ tasks = 0
  /\ losses = 0

\* verifyPortableComputeProofExact at ten percent of the target, rounded up.
Floor == (Target + 9) \div 10
Sound(proof) == Weight[proof.miner] >= Floor

\* Mutant: a contribution for any height is accepted.
ValidPendingAtAnyHeight(n, proof) == Sound(proof)

\* validatePendingContribution: signed for the next height of this node.
ValidPending(n, proof) == proof.height = height[n] + 1 /\ Sound(proof)

OfMiner(n, p) == {c \in pending[n] : c.miner = p}

ToPeers(n, except, proof) ==
  {[from |-> n, to |-> m, proof |-> proof] : m \in Node \ {n, except}}

-----------------------------------------------------------------------------
\* Mutant: the loop keeps the contribution of an earlier height.
HeldForever(p, h, task) ==
  IF made[p] # None THEN made[p] ELSE [miner |-> p, task |-> task, height |-> h]

\* The contribution a participant submits: the one it holds for this height, or
\* a new one.
Held(p, h, task) ==
  IF made[p] # None /\ made[p].height = h
    THEN made[p] ELSE [miner |-> p, task |-> task, height |-> h]

\* TestnetParticipant.tick and broadcastComputeProof: a contribution already
\* pending is sent again; another one of the same miner is refused, which the
\* loop takes as done.
ParticipantTick(p) ==
  LET n == Home[p]
      proof == Held(p, height[n] + 1, tasks + 1)
      fresh == proof # made[p]
  IN  /\ height[n] < MaxHeight
      /\ fresh => tasks < MaxTasks
      /\ tasks' = IF fresh THEN tasks + 1 ELSE tasks
      /\ made' = [made EXCEPT ![p] = proof]
      /\ IF ValidPending(n, proof) /\ OfMiner(n, p) \subseteq {proof}
           THEN /\ pending' = [pending EXCEPT ![n] = @ \cup {proof}]
                /\ wire' = wire \cup ToPeers(n, n, proof)
           ELSE UNCHANGED <<pending, wire>>
      /\ UNCHANGED <<height, mined, losses>>

Takes(n, proof) == ValidPending(n, proof) /\ OfMiner(n, proof.miner) = {}

\* handleComputeProof: the first contribution of a miner is kept, and relayed to
\* the other peers.
Receive(message) ==
  LET n == message.to  proof == message.proof
      takes == Takes(n, proof)
  IN  /\ pending' = IF takes THEN [pending EXCEPT ![n] = @ \cup {proof}] ELSE pending
      /\ wire' = (wire \ {message})
                   \cup IF takes THEN ToPeers(n, message.from, proof) ELSE {}
      /\ UNCHANGED <<height, made, mined, tasks, losses>>

\* getPendingProofs: one per miner, the least commitment.
Candidate(n) ==
  {c \in pending[n] : \A d \in OfMiner(n, c.miner) : c.task <= d.task}

Work(proofs) == SumFunction([c \in proofs |-> Weight[c.miner]])

\* validateComputeProofs: every miner and every task once, signatures for this
\* height, sound proofs, and together the target.
ValidProofs(proofs, h) ==
  /\ proofs # {}
  /\ \A c, d \in proofs : c # d => c.miner # d.miner /\ c.task # d.task
  /\ \A c \in proofs : c.height = h /\ Sound(c)
  /\ Work(proofs) >= Target

\* Mutant: a block clears only the proofs it contains.
LeftUnused(n, proofs) == pending[n] \ proofs

\* A block ends the contributions of its height, used or not.
Left(n, proofs) == {}

\* DesignatedBlockProducer.tickNow with enough work: build, submit, apply.
ProducerTick ==
  LET proofs == Candidate(Producer)  h == height[Producer] + 1 IN
  /\ h <= MaxHeight
  /\ Work(proofs) >= Target
  /\ ValidProofs(proofs, h)
  /\ mined' = Append(mined, proofs)
  /\ height' = [height EXCEPT ![Producer] = h]
  /\ pending' = [pending EXCEPT ![Producer] = Left(Producer, proofs)]
  /\ UNCHANGED <<made, wire, tasks, losses>>

\* Another node applies the next block.
Apply(n) ==
  /\ n # Producer /\ height[n] < Len(mined)
  /\ height' = [height EXCEPT ![n] = @ + 1]
  /\ pending' = [pending EXCEPT ![n] = Left(n, mined[height[n] + 1])]
  /\ UNCHANGED <<made, wire, mined, tasks, losses>>

Lose(message) ==
  /\ losses < MaxLosses /\ losses' = losses + 1
  /\ wire' = wire \ {message}
  /\ UNCHANGED <<height, pending, made, mined, tasks>>

\* A process restarts with its chain: the pool and the loops that ran in it start
\* empty, the identity file keeps the address.
Restart(n) ==
  /\ losses < MaxLosses /\ losses' = losses + 1
  /\ pending' = [pending EXCEPT ![n] = {}]
  /\ made' = [p \in Miner |-> IF Home[p] = n THEN None ELSE made[p]]
  /\ wire' = {m \in wire : m.to # n}
  /\ UNCHANGED <<height, mined, tasks>>

MiningNext ==
  \/ \E p \in Miner : ParticipantTick(p)
  \/ \E message \in wire : Receive(message) \/ Lose(message)
  \/ ProducerTick
  \/ \E n \in Node : Apply(n) \/ Restart(n)

(* The loops run on timers, sockets deliver what they are given, and a node *)
(* that is behind catches up.                                               *)
Fairness ==
  /\ \A p \in Miner : WF_miningVars(ParticipantTick(p))
  /\ \A n \in Node, p \in Miner : WF_miningVars(\E m \in wire :
       m.to = n /\ m.proof.miner = p /\ m.proof.height >= height[n] + 1 /\ Receive(m))
  /\ WF_miningVars(ProducerTick)
  /\ \A n \in Node : WF_miningVars(Apply(n))

MiningSpec == MiningInit /\ [][MiningNext]_miningVars /\ Fairness

-----------------------------------------------------------------------------
(* Whatever nodes heard late, twice or after a restart, what a node would   *)
(* put into a block satisfies the rules of the next block: one contribution *)
(* of a miner, no task twice, none signed for another height.  So the       *)
(* producer is never stuck on a template its own node rejects.              *)
TemplateValid ==
  \A n \in Node :
    LET proofs == Candidate(n) IN
    Work(proofs) >= Target => ValidProofs(proofs, height[n] + 1)

\* No contribution is credited in two blocks, nor a miner twice in one.
CreditedOnce ==
  \A i, j \in DOMAIN mined : \A c \in mined[i], d \in mined[j] :
    i # j \/ c # d => c.task # d.task /\ (i = j => c.miner # d.miner)

ProofsInv == TemplateValid /\ CreditedOnce

\* The pilot goes on: lost receipts are sent again until the block is there.
KeepsProducing == <>(\A n \in Node : height[n] = MaxHeight)
==============================================================================
