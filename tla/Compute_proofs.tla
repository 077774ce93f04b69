---------------------------- MODULE Compute_proofs ----------------------------
(***************************************************************************)
(* Proofs about computation on the way to the chain: the contributions of  *)
(* the public pilot (Contributions), the schedule that draws audits and    *)
(* proposers from the bonds (AuditSchedule), the keys, proofs and verifier *)
(* modes of what is computed (ProofSystem), and the allocation of work by  *)
(* the broker (ComputeBroker).                                             *)
(***************************************************************************)
EXTENDS Contributions, AuditSchedule, ProofSystem, ComputeBroker, SequenceTheorems, Sums

(* The contributions *)

Contribution == [miner : Miner, task : Nat \ {0}, height : Nat]

\* Every contribution that is held, pending, on its way or in a block.
Known ==
  {made[p] : p \in {q \in Miner : made[q] # None}}
    \cup (UNION {pending[n] : n \in Node})
    \cup {m.proof : m \in wire}
    \cup (UNION {mined[i] : i \in DOMAIN mined})

MiningTypes ==
  /\ height \in [Node -> Nat] /\ tasks \in Nat
  /\ pending \in [Node -> SUBSET Contribution]
  /\ made \in [Miner -> Contribution \cup {None}]
  /\ wire \subseteq [from : Node, to : Node, proof : Contribution]
  /\ mined \in Seq(SUBSET Contribution)

\* A commitment is drawn once.
TasksTell == \A c \in Known :
  c.task <= tasks /\ \A d \in Known : c.task = d.task => c = d

\* What a node waits with is for its next block, sound, and one of each miner.
Waiting(n) == \A c \in pending[n] :
  /\ c.height = height[n] + 1 /\ Sound(c)
  /\ \A d \in pending[n] : c.miner = d.miner => c = d

\* A block has what was signed for its height, of each miner once.
Credits(i) == \A c \in mined[i] :
  c.height = i /\ \A d \in mined[i] : c.miner = d.miner => c = d

MiningIInv ==
  /\ MiningTypes
  /\ TasksTell
  /\ height[Producer] = Len(mined)
  /\ \A p \in Miner : made[p] # None => made[p].miner = p
  /\ \A n \in Node : Waiting(n)
  /\ \A i \in DOMAIN mined : Credits(i)

LEMMA KnownAre ==
  ASSUME MiningTypes
  PROVE  Known \subseteq Contribution /\ None \notin Contribution
<1>1. \A p \in Miner : made[p] # None => made[p] \in Contribution
  BY DEF MiningTypes
<1>2. \A n \in Node : pending[n] \subseteq Contribution
  BY DEF MiningTypes
<1>3. \A m \in wire : m.proof \in Contribution
  BY DEF MiningTypes
<1>4. \A i \in DOMAIN mined : mined[i] \subseteq Contribution
  BY DEF MiningTypes
<1>5. None \notin Contribution
  BY DEF None, Contribution
<1> QED BY <1>1, <1>2, <1>3, <1>4, <1>5 DEF Known

\* Where a contribution may be after a step.
LEMMA KnownFrom ==
  ASSUME NEW x,
         \A p \in Miner : made'[p] # None => made'[p] \in Known \cup {x},
         \A n \in Node : pending'[n] \subseteq Known \cup {x},
         \A m \in wire' : m.proof \in Known \cup {x},
         \A i \in DOMAIN mined' : mined'[i] \subseteq Known \cup {x}
  PROVE  Known' \subseteq Known \cup {x}
BY DEF Known

\* Where a contribution may be.
LEMMA KnownTo ==
  /\ \A p \in Miner : made[p] # None => made[p] \in Known
  /\ \A n \in Node : pending[n] \subseteq Known
  /\ \A m \in wire : m.proof \in Known
  /\ \A i \in DOMAIN mined : mined[i] \subseteq Known
BY DEF Known

LEMMA TasksStay ==
  ASSUME TasksTell, tasks' = tasks, Known' \subseteq Known
  PROVE  TasksTell'
BY DEF TasksTell

LEMMA TasksGrow ==
  ASSUME TasksTell, MiningTypes, tasks' = tasks + 1, NEW x, x.task = tasks + 1,
         Known' \subseteq Known \cup {x}
  PROVE  TasksTell'
<1>1. tasks \in Nat /\ \A c \in Known : c.task \in Nat /\ c.task <= tasks
  BY KnownAre DEF MiningTypes, TasksTell, Contribution
<1>2. \A c \in Known' : c.task <= tasks'
  BY <1>1
<1>3. \A c, d \in Known' : c.task = d.task => c = d
  BY <1>1 DEF TasksTell
<1> QED BY <1>2, <1>3 DEF TasksTell

LEMMA MiningStarts == MiningHypothesis /\ MiningInit => MiningIInv
<1> SUFFICES ASSUME MiningHypothesis, MiningInit PROVE MiningIInv
  OBVIOUS
<1>1. mined = << >> /\ mined \in Seq(SUBSET Contribution) /\ Len(mined) = 0 /\ DOMAIN mined = {}
  BY EmptySeq DEF MiningInit
<1>2. MiningTypes
  BY <1>1 DEF MiningTypes, MiningInit
<1>3. Known = {}
  BY <1>1 DEF Known, MiningInit
<1>4. TasksTell
  BY <1>3 DEF TasksTell
<1>5. \A n \in Node : Waiting(n)
  BY DEF MiningInit, Waiting
<1>6. height[Producer] = Len(mined)
  BY <1>1 DEF MiningInit, MiningHypothesis
<1>7. \A p \in Miner : made[p] = None
  BY DEF MiningInit
<1> QED BY <1>1, <1>2, <1>4, <1>5, <1>6, <1>7 DEF MiningIInv

\* A participant sends what it holds, or a contribution with a commitment of its own.
LEMMA TickKeeps ==
  ASSUME MiningHypothesis, MiningIInv, NEW p \in Miner, ParticipantTick(p)
  PROVE  MiningIInv'
<1> DEFINE n == Home[p]
           proof == Held(p, height[n] + 1, tasks + 1)
           fresh == proof # made[p]
<1>1. n \in Node /\ height[n] \in Nat /\ tasks \in Nat /\ made[p] \in Contribution \cup {None}
  BY DEF MiningHypothesis, MiningIInv, MiningTypes
<1>2. /\ proof \in Contribution /\ proof.miner = p
      /\ proof = made[p] \/ proof.task = tasks + 1
  <2>1. [miner |-> p, task |-> tasks + 1, height |-> height[n] + 1] \in Contribution
    BY <1>1 DEF Contribution
  <2>2. made[p] # None => made[p].miner = p
    BY DEF MiningIInv
  <2> QED BY <1>1, <2>1, <2>2 DEF Held
<1>3. /\ tasks' = (IF fresh THEN tasks + 1 ELSE tasks)
      /\ made' = [made EXCEPT ![p] = proof]
      /\ \/ /\ ValidPending(n, proof) /\ OfMiner(n, p) \subseteq {proof}
            /\ pending' = [pending EXCEPT ![n] = @ \cup {proof}]
            /\ wire' = wire \cup ToPeers(n, n, proof)
         \/ UNCHANGED <<pending, wire>>
      /\ UNCHANGED <<height, mined, losses>>
  BY DEF ParticipantTick
<1> HIDE DEF proof, n
<1>4. Known' \subseteq Known \cup {proof}
  <2>1. \A q \in Miner : made'[q] # None => made'[q] \in Known \cup {proof}
    BY <1>3, KnownTo DEF MiningIInv, MiningTypes
  <2>2. \A k \in Node : pending'[k] \subseteq Known \cup {proof}
    BY <1>3, KnownTo DEF MiningIInv, MiningTypes
  <2>3. \A m \in wire' : m.proof \in Known \cup {proof}
    BY <1>3, KnownTo DEF ToPeers
  <2>4. \A i \in DOMAIN mined' : mined'[i] \subseteq Known \cup {proof}
    BY <1>3, KnownTo
  <2> QED BY <2>1, <2>2, <2>3, <2>4, KnownFrom
<1>5. TasksTell'
  <2>1. CASE fresh
    BY <1>2, <1>3, <1>4, <2>1, TasksGrow DEF MiningIInv
  <2>2. CASE ~fresh
    <3>1. proof \in Known
      BY <1>2, <2>2, KnownAre, KnownTo DEF MiningIInv
    <3> QED BY <1>3, <1>4, <2>2, <3>1, TasksStay DEF MiningIInv
  <2> QED BY <2>1, <2>2
<1>6. MiningTypes'
  <2>1. ToPeers(n, n, proof) \subseteq [from : Node, to : Node, proof : Contribution]
    BY <1>1, <1>2 DEF ToPeers
  <2>2. pending' \in [Node -> SUBSET Contribution]
    BY <1>2, <1>3 DEF MiningIInv, MiningTypes
  <2>3. made' \in [Miner -> Contribution \cup {None}]
    BY <1>2, <1>3 DEF MiningIInv, MiningTypes
  <2>4. wire' \subseteq [from : Node, to : Node, proof : Contribution]
    BY <1>3, <2>1 DEF MiningIInv, MiningTypes
  <2> QED BY <1>1, <1>3, <2>2, <2>3, <2>4 DEF MiningIInv, MiningTypes
<1>7. \A q \in Miner : made'[q] # None => made'[q].miner = q
  BY <1>2, <1>3 DEF MiningIInv, MiningTypes
<1>8. \A k \in Node : Waiting(k)'
  <2> SUFFICES ASSUME NEW k \in Node PROVE Waiting(k)'
    OBVIOUS
  <2>1. Waiting(k)
    BY DEF MiningIInv
  <2>2. CASE pending'[k] = pending[k]
    BY <1>3, <2>1, <2>2 DEF Waiting
  <2>3. CASE /\ k = n /\ ValidPending(n, proof) /\ OfMiner(n, p) \subseteq {proof}
             /\ pending'[k] = pending[k] \cup {proof}
    <3>1. proof.height = height[k] + 1 /\ Sound(proof)
      BY <2>3 DEF ValidPending
    <3>2. \A c \in pending[k] : c.miner = p => c = proof
      BY <2>3 DEF OfMiner
    <3> QED BY <1>2, <1>3, <2>1, <2>3, <3>1, <3>2 DEF Waiting
  <2> QED BY <1>3, <2>2, <2>3 DEF MiningIInv, MiningTypes
<1>9. (\A i \in DOMAIN mined : Credits(i))' /\ height'[Producer] = Len(mined')
  BY <1>3 DEF MiningIInv, Credits
<1> QED BY <1>5, <1>6, <1>7, <1>8, <1>9 DEF MiningIInv

\* A node takes what it can use and has not.
LEMMA ReceiveKeeps ==
  ASSUME MiningHypothesis, MiningIInv, NEW message \in wire, Receive(message)
  PROVE  MiningIInv'
<1> DEFINE n == message.to
           proof == message.proof
<1>1. /\ n \in Node /\ message.from \in Node /\ proof \in Contribution /\ proof \in Known
  BY KnownTo DEF MiningIInv, MiningTypes
<1>2. /\ \/ /\ Takes(n, proof) /\ pending' = [pending EXCEPT ![n] = @ \cup {proof}]
            /\ wire' = (wire \ {message}) \cup ToPeers(n, message.from, proof)
         \/ pending' = pending /\ wire' = wire \ {message}
      /\ UNCHANGED <<height, made, mined, tasks, losses>>
  BY DEF Receive
<1> HIDE DEF n, proof
<1>3. Known' \subseteq Known
  <2>1. \A q \in Miner : made'[q] # None => made'[q] \in Known \cup {proof}
    BY <1>2, KnownTo
  <2>2. \A k \in Node : pending'[k] \subseteq Known \cup {proof}
    BY <1>2, KnownTo DEF MiningIInv, MiningTypes
  <2>3. \A m \in wire' : m.proof \in Known \cup {proof}
    BY <1>2, KnownTo DEF ToPeers
  <2>4. \A i \in DOMAIN mined' : mined'[i] \subseteq Known \cup {proof}
    BY <1>2, KnownTo
  <2>5. Known' \subseteq Known \cup {proof}
    BY <2>1, <2>2, <2>3, <2>4, KnownFrom
  <2> QED BY <1>1, <2>5
<1>4. TasksTell'
  BY <1>2, <1>3, TasksStay DEF MiningIInv
<1>5. MiningTypes'
  <2>1. ToPeers(n, message.from, proof) \subseteq [from : Node, to : Node, proof : Contribution]
    BY <1>1 DEF ToPeers
  <2>2. pending' \in [Node -> SUBSET Contribution]
    <3>1. pending \in [Node -> SUBSET Contribution] /\ pending[n] \cup {proof} \in SUBSET Contribution
      BY <1>1 DEF MiningIInv, MiningTypes
    <3>2. pending' \in {pending, [pending EXCEPT ![n] = @ \cup {proof}]}
      BY <1>2
    <3> QED BY <1>1, <3>1, <3>2
  <2>3. wire' \subseteq [from : Node, to : Node, proof : Contribution]
    BY <1>2, <2>1 DEF MiningIInv, MiningTypes
  <2> QED BY <1>2, <2>2, <2>3 DEF MiningIInv, MiningTypes
<1>6. \A k \in Node : Waiting(k)'
  <2> SUFFICES ASSUME NEW k \in Node PROVE Waiting(k)'
    OBVIOUS
  <2>1. Waiting(k)
    BY DEF MiningIInv
  <2>2. CASE pending'[k] = pending[k]
    BY <1>2, <2>1, <2>2 DEF Waiting
  <2>3. CASE k = n /\ Takes(n, proof) /\ pending'[k] = pending[k] \cup {proof}
    <3>1. proof.height = height[k] + 1 /\ Sound(proof) /\ \A c \in pending[k] : c.miner # proof.miner
      BY <2>3 DEF Takes, ValidPending, OfMiner
    <3> QED BY <1>2, <2>1, <2>3, <3>1 DEF Waiting
  <2> QED BY <1>2, <2>2, <2>3 DEF MiningIInv, MiningTypes
<1>7. (\A i \in DOMAIN mined : Credits(i))' /\ height'[Producer] = Len(mined')
      /\ \A p \in Miner : made'[p] # None => made'[p].miner = p
  BY <1>2 DEF MiningIInv, Credits
<1> QED BY <1>4, <1>5, <1>6, <1>7 DEF MiningIInv

\* What a node puts into a block: no miner and no task twice, all for its next height.
LEMMA CandidateFits ==
  ASSUME MiningIInv, NEW n \in Node
  PROVE  /\ Candidate(n) \subseteq pending[n] /\ Candidate(n) \subseteq Contribution
         /\ Candidate(n) \subseteq Known
         /\ \A c \in Candidate(n) : c.height = height[n] + 1 /\ Sound(c)
         /\ \A c, d \in Candidate(n) : c # d => c.miner # d.miner /\ c.task # d.task
<1>1. Candidate(n) \subseteq pending[n]
  BY DEF Candidate
<1>2. pending[n] \subseteq Contribution /\ pending[n] \subseteq Known
  BY KnownTo DEF MiningIInv, MiningTypes
<1>3. \A c \in pending[n] : /\ c.height = height[n] + 1 /\ Sound(c)
                            /\ \A d \in pending[n] : c.miner = d.miner => c = d
  BY DEF MiningIInv, Waiting
<1>4. \A c, d \in pending[n] : c.task = d.task => c = d
  BY <1>2 DEF MiningIInv, TasksTell
<1> QED BY <1>1, <1>2, <1>3, <1>4

\* A node that applies a block goes on with nothing.
LEMMA NextHeight ==
  ASSUME MiningIInv, NEW n \in Node,
         height' = [height EXCEPT ![n] = @ + 1],
         pending' = [pending EXCEPT ![n] = {}]
  PROVE  \A k \in Node : Waiting(k)'
<1> SUFFICES ASSUME NEW k \in Node PROVE Waiting(k)'
  OBVIOUS
<1>1. Waiting(k)
  BY DEF MiningIInv
<1>2. CASE k = n
  <2>1. pending'[k] = {}
    BY <1>2 DEF MiningIInv, MiningTypes
  <2> QED BY <2>1 DEF Waiting
<1>3. CASE k # n
  <2>1. pending'[k] = pending[k] /\ height'[k] = height[k]
    BY <1>3 DEF MiningIInv, MiningTypes
  <2> QED BY <1>1, <2>1 DEF Waiting
<1> QED BY <1>2, <1>3

\* The producer's block.
LEMMA ProducerKeeps ==
  ASSUME MiningHypothesis, MiningIInv, ProducerTick
  PROVE  MiningIInv'
<1> DEFINE template == Candidate(Producer)
<1>1. Producer \in Node /\ height[Producer] = Len(mined) /\ height[Producer] \in Nat
  BY DEF MiningHypothesis, MiningIInv, MiningTypes
<1>2. /\ mined' = Append(mined, template)
      /\ height' = [height EXCEPT ![Producer] = @ + 1]
      /\ pending' = [pending EXCEPT ![Producer] = {}]
      /\ UNCHANGED <<made, wire, tasks, losses>>
  BY DEF ProducerTick, Left
<1>3. /\ template \subseteq Contribution /\ template \subseteq Known
      /\ \A c \in template : c.height = Len(mined) + 1
      /\ \A c, d \in template : c.miner = d.miner => c = d
  BY <1>1, CandidateFits
<1> HIDE DEF template
<1>4. /\ mined \in Seq(SUBSET Contribution)
      /\ mined' \in Seq(SUBSET Contribution) /\ Len(mined') = Len(mined) + 1
      /\ \A i \in 1 .. Len(mined) : mined'[i] = mined[i]
      /\ mined'[Len(mined) + 1] = template
  BY <1>2, <1>3, AppendProperties DEF MiningIInv, MiningTypes
<1>5. /\ DOMAIN mined = 1 .. Len(mined) /\ DOMAIN mined' = 1 .. Len(mined) + 1
      /\ Len(mined) \in Nat
  BY <1>4, LenProperties
<1>6. Known' \subseteq Known
  <2>1. \A i \in DOMAIN mined' : mined'[i] \subseteq Known
    <3> SUFFICES ASSUME NEW i \in DOMAIN mined' PROVE mined'[i] \subseteq Known
      OBVIOUS
    <3>1. CASE i = Len(mined) + 1
      BY <1>3, <1>4, <3>1
    <3>2. CASE i \in 1 .. Len(mined)
      BY <1>4, <1>5, <3>2, KnownTo
    <3> QED BY <1>5, <3>1, <3>2
  <2>2. \A n \in Node : pending'[n] \subseteq Known
    BY <1>2, KnownTo DEF MiningIInv, MiningTypes
  <2>3. \A q \in Miner : made'[q] # None => made'[q] \in Known
    BY <1>2, KnownTo
  <2>4. \A m \in wire' : m.proof \in Known
    BY <1>2, KnownTo
  <2> QED BY <2>1, <2>2, <2>3, <2>4 DEF Known
<1>7. TasksTell'
  BY <1>2, <1>6, TasksStay DEF MiningIInv
<1>8. MiningTypes'
  <2>1. height' \in [Node -> Nat] /\ pending' \in [Node -> SUBSET Contribution]
    BY <1>1, <1>2 DEF MiningIInv, MiningTypes
  <2> QED BY <1>2, <1>4, <2>1 DEF MiningIInv, MiningTypes
<1>9. \A i \in DOMAIN mined' : Credits(i)'
  <2> SUFFICES ASSUME NEW i \in DOMAIN mined' PROVE Credits(i)'
    OBVIOUS
  <2>1. CASE i = Len(mined) + 1
    BY <1>3, <1>4, <2>1 DEF Credits
  <2>2. CASE i \in 1 .. Len(mined)
    <3>1. Credits(i) /\ mined'[i] = mined[i]
      BY <1>4, <1>5, <2>2 DEF MiningIInv
    <3> QED BY <3>1 DEF Credits
  <2> QED BY <1>5, <2>1, <2>2
<1>10. \A k \in Node : Waiting(k)'
  BY <1>1, <1>2, NextHeight
<1>11. height'[Producer] = Len(mined') /\ \A p \in Miner : made'[p] # None => made'[p].miner = p
  BY <1>1, <1>2, <1>4 DEF MiningIInv, MiningTypes
<1> QED BY <1>7, <1>8, <1>9, <1>10, <1>11 DEF MiningIInv

\* What leaves every height, every block and every commitment alone, and adds nothing.
LEMMA LessKept ==
  ASSUME MiningIInv, UNCHANGED <<mined, tasks>>, MiningTypes',
         height'[Producer] = height[Producer],
         \A n \in Node : pending'[n] \subseteq pending[n],
         \A p \in Miner : made'[p] \in {made[p], None},
         wire' \subseteq wire, \A n \in Node : Waiting(n)'
  PROVE  MiningIInv'
<1>1. Known' \subseteq Known
  <2>1. \A q \in Miner : made'[q] # None => made'[q] \in Known
    BY KnownTo
  <2>2. \A k \in Node : pending'[k] \subseteq Known
    BY KnownTo
  <2>3. \A m \in wire' : m.proof \in Known
    BY KnownTo
  <2>4. \A i \in DOMAIN mined' : mined'[i] \subseteq Known
    BY KnownTo
  <2> QED BY <2>1, <2>2, <2>3, <2>4 DEF Known
<1>2. TasksTell'
  BY <1>1, TasksStay DEF MiningIInv
<1>3. (\A i \in DOMAIN mined : Credits(i))' /\ height'[Producer] = Len(mined')
  BY DEF MiningIInv, Credits
<1>4. \A p \in Miner : made'[p] # None => made'[p].miner = p
  BY DEF MiningIInv
<1> QED BY <1>2, <1>3, <1>4 DEF MiningIInv

\* Another node's next block.
LEMMA ApplyKeeps ==
  ASSUME MiningHypothesis, MiningIInv, NEW n \in Node, Apply(n)
  PROVE  MiningIInv'
<1>1. /\ n # Producer /\ height' = [height EXCEPT ![n] = @ + 1]
      /\ pending' = [pending EXCEPT ![n] = {}]
      /\ UNCHANGED <<made, wire, mined, tasks, losses>>
  BY DEF Apply, Left
<1>2. MiningTypes'
  BY <1>1 DEF MiningIInv, MiningTypes
<1>3. \A k \in Node : Waiting(k)'
  BY <1>1, NextHeight
<1>4. \A k \in Node : pending'[k] \subseteq pending[k]
  BY <1>1 DEF MiningIInv, MiningTypes
<1>5. height'[Producer] = height[Producer]
  BY <1>1 DEF MiningHypothesis, MiningIInv, MiningTypes
<1> QED BY <1>1, <1>2, <1>3, <1>4, <1>5, LessKept

\* A message that is lost.
LEMMA LoseKeeps ==
  ASSUME MiningIInv, NEW message \in wire, Lose(message)
  PROVE  MiningIInv'
<1>1. wire' \subseteq wire /\ UNCHANGED <<height, pending, made, mined, tasks>>
  BY DEF Lose
<1>2. MiningTypes'
  BY <1>1 DEF MiningIInv, MiningTypes
<1>3. \A k \in Node : Waiting(k)'
  BY <1>1 DEF MiningIInv, Waiting
<1>4. \A p \in Miner : made'[p] \in {made[p], None}
  BY <1>1
<1>5. \A k \in Node : pending'[k] \subseteq pending[k]
  BY <1>1
<1> QED BY <1>1, <1>2, <1>3, <1>4, <1>5, LessKept

\* A process that starts again with its chain.
LEMMA RestartKeeps ==
  ASSUME MiningIInv, NEW n \in Node, Restart(n)
  PROVE  MiningIInv'
<1>1. /\ pending' = [pending EXCEPT ![n] = {}]
      /\ made' = [p \in Miner |-> IF Home[p] = n THEN None ELSE made[p]]
      /\ wire' \subseteq wire /\ UNCHANGED <<height, mined, tasks>>
  BY DEF Restart
<1>2. MiningTypes'
  <2>1. made' \in [Miner -> Contribution \cup {None}]
    BY <1>1 DEF MiningIInv, MiningTypes
  <2>2. pending' \in [Node -> SUBSET Contribution]
    BY <1>1 DEF MiningIInv, MiningTypes
  <2> QED BY <1>1, <2>1, <2>2 DEF MiningIInv, MiningTypes
<1>3. \A k \in Node : pending'[k] \subseteq pending[k] /\ (k # n => pending'[k] = pending[k])
                      /\ (k = n => pending'[k] = {})
  BY <1>1 DEF MiningIInv, MiningTypes
<1>4. \A k \in Node : Waiting(k)'
  BY <1>1, <1>3 DEF MiningIInv, Waiting
<1>5. \A p \in Miner : made'[p] \in {made[p], None}
  BY <1>1
<1> QED BY <1>1, <1>2, <1>3, <1>4, <1>5, LessKept

LEMMA MiningKeeps ==
  ASSUME MiningHypothesis, MiningIInv, [MiningNext]_miningVars
  PROVE  MiningIInv'
<1>1. CASE UNCHANGED miningVars
  <2>1. UNCHANGED <<height, pending, made, wire, mined, tasks>>
    BY <1>1 DEF miningVars
  <2>2. \A k \in Node : Waiting(k)'
    BY <2>1 DEF MiningIInv, Waiting
  <2>3. MiningTypes'
    BY <2>1 DEF MiningIInv, MiningTypes
  <2>4. \A p \in Miner : made'[p] \in {made[p], None}
    BY <2>1
  <2>5. \A k \in Node : pending'[k] \subseteq pending[k]
    BY <2>1
  <2> QED BY <2>1, <2>2, <2>3, <2>4, <2>5, LessKept
<1>2. CASE MiningNext
  BY <1>2, TickKeeps, ReceiveKeeps, LoseKeeps, ProducerKeeps, ApplyKeeps, RestartKeeps
     DEF MiningNext
<1> QED BY <1>1, <1>2

LEMMA MiningImplies ==
  ASSUME MiningHypothesis, MiningIInv PROVE ProofsInv
<1>1. TemplateValid
  <2> SUFFICES ASSUME NEW n \in Node, Work(Candidate(n)) >= Target
               PROVE  ValidProofs(Candidate(n), height[n] + 1)
    BY DEF TemplateValid
  <2>1. Candidate(n) # {}
    <3> SUFFICES ASSUME Candidate(n) = {} PROVE FALSE
      OBVIOUS
    <3> DEFINE f == [c \in {} |-> Weight[c.miner]]
    <3>1. Work({}) = Sum(f, {})
      BY SumIs DEF Work
    <3>2. Work({}) = 0
      BY <3>1, SumEmpty
    <3> QED BY <3>2 DEF MiningHypothesis
  <2>2. /\ \A c \in Candidate(n) : c.height = height[n] + 1 /\ Sound(c)
        /\ \A c, d \in Candidate(n) : c # d => c.miner # d.miner /\ c.task # d.task
    BY CandidateFits
  <2> QED BY <2>1, <2>2 DEF ValidProofs
<1>2. CreditedOnce
  <2> SUFFICES ASSUME NEW i \in DOMAIN mined, NEW j \in DOMAIN mined,
                      NEW c \in mined[i], NEW d \in mined[j], i # j \/ c # d
               PROVE  c.task # d.task /\ (i = j => c.miner # d.miner)
    BY DEF CreditedOnce
  <2>1. c.height = i /\ d.height = j /\ (i = j /\ c.miner = d.miner => c = d)
    BY DEF MiningIInv, Credits
  <2>2. c \in Known /\ d \in Known
    BY KnownTo
  <2>3. c.task = d.task => c = d
    BY <2>2 DEF MiningIInv, TasksTell
  <2> QED BY <2>1, <2>3
<1> QED BY <1>1, <1>2 DEF ProofsInv

\* For any nodes, miners, weights and targets, however contributions are lost, late,
\* repeated or overtaken by a block, and whatever restarts: what a node would put into
\* a block satisfies the rules of that block, and nothing is credited twice
\* (node.ts, designated-producer.ts, testnet-participant.ts).
THEOREM ContributionsCountOnce ==
  ASSUME MiningHypothesis
  PROVE  MiningSpec => []ProofsInv
<1>1. MiningInit => MiningIInv
  BY MiningStarts
<1>2. MiningIInv /\ [MiningNext]_miningVars => MiningIInv'
  BY MiningKeeps
<1>3. MiningIInv => ProofsInv
  BY MiningImplies
<1> QED BY <1>1, <1>2, <1>3, PTL DEF MiningSpec
-----------------------------------------------------------------------------
(* The audit schedule: chains and their prefixes                             *)

Line(s) == s \in Seq(ToSet(s))

LEMMA LineOf ==
  ASSUME NEW T, NEW s \in Seq(T)
  PROVE  Line(s) /\ Len(s) \in Nat /\ DOMAIN s = 1 .. Len(s)
<1>1. Len(s) \in Nat /\ DOMAIN s = 1 .. Len(s)
  BY LenProperties
<1>2. \A i \in 1 .. Len(s) : s[i] \in ToSet(s)
  BY <1>1 DEF ToSet
<1>3. s = [i \in 1 .. Len(s) |-> s[i]]
  BY <1>1
<1>4. s \in Seq(ToSet(s))
  BY <1>1, <1>2, <1>3, SeqDef
<1> QED BY <1>1, <1>4 DEF Line

\* A part of a chain from its first block.
LEMMA PrefixIs ==
  ASSUME NEW s, Line(s), NEW n \in 0 .. Len(s)
  PROVE  /\ Line(Prefix(s, n)) /\ Len(Prefix(s, n)) = n
         /\ \A i \in 1 .. n : Prefix(s, n)[i] = s[i]
<1> DEFINE T == ToSet(s)
<1>1. s \in Seq(T)
  BY DEF Line
<1> HIDE DEF T
<1>2. Len(s) \in Nat
  BY <1>1, LenProperties
<1>3. SubSeq(s, 1, n) \in Seq(T) /\ Len(SubSeq(s, 1, n)) = n /\ \A i \in 1 .. n : SubSeq(s, 1, n)[i] = s[i]
  BY <1>1, <1>2
<1> QED BY <1>3, LineOf DEF Prefix

LEMMA SamePrefix ==
  ASSUME NEW s, Line(s), NEW t, Line(t)
  PROVE  /\ Len(s) \in Nat /\ Len(t) \in Nat
         /\ IsPrefix(s, t) <=> Len(s) <= Len(t) /\ \A i \in 1 .. Len(s) : s[i] = t[i]
<1> DEFINE S == ToSet(s)
           T == ToSet(t)
           n == Len(s)
<1>1. s \in Seq(S) /\ t \in Seq(T)
  BY DEF Line
<1> HIDE DEF S, T
<1>2. n \in Nat /\ Len(t) \in Nat
  BY <1>1, LenProperties
<1> HIDE DEF n
<1>3. ASSUME n <= Len(t) PROVE SubSeq(s, 1, n) = SubSeq(t, 1, n) <=> \A i \in 1 .. n : s[i] = t[i]
  <2>1. /\ SubSeq(s, 1, n) \in Seq(S) /\ Len(SubSeq(s, 1, n)) = n
        /\ \A i \in 1 .. n : SubSeq(s, 1, n)[i] = s[i]
    BY <1>1, <1>2 DEF n
  <2>2. /\ SubSeq(t, 1, n) \in Seq(T) /\ Len(SubSeq(t, 1, n)) = n
        /\ \A i \in 1 .. n : SubSeq(t, 1, n)[i] = t[i]
    BY <1>1, <1>2, <1>3
  <2>3. ASSUME \A i \in 1 .. n : s[i] = t[i] PROVE SubSeq(s, 1, n) = SubSeq(t, 1, n)
    <3>1. \A i \in 1 .. n : SubSeq(s, 1, n)[i] = SubSeq(t, 1, n)[i]
      BY <2>1, <2>2, <2>3
    <3>2. /\ SubSeq(s, 1, n) = [i \in 1 .. n |-> SubSeq(s, 1, n)[i]]
          /\ SubSeq(t, 1, n) = [i \in 1 .. n |-> SubSeq(t, 1, n)[i]]
      BY <2>1, <2>2
    <3> QED BY <3>1, <3>2
  <2> QED BY <2>1, <2>2, <2>3
<1> QED BY <1>2, <1>3 DEF IsPrefix, n

\* Two prefixes of one chain that are equally long are the same.
LEMMA OnePrefix ==
  ASSUME NEW t, Line(t), NEW r, Line(r), NEW s, Line(s), IsPrefix(r, t), IsPrefix(s, t),
         Len(r) <= Len(s)
  PROVE  IsPrefix(r, s) /\ (Len(r) = Len(s) => r = s)
<1>1. /\ Len(r) \in Nat /\ Len(s) \in Nat
      /\ \A i \in 1 .. Len(r) : r[i] = t[i]
      /\ \A i \in 1 .. Len(s) : s[i] = t[i]
  BY SamePrefix
<1>2. \A i \in 1 .. Len(r) : r[i] = s[i]
  BY <1>1
<1>3. IsPrefix(r, s)
  BY <1>2, SamePrefix
<1>4. ASSUME Len(r) = Len(s) PROVE r = s
  <2>1. r = [i \in 1 .. Len(r) |-> r[i]] /\ s = [i \in 1 .. Len(s) |-> s[i]]
    BY LineOf DEF Line
  <2> QED BY <1>2, <1>4, <2>1
<1> QED BY <1>3, <1>4

LEMMA PrefixGoesOn ==
  ASSUME NEW r, Line(r), NEW s, Line(s), NEW t, Line(t), IsPrefix(r, s), IsPrefix(s, t)
  PROVE  IsPrefix(r, t)
<1>1. /\ Len(r) \in Nat /\ Len(s) \in Nat /\ Len(t) \in Nat /\ Len(r) <= Len(s) /\ Len(s) <= Len(t)
      /\ \A i \in 1 .. Len(r) : r[i] = s[i]
      /\ \A i \in 1 .. Len(s) : s[i] = t[i]
  BY SamePrefix
<1>2. Len(r) <= Len(t) /\ \A i \in 1 .. Len(r) : r[i] = t[i]
  BY <1>1
<1> QED BY <1>2, SamePrefix

-----------------------------------------------------------------------------
(* Committees                                                                *)

\* A digest is read as a number.
Digests == \A purpose, beacon, item : DigestOf(purpose, beacon, item) \in Nat

Eligible(claim, stakes) ==
  {v \in Roster(stakes) : stakes[v] >= MinimumBond /\ v # claim.claimant}

LEMMA SnapshotType ==
  ASSUME ScheduleHypothesis, NEW chain, Line(chain)
  PROVE  Snapshot(chain) \in [ValidatorId -> Nat]
<1> SUFFICES ASSUME NEW v \in ValidatorId
             PROVE  Stake * Cardinality(
                      {h \in DOMAIN chain : /\ v \in chain[h].bond
                                            /\ \A g \in h + 1 .. Len(chain) : v \notin chain[g].spend}) \in Nat
  BY DEF Snapshot
<1> DEFINE bonds == {h \in DOMAIN chain : /\ v \in chain[h].bond
                                          /\ \A g \in h + 1 .. Len(chain) : v \notin chain[g].spend}
<1>1. DOMAIN chain = 1 .. Len(chain) /\ Len(chain) \in Nat
  BY LineOf DEF Line
<1>2. IsFiniteSet(1 .. Len(chain)) /\ bonds \in SUBSET (1 .. Len(chain))
  BY <1>1, FS_Interval
<1>3. Cardinality(bonds) \in Nat
  BY <1>2, FS_Subset, FS_CardinalityType
<1>4. Stake \in Nat
  BY DEF ScheduleHypothesis
<1> HIDE DEF bonds
<1>5. Stake * Cardinality(bonds) \in Nat
  BY <1>3, <1>4
<1> QED BY <1>5 DEF bonds

LEMMA LeastOfTwo ==
  ASSUME NEW a \in Nat, NEW b \in Nat
  PROVE  Min({a, b}) \in Nat /\ Min({a, b}) <= a /\ Min({a, b}) <= b /\ Min({a, b}) \in {a, b}
<1>1. \E x \in {a, b} : \A y \in {a, b} : x <= y
  OBVIOUS
<1> QED BY <1>1 DEF Min

\* A committee has no more than its size, of bonded strangers.
LEMMA CommitteeIs ==
  ASSUME ScheduleHypothesis, Digests, NEW claim, NEW stakes \in [ValidatorId -> Nat], NEW beacon
  PROVE  /\ Len(Committee(claim, stakes, beacon)) \in Nat
         /\ Len(Committee(claim, stakes, beacon)) <= CommitteeSize
         /\ \A i \in DOMAIN Committee(claim, stakes, beacon) :
              Committee(claim, stakes, beacon)[i] \in Eligible(claim, stakes)
<1> DEFINE S == Eligible(claim, stakes)
           Key(v) == DigestOf("committee", beacon, <<claim, v>>)
           R == {e \in S \X S : Key(e[1]) < Key(e[2]) \/ (Key(e[1]) = Key(e[2]) /\ e[1] < e[2])}
           Sorted(s) == \A i, j \in DOMAIN s : i < j =>
                  Key(s[i]) < Key(s[j]) \/ (Key(s[i]) = Key(s[j]) /\ s[i] < s[j])
           ranked == CHOOSE s \in SetToSeqs(S) : Sorted(s)
           k == Min({CommitteeSize, Len(ranked)})
<1>1. IsFiniteSet(S) /\ S \in SUBSET Nat
  <2>1. S \in SUBSET ValidatorId
    BY DEF Eligible, Roster
  <2> QED BY <2>1, FS_Subset DEF ScheduleHypothesis
<1>2. \A v \in S : Key(v) \in Nat
  BY DEF Digests
<1> HIDE DEF S, Key
<1>3. \E s \in SetToSeqs(S) : Sorted(s)
  <2>1. \A x \in S : <<x, x>> \notin R
    BY <1>1, <1>2
  <2>2. \A x, y \in S : x # y => <<x, y>> \in R \/ <<y, x>> \in R
    BY <1>1, <1>2
  <2>3. \A x, y, z \in S : <<x, y>> \in R /\ <<y, z>> \in R => <<x, z>> \in R
    BY <1>1, <1>2
  <2>4. \A x, y : <<x, y>> \in R => Key(x) < Key(y) \/ (Key(x) = Key(y) /\ x < y)
    OBVIOUS
  <2> HIDE DEF R, Sorted, ranked, k
  <2>5. PICK s \in SetToSeqs(S) : \A i, j \in DOMAIN s : i < j => <<s[i], s[j]>> \in R
    <3>1. TotalOrder(R, S)
      BY <2>1, <2>2, <2>3 DEF TotalOrder
    <3> QED BY <1>1, <3>1, Orderly
  <2> QED BY <2>4, <2>5 DEF Sorted
<1>4. ranked \in SetToSeqs(S)
  BY <1>3
<1>5. Committee(claim, stakes, beacon) = SubSeq(ranked, 1, k)
  BY DEF Committee, S, Key, Eligible
<1> HIDE DEF ranked, R
<1>6. ranked \in [1 .. Cardinality(S) -> S]
  BY <1>4 DEF SetToSeqs
<1>7. Cardinality(S) \in Nat
  BY <1>1, FS_CardinalityType
<1>8. ranked \in Seq(S)
  BY <1>6, <1>7, SeqDef
<1>9. k \in Nat /\ k <= CommitteeSize /\ k <= Len(ranked) /\ Len(ranked) \in Nat
  <2>1. CommitteeSize \in Nat /\ Len(ranked) \in Nat
    BY <1>8, LenProperties DEF ScheduleHypothesis
  <2> QED BY <2>1, LeastOfTwo
<1> HIDE DEF k
<1>10. /\ SubSeq(ranked, 1, k) \in Seq(S) /\ Len(SubSeq(ranked, 1, k)) = k
       /\ DOMAIN SubSeq(ranked, 1, k) = 1 .. k
       /\ \A i \in 1 .. k : SubSeq(ranked, 1, k)[i] \in S
  <2>1. /\ SubSeq(ranked, 1, k) \in Seq(S) /\ Len(SubSeq(ranked, 1, k)) = k
        /\ \A i \in 1 .. k : SubSeq(ranked, 1, k)[i] = ranked[i]
    BY <1>8, <1>9
  <2>2. DOMAIN SubSeq(ranked, 1, k) = 1 .. k
    BY <2>1, LenProperties
  <2>3. \A i \in 1 .. k : ranked[i] \in S
    BY <1>8, <1>9, ElementOfSeq
  <2> QED BY <2>1, <2>2, <2>3
<1> QED BY <1>5, <1>9, <1>10 DEF S

-----------------------------------------------------------------------------
(* What a chain has committed                                                *)

\* Windows do not overlap.
LEMMA OneWindow ==
  ASSUME ScheduleHypothesis, NEW i \in Nat, NEW j \in Nat, NEW l \in Nat,
         l \in WindowOf(i).start .. WindowOf(i).end, l \in WindowOf(j).start .. WindowOf(j).end
  PROVE  i = j
<1>1. WindowSize \in Nat \ {0}
  BY DEF ScheduleHypothesis
<1>2. ASSUME NEW a \in Nat, NEW b \in Nat, a < b,
             l >= b * WindowSize + 1, l <= (a + 1) * WindowSize
      PROVE  FALSE
  <2>1. PICK c \in Nat : b = (a + 1) + c
    <3>1. b - (a + 1) \in Nat /\ b = (a + 1) + (b - (a + 1))
      BY <1>2
    <3> QED BY <3>1
  <2>2. b * WindowSize = (a + 1) * WindowSize + c * WindowSize
    BY <1>1, <2>1
  <2>3. c * WindowSize \in Nat /\ (a + 1) * WindowSize \in Nat
    BY <1>1, <2>1
  <2> HIDE DEF ScheduleHypothesis
  <2> QED BY <1>2, <2>2, <2>3
<1>3. /\ l >= i * WindowSize + 1 /\ l <= (i + 1) * WindowSize
      /\ l >= j * WindowSize + 1 /\ l <= (j + 1) * WindowSize
  <2>1. i * WindowSize + 1 \in Int /\ (i + 1) * WindowSize \in Int
        /\ j * WindowSize + 1 \in Int /\ (j + 1) * WindowSize \in Int
    BY <1>1
  <2> QED BY <2>1 DEF WindowOf
<1>4. ~ (i < j) /\ ~ (j < i)
  BY <1>2, <1>3
<1> QED BY <1>4

-----------------------------------------------------------------------------
(* The claims of a window, and which of them is covered                      *)

Chained(chain) == Line(chain) /\ \A h \in DOMAIN chain : chain[h].claims \in Seq(Claimant)

LEMMA ChainedPrefix ==
  ASSUME NEW chain, Chained(chain), NEW n \in 0 .. Len(chain)
  PROVE  Chained(Prefix(chain, n)) /\ Len(Prefix(chain, n)) = n /\ IsPrefix(Prefix(chain, n), chain)
<1>1. Line(chain)
  BY DEF Chained
<1>2. /\ Line(Prefix(chain, n)) /\ Len(Prefix(chain, n)) = n
      /\ \A i \in 1 .. n : Prefix(chain, n)[i] = chain[i]
  BY <1>1, PrefixIs
<1>3. DOMAIN Prefix(chain, n) = 1 .. n /\ DOMAIN chain = 1 .. Len(chain) /\ Len(chain) \in Nat
  BY <1>1, <1>2, LineOf DEF Line
<1>4. \A h \in DOMAIN Prefix(chain, n) : h \in DOMAIN chain /\ Prefix(chain, n)[h] = chain[h]
  BY <1>2, <1>3
<1>5. IsPrefix(Prefix(chain, n), chain)
  BY <1>1, <1>2, <1>3, SamePrefix
<1> QED BY <1>1, <1>2, <1>4, <1>5 DEF Chained

\* A claim is told by its block and its place there.
LEMMA ClaimIs ==
  ASSUME ScheduleHypothesis, NEW chain, Chained(chain), NEW i \in Nat,
         NEW c \in ClaimsOf(chain, WindowOf(i))
  PROVE  /\ Len(c.block) \in DOMAIN chain /\ Len(c.block) \in Nat /\ c.index \in Nat
         /\ Line(c.block) /\ c.block = Prefix(chain, Len(c.block))
         /\ c = [block |-> c.block, index |-> c.index, claimant |-> c.claimant]
         /\ c.claimant = chain[Len(c.block)].claims[c.index]
<1> DEFINE w == WindowOf(i)
<1>1. Line(chain) /\ DOMAIN chain = 1 .. Len(chain) /\ Len(chain) \in Nat
  BY LineOf DEF Chained, Line
<1>2. w.start \in Nat /\ w.start >= 1 /\ w.end \in Nat
  <2>1. i * WindowSize \in Nat /\ (i + 1) * WindowSize \in Nat
    BY DEF ScheduleHypothesis
  <2> QED BY <2>1 DEF WindowOf
<1> HIDE DEF w
<1>3. PICK h \in w.start .. Min({w.end, Len(chain)}) :
        \E k \in DOMAIN chain[h].claims :
          c = [block |-> Prefix(chain, h), index |-> k, claimant |-> chain[h].claims[k]]
  BY DEF ClaimsOf, w
<1>4. PICK k \in DOMAIN chain[h].claims :
        c = [block |-> Prefix(chain, h), index |-> k, claimant |-> chain[h].claims[k]]
  BY <1>3
<1>5. h \in 1 .. Len(chain)
  BY <1>1, <1>2, LeastOfTwo
<1>6. k \in Nat
  <2>1. chain[h].claims \in Seq(Claimant)
    BY <1>1, <1>5 DEF Chained
  <2>2. DOMAIN chain[h].claims = 1 .. Len(chain[h].claims) /\ Len(chain[h].claims) \in Nat
    BY <2>1, LenProperties
  <2> QED BY <2>2
<1>7. Line(Prefix(chain, h)) /\ Len(Prefix(chain, h)) = h
  BY <1>1, <1>5, PrefixIs
<1> QED BY <1>1, <1>4, <1>5, <1>6, <1>7

LEMMA ClaimTold ==
  ASSUME ScheduleHypothesis, NEW chain, Chained(chain), NEW i \in Nat,
         NEW c \in ClaimsOf(chain, WindowOf(i)), NEW d \in ClaimsOf(chain, WindowOf(i)),
         Len(c.block) = Len(d.block), c.index = d.index
  PROVE  c = d
<1>1. c.block = d.block
  BY ClaimIs
<1>2. c.claimant = d.claimant
  BY ClaimIs
<1> QED BY <1>1, <1>2, ClaimIs

Own(claims, claimant) == {c \in claims : c.claimant = claimant}

\* A claimant of a window has one first claim under a beacon.
LEMMA CoverageIs ==
  ASSUME ScheduleHypothesis, Digests, NEW chain, Chained(chain), NEW i \in Nat, NEW beacon,
         NEW claimant, Own(ClaimsOf(chain, WindowOf(i)), claimant) # {}
  PROVE  Coverage(ClaimsOf(chain, WindowOf(i)), claimant, beacon)
           \in Own(ClaimsOf(chain, WindowOf(i)), claimant)
<1> DEFINE own == Own(ClaimsOf(chain, WindowOf(i)), claimant)
           Key(c) == DigestOf("coverage", beacon, c)
           First(c) == \A d \in own \ {c} : Key(c) < Key(d) \/ (Key(c) = Key(d) /\ Earlier(c, d))
<1>1. \A c \in own : Key(c) \in Nat /\ Len(c.block) \in Nat /\ c.index \in Nat
  BY ClaimIs DEF Own, Digests
<1>2. \A c, d \in own : Len(c.block) = Len(d.block) /\ c.index = d.index => c = d
  BY ClaimTold DEF Own
<1>3. own # {}
  OBVIOUS
<1>4. Coverage(ClaimsOf(chain, WindowOf(i)), claimant, beacon) = CHOOSE c \in own : First(c)
  BY DEF Coverage, Own
<1> HIDE DEF own, Key
<1>5. \E c \in own : First(c)
  <2>1. PICK m \in {Key(c) : c \in own} : \A n \in {Key(c) : c \in own} : m <= n
    <3>1. {Key(c) : c \in own} \in SUBSET Nat /\ {Key(c) : c \in own} # {}
      BY <1>1, <1>3
    <3> QED BY <3>1, LeastOf
  <2> DEFINE least == {c \in own : Key(c) = m}
  <2>2. least # {} /\ \A c \in own \ least : m < Key(c)
    <3>1. \E c \in own : Key(c) = m
      BY <2>1
    <3>2. \A c \in own : Key(c) \in Nat /\ m <= Key(c) /\ m \in Nat
      BY <1>1, <2>1
    <3> QED BY <3>1, <3>2
  <2>3. PICK l \in {Len(c.block) : c \in least} : \A n \in {Len(c.block) : c \in least} : l <= n
    <3>1. {Len(c.block) : c \in least} \in SUBSET Nat /\ {Len(c.block) : c \in least} # {}
      BY <1>1, <2>2
    <3> QED BY <3>1, LeastOf
  <2> DEFINE low == {c \in least : Len(c.block) = l}
  <2>4. low # {} /\ \A c \in least \ low : l < Len(c.block)
    <3>1. \E c \in least : Len(c.block) = l
      BY <2>3
    <3>2. \A c \in least : Len(c.block) \in Nat /\ l <= Len(c.block) /\ l \in Nat
      BY <1>1, <2>3
    <3> HIDE DEF least
    <3> QED BY <3>1, <3>2
  <2>5. PICK k \in {c.index : c \in low} : \A n \in {c.index : c \in low} : k <= n
    <3>1. {c.index : c \in low} \in SUBSET Nat /\ {c.index : c \in low} # {}
      BY <1>1, <2>4
    <3> QED BY <3>1, LeastOf
  <2>6. PICK c \in low : c.index = k
    BY <2>5
  <2>7. c \in own /\ Key(c) = m /\ Len(c.block) = l
    BY <2>6
  <2>8. ASSUME NEW d \in own \ {c} PROVE Key(c) < Key(d) \/ (Key(c) = Key(d) /\ Earlier(c, d))
    <3>1. CASE d \notin least
      BY <2>2, <2>7, <3>1
    <3>2. CASE d \in least \ low
      <4>1. Key(d) = m /\ l < Len(d.block)
        BY <2>4, <3>2
      <4> QED BY <2>7, <4>1 DEF Earlier
    <3>3. CASE d \in low
      <4>1. Key(d) = m /\ Len(d.block) = l /\ k <= d.index
        BY <2>5, <3>3
      <4>2. c.index # d.index
        BY <1>2, <2>7, <4>1
      <4>3. c.index < d.index
        BY <1>1, <2>6, <2>7, <4>1, <4>2
      <4> QED BY <2>7, <4>1, <4>3 DEF Earlier
    <3> QED BY <3>1, <3>2, <3>3
  <2> QED BY <2>7, <2>8
<1> HIDE DEF First
<1> QED BY <1>4, <1>5 DEF own

\* What is chosen is a claim of the window.
LEMMA ChosenIs ==
  ASSUME ScheduleHypothesis, Digests, NEW chain, Chained(chain), NEW i \in Nat, NEW beacon
  PROVE  \A s \in Selection(ClaimsOf(chain, WindowOf(i)), beacon) :
           s.claim \in ClaimsOf(chain, WindowOf(i))
<1> DEFINE claims == ClaimsOf(chain, WindowOf(i))
<1>1. \A n \in {c.claimant : c \in claims} : Own(claims, n) # {}
  BY DEF Own
<1>2. \A n \in {c.claimant : c \in claims} : Coverage(claims, n, beacon) \in Own(claims, n)
  BY <1>1, CoverageIs
<1>3. \A n \in {c.claimant : c \in claims} : Coverage(claims, n, beacon) \in claims
  BY <1>2 DEF Own
<1> HIDE DEF claims
<1>4. \A s \in Selection(claims, beacon) : s.claim \in claims
  BY <1>3 DEF Selection
<1> QED BY <1>4 DEF claims

-----------------------------------------------------------------------------
(* The invariant of the schedule                                             *)

\* What was asked for, wherever it was built.
Asked(a) == a.window \in Nat /\ Line(a.beacon) /\ Line(a.claim.block)

\* What validation found of a committed assignment, by the beacon's state alone.
Judged(a) ==
  /\ Asked(a) /\ WellFormed(a)
  /\ IsPrefix(a.claim.block, a.beacon)
  /\ Len(a.claim.block) \in WindowOf(a.window).start .. WindowOf(a.window).end
  /\ Len(a.beacon) = WindowOf(a.window).beacon
  /\ Roster(Snapshot(a.beacon)) # {} => a \in Schedule(a.beacon, a.window, Snapshot(a.beacon))

ScheduleIInv ==
  /\ Chained(blocks)
  /\ \A a \in requests : Asked(a)
  /\ \A h \in DOMAIN blocks : \A a \in blocks[h].verdicts :
       Judged(a) /\ IsPrefix(a.beacon, blocks) /\ Len(a.beacon) < h

LEMMA BlocksAre ==
  ASSUME Chained(blocks)
  PROVE  Line(blocks) /\ DOMAIN blocks = 1 .. Len(blocks) /\ Len(blocks) \in Nat
BY LineOf DEF Chained, Line

LEMMA ValidIsJudged ==
  ASSUME Chained(blocks), NEW a, Asked(a), Valid(blocks, a)
  PROVE  Judged(a) /\ IsPrefix(a.beacon, blocks) /\ Len(a.beacon) <= Len(blocks)
<1>1. IsPrefix(a.claim.block, blocks) /\ IsPrefix(a.beacon, blocks)
      /\ Len(a.claim.block) <= Len(a.beacon)
  BY DEF Valid, WellFormed
<1>2. IsPrefix(a.claim.block, a.beacon)
  BY <1>1, BlocksAre, OnePrefix DEF Asked
<1>3. Len(a.beacon) <= Len(blocks)
  BY <1>1, BlocksAre, SamePrefix DEF Asked
<1> QED BY <1>1, <1>2, <1>3 DEF Judged, Valid, StakesAt

LEMMA ExtendKeeps ==
  ASSUME ScheduleHypothesis, ScheduleIInv, NEW body \in Body, Extend(body)
  PROVE  ScheduleIInv'
<1>1. PICK verdicts \in SUBSET {r \in requests : Valid(blocks, r)} :
        blocks' = Append(blocks, [claims |-> body.claims, bond |-> body.bond,
                                  spend |-> body.spend, verdicts |-> verdicts])
  BY DEF Extend
<1> DEFINE new == [claims |-> body.claims, bond |-> body.bond,
                   spend |-> body.spend, verdicts |-> verdicts]
           T == ToSet(blocks) \cup {new}
           n == Len(blocks)
<1>2. Chained(blocks) /\ Line(blocks) /\ DOMAIN blocks = 1 .. n /\ n \in Nat
  BY BlocksAre DEF ScheduleIInv
<1>3. new.claims \in Seq(Claimant) /\ new.verdicts = verdicts
  BY DEF ScheduleHypothesis
<1>4. blocks \in Seq(ToSet(blocks))
  BY <1>2 DEF Line
<1>5. blocks \in Seq(T) /\ new \in T
  <2>1. ToSet(blocks) \subseteq T
    OBVIOUS
  <2> HIDE DEF T
  <2>2. blocks \in Seq(T)
    BY <1>4, <2>1
  <2> QED BY <2>2 DEF T
<1> HIDE DEF T, new
<1>6. /\ blocks' \in Seq(T) /\ Len(blocks') = n + 1 /\ blocks'[n + 1] = new
      /\ \A i \in 1 .. n : blocks'[i] = blocks[i]
  <2>1. blocks' = Append(blocks, new)
    BY <1>1 DEF new
  <2> QED BY <1>5, <2>1, AppendProperties
<1>7. Line(blocks') /\ DOMAIN blocks' = 1 .. n + 1
  BY <1>6, LineOf
<1>8. Chained(blocks')
  <2> SUFFICES ASSUME NEW h \in 1 .. n + 1 PROVE blocks'[h].claims \in Seq(Claimant)
    BY <1>7 DEF Chained
  <2>1. CASE h = n + 1
    BY <1>3, <1>6, <2>1
  <2>2. CASE h # n + 1
    <3>1. h \in 1 .. n
      BY <1>2, <2>2
    <3> QED BY <1>2, <1>6, <3>1 DEF Chained
  <2> QED BY <2>1, <2>2
<1>9. IsPrefix(blocks, blocks')
  BY <1>2, <1>6, <1>7, SamePrefix
<1>10. ASSUME NEW h \in DOMAIN blocks', NEW a \in blocks'[h].verdicts
       PROVE  Judged(a) /\ IsPrefix(a.beacon, blocks') /\ Len(a.beacon) < h
  <2>1. Judged(a) /\ IsPrefix(a.beacon, blocks) /\ Len(a.beacon) < h
    <3>1. CASE h = n + 1
      <4>1. a \in requests /\ Valid(blocks, a)
        BY <1>3, <1>6, <3>1
      <4>2. Judged(a) /\ IsPrefix(a.beacon, blocks) /\ Len(a.beacon) <= n
        BY <1>2, <4>1, ValidIsJudged DEF ScheduleIInv
      <4>3. Len(a.beacon) \in Nat
        BY <4>2, SamePrefix DEF Judged, Asked
      <4> QED BY <1>2, <3>1, <4>2, <4>3
    <3>2. CASE h # n + 1
      <4>1. h \in DOMAIN blocks /\ blocks'[h] = blocks[h]
        BY <1>2, <1>6, <1>7, <3>2
      <4> QED BY <4>1 DEF ScheduleIInv
    <3> QED BY <3>1, <3>2
  <2>2. IsPrefix(a.beacon, blocks')
    BY <1>2, <1>7, <1>9, <2>1, PrefixGoesOn DEF Judged, Asked
  <2> QED BY <2>1, <2>2
<1>11. requests' = requests
  BY DEF Extend
<1> QED BY <1>8, <1>10, <1>11 DEF ScheduleIInv

LEMMA DisconnectKeeps ==
  ASSUME ScheduleIInv, Disconnect
  PROVE  ScheduleIInv'
<1>1. PICK n \in 0 .. Len(blocks) - 1 : blocks' = Prefix(blocks, n)
  BY DEF Disconnect
<1>2. Chained(blocks) /\ Line(blocks) /\ DOMAIN blocks = 1 .. Len(blocks) /\ Len(blocks) \in Nat
  BY BlocksAre DEF ScheduleIInv
<1>3. Chained(blocks') /\ Len(blocks') = n /\ IsPrefix(blocks', blocks)
  BY <1>1, <1>2, ChainedPrefix
<1>4. Line(blocks') /\ DOMAIN blocks' = 1 .. n /\ \A i \in 1 .. n : blocks'[i] = blocks[i]
  BY <1>2, <1>3, SamePrefix, LineOf DEF Chained, Line
<1>5. ASSUME NEW h \in DOMAIN blocks', NEW a \in blocks'[h].verdicts
      PROVE  Judged(a) /\ IsPrefix(a.beacon, blocks') /\ Len(a.beacon) < h
  <2>1. Judged(a) /\ IsPrefix(a.beacon, blocks) /\ Len(a.beacon) < h /\ h <= n
    <3>1. h \in DOMAIN blocks /\ blocks'[h] = blocks[h] /\ h <= n
      BY <1>1, <1>2, <1>4
    <3> QED BY <3>1 DEF ScheduleIInv
  <2>2. Len(a.beacon) <= n
    <3>1. Len(a.beacon) \in Nat
      BY <1>2, <2>1, SamePrefix DEF Judged, Asked
    <3> QED BY <1>1, <1>2, <1>4, <2>1, <3>1
  <2>3. IsPrefix(a.beacon, blocks')
    BY <1>2, <1>3, <1>4, <2>1, <2>2, OnePrefix DEF Judged, Asked
  <2> QED BY <2>1, <2>3
<1>6. requests' = requests
  BY DEF Disconnect
<1> QED BY <1>3, <1>5, <1>6 DEF ScheduleIInv

LEMMA BeaconIs ==
  ASSUME ScheduleHypothesis, NEW i \in Windows
  PROVE  i \in Nat /\ WindowOf(i).beacon \in Nat
<1>1. i \in Nat
  BY DEF Windows, ScheduleHypothesis
<1>2. (i + 1) * WindowSize \in Nat /\ BeaconDelay \in Nat
  BY <1>1 DEF ScheduleHypothesis
<1>3. WindowOf(i).beacon = (i + 1) * WindowSize + BeaconDelay
  BY DEF WindowOf
<1> QED BY <1>1, <1>2, <1>3

\* A request names a window, a beacon and one of the window's claims.
LEMMA AskKeeps ==
  ASSUME ScheduleHypothesis, ScheduleIInv, UNCHANGED blocks, NEW a, Asked(a),
         requests' = requests \cup {a}
  PROVE  ScheduleIInv'
BY DEF ScheduleIInv

LEMMA RequestedKeeps ==
  ASSUME ScheduleHypothesis, Digests, ScheduleIInv, NEW i \in Windows, Requested(i)
  PROVE  ScheduleIInv'
<1> DEFINE b == WindowOf(i).beacon
           beacon == Prefix(blocks, b)
<1>1. Len(blocks) >= b /\ UNCHANGED blocks
  BY DEF Requested
<1>2. PICK a \in Schedule(beacon, i, StakesAt(blocks, beacon)) : requests' = requests \cup {a}
  BY DEF Requested
<1>3. i \in Nat /\ b \in Nat /\ Chained(blocks) /\ Len(blocks) \in Nat
  BY BeaconIs, BlocksAre DEF ScheduleIInv
<1>4. Chained(beacon)
  BY <1>1, <1>3, ChainedPrefix
<1> HIDE DEF beacon
<1>5. PICK s \in Selection(ClaimsOf(beacon, WindowOf(i)), beacon) :
        a.window = i /\ a.claim = s.claim /\ a.beacon = beacon
  BY <1>2 DEF Schedule
<1>6. s.claim \in ClaimsOf(beacon, WindowOf(i))
  BY <1>3, <1>4, ChosenIs
<1>7. Line(s.claim.block)
  BY <1>3, <1>4, <1>6, ClaimIs
<1>8. Asked(a)
  BY <1>3, <1>4, <1>5, <1>7 DEF Asked, Chained
<1> QED BY <1>1, <1>2, <1>8, AskKeeps

LEMMA ForgeKeeps ==
  ASSUME ScheduleHypothesis, ScheduleIInv, NEW i \in Windows, Forge(i)
  PROVE  ScheduleIInv'
<1> DEFINE b == WindowOf(i).beacon
           beacon == Prefix(blocks, b)
<1>1. Len(blocks) >= b /\ UNCHANGED blocks
  BY DEF Forge
<1>2. PICK claim \in ClaimsOf(blocks, WindowOf(i)), members \in TupleOf(ValidatorId, CommitteeSize) :
        requests' = requests \cup
          {[window |-> i, claim |-> claim, beacon |-> beacon,
            reason |-> "coverage", committee |-> members]}
  BY DEF Forge
<1>3. i \in Nat /\ b \in Nat /\ Chained(blocks) /\ Len(blocks) \in Nat
  BY BeaconIs, BlocksAre DEF ScheduleIInv
<1>4. Chained(beacon)
  BY <1>1, <1>3, ChainedPrefix
<1>5. Line(claim.block)
  BY <1>3, ClaimIs
<1> HIDE DEF beacon
<1>6. Asked([window |-> i, claim |-> claim, beacon |-> beacon,
             reason |-> "coverage", committee |-> members])
  BY <1>3, <1>4, <1>5 DEF Asked, Chained
<1> QED BY <1>1, <1>2, <1>6, AskKeeps

LEMMA ScheduleStarts == ScheduleInit => ScheduleIInv
<1> SUFFICES ASSUME ScheduleInit PROVE ScheduleIInv
  OBVIOUS
<1>1. blocks = <<>> /\ requests = {}
  BY DEF ScheduleInit
<1>2. <<>> \in Seq({}) /\ DOMAIN <<>> = {}
  OBVIOUS
<1>3. Line(blocks) /\ DOMAIN blocks = {}
  BY <1>1, <1>2, LineOf
<1> QED BY <1>1, <1>3 DEF ScheduleIInv, Chained

LEMMA ScheduleKeeps ==
  ASSUME ScheduleHypothesis, Digests, ScheduleIInv, [ScheduleNext]_scheduleVars
  PROVE  ScheduleIInv'
<1>1. CASE UNCHANGED scheduleVars
  BY <1>1 DEF scheduleVars, ScheduleIInv
<1>2. CASE ScheduleNext
  BY <1>2, ExtendKeeps, DisconnectKeeps, RequestedKeeps, ForgeKeeps DEF ScheduleNext
<1> QED BY <1>1, <1>2

LEMMA IndependentCommittees ==
  ASSUME ScheduleHypothesis, Digests, ScheduleIInv
  PROVE  CommitteesIndependent
<1> SUFFICES ASSUME NEW h \in DOMAIN blocks, NEW a \in blocks[h].verdicts
    PROVE LET stakes == Snapshot(a.beacon) IN
      /\ IsPrefix(a.beacon, blocks) /\ Len(a.beacon) < h /\ IsPrefix(a.claim.block, a.beacon)
      /\ a.claim.claimant \notin ToSet(a.committee) /\ IsInjective(a.committee)
      /\ Roster(stakes) # {} =>
         /\ \A i \in DOMAIN a.committee : stakes[a.committee[i]] >= MinimumBond
         /\ \A b \in CommittedVerdicts(blocks) : a.claim = b.claim => a = b
  BY DEF CommitteesIndependent
<1>1. Judged(a) /\ IsPrefix(a.beacon, blocks) /\ Len(a.beacon) < h
  BY DEF ScheduleIInv
<1>2. Line(blocks)
  BY BlocksAre DEF ScheduleIInv
<1> DEFINE stakes == Snapshot(a.beacon)
<1>3. stakes \in [ValidatorId -> Nat]
  BY <1>1, SnapshotType DEF Judged, Asked
<1>4. ASSUME Roster(stakes) # {} PROVE a \in Schedule(a.beacon, a.window, stakes)
  BY <1>1, <1>4 DEF Judged
<1> HIDE DEF stakes
<1>5. ASSUME Roster(stakes) # {}, NEW i \in DOMAIN a.committee
      PROVE  stakes[a.committee[i]] >= MinimumBond
  <2>1. a.committee = Committee(a.claim, stakes, a.beacon)
    BY <1>4, <1>5 DEF Schedule
  <2>2. a.committee[i] \in Eligible(a.claim, stakes)
    BY <1>3, <1>5, <2>1, CommitteeIs
  <2> QED BY <2>2 DEF Eligible
<1>6. ASSUME Roster(stakes) # {}, NEW b \in CommittedVerdicts(blocks), a.claim = b.claim PROVE a = b
  <2>1. PICK g \in DOMAIN blocks : b \in blocks[g].verdicts
    BY DEF CommittedVerdicts
  <2>2. Judged(b) /\ IsPrefix(b.beacon, blocks)
    BY <2>1 DEF ScheduleIInv
  <2>3. a.window = b.window
    <3>1. Len(a.claim.block) \in Nat
      BY <1>1, <1>2, SamePrefix DEF Judged, Asked
    <3> QED BY <1>1, <1>6, <2>2, <3>1, OneWindow DEF Judged, Asked
  <2>4. a.beacon = b.beacon
    <3>1. Len(a.beacon) = Len(b.beacon) /\ Len(a.beacon) \in Nat
      BY <1>1, <1>2, <2>2, <2>3, SamePrefix DEF Judged, Asked
    <3> QED BY <1>1, <1>2, <2>2, <3>1, OnePrefix DEF Judged, Asked
  <2>5. a \in Schedule(a.beacon, a.window, stakes) /\ b \in Schedule(a.beacon, a.window, stakes)
    <3>1. Roster(Snapshot(b.beacon)) # {} /\ Snapshot(b.beacon) = stakes
      BY <1>6, <2>4 DEF stakes
    <3>2. b \in Schedule(b.beacon, b.window, Snapshot(b.beacon))
      BY <2>2, <3>1 DEF Judged
    <3> QED BY <1>4, <1>6, <2>3, <2>4, <3>1, <3>2
  <2> DEFINE chosen == Selection(ClaimsOf(a.beacon, WindowOf(a.window)), a.beacon)
             Audit(s) == [window |-> a.window, claim |-> s.claim, beacon |-> a.beacon, reason |-> s.reason,
                          committee |-> Committee(s.claim, stakes, a.beacon)]
  <2>6. (\E s \in chosen : a = Audit(s)) /\ \E s \in chosen : b = Audit(s)
    BY <2>5 DEF Schedule
  <2>7. \A s, t \in chosen : s.claim = t.claim => s = t
    BY DEF Selection
  <2> HIDE DEF chosen
  <2>8. PICK s \in chosen : a = Audit(s)
    BY <2>6
  <2>9. PICK t \in chosen : b = Audit(t)
    BY <2>6
  <2>10. s.claim = t.claim
    BY <1>6, <2>8, <2>9
  <2>11. s = t
    BY <2>7, <2>10
  <2> QED BY <2>8, <2>9, <2>11
<1>7. /\ IsPrefix(a.claim.block, a.beacon)
      /\ a.claim.claimant \notin ToSet(a.committee) /\ IsInjective(a.committee)
  BY <1>1 DEF Judged, WellFormed
<1> QED BY <1>1, <1>5, <1>6, <1>7 DEF stakes

\* A request that is valid stays so on every chain that has its beacon, until it is
\* committed there.
LEMMA ValidStays ==
  ASSUME ScheduleHypothesis, ScheduleIInv, ScheduleIInv'
  PROVE  StaysValid
<1> SUFFICES ASSUME NEW a \in requests, Valid(blocks, a), IsPrefix(a.beacon, blocks'),
                    a \notin CommittedVerdicts(blocks')
             PROVE  Valid(blocks', a)
  BY DEF StaysValid
<1>1. Asked(a) /\ Judged(a)
  BY ValidIsJudged DEF ScheduleIInv
<1>2. Line(blocks')
  BY DEF ScheduleIInv, Chained
<1>3. IsPrefix(a.claim.block, blocks')
  BY <1>1, <1>2, PrefixGoesOn DEF Judged, Asked
<1>4. Roster(StakesAt(blocks', a.beacon)) # {}
        => a \in Schedule(a.beacon, a.window, StakesAt(blocks', a.beacon))
  BY <1>1 DEF Judged, StakesAt
<1> QED BY <1>1, <1>3, <1>4 DEF Valid, Judged

-----------------------------------------------------------------------------
(* Everyone is covered                                                       *)

\* A claimant of a window has one audit of its floor, or none for want of a committee.
LEMMA CoveredOnce ==
  ASSUME ScheduleHypothesis, Digests, NEW beacon, Chained(beacon), NEW i \in Nat,
         NEW n \in {c.claimant : c \in ClaimsOf(beacon, WindowOf(i))}
  PROVE  LET stakes == Snapshot(beacon)
             covered == {a \in Schedule(beacon, i, stakes) : a.reason = "coverage"}
         IN Cardinality({a \in covered : a.claim.claimant = n})
              = IF n \in Uncovered(beacon, i, stakes) THEN 0 ELSE 1
<1> DEFINE stakes == Snapshot(beacon)
           claims == ClaimsOf(beacon, WindowOf(i))
           chosen == Selection(claims, beacon)
           first == Coverage(claims, n, beacon)
           size(claim) == Len(Committee(claim, stakes, beacon))
           Audit(s) == [window |-> i, claim |-> s.claim, beacon |-> beacon, reason |-> s.reason,
                        committee |-> Committee(s.claim, stakes, beacon)]
           mine == {a \in {b \in Schedule(beacon, i, stakes) : b.reason = "coverage"} : a.claim.claimant = n}
<1>1. stakes \in [ValidatorId -> Nat]
  BY SnapshotType DEF Chained
<1>2. \A m \in {c.claimant : c \in claims} : Coverage(claims, m, beacon).claimant = m
  <2>1. \A m \in {c.claimant : c \in claims} : Own(claims, m) # {}
    BY DEF Own
  <2>2. \A m \in {c.claimant : c \in claims} : Coverage(claims, m, beacon) \in Own(claims, m)
    BY <2>1, CoverageIs
  <2> QED BY <2>2 DEF Own
<1>3. /\ [claim |-> first, reason |-> "coverage"] \in chosen
      /\ \A s \in chosen : s.reason = "coverage" /\ s.claim.claimant = n =>
           s = [claim |-> first, reason |-> "coverage"]
  <2> HIDE DEF claims
  <2>1. \A s \in chosen : s.reason = "coverage" =>
          \E m \in {c.claimant : c \in claims} :
            s = [claim |-> Coverage(claims, m, beacon), reason |-> "coverage"]
    BY DEF Selection
  <2>2. [claim |-> first, reason |-> "coverage"] \in chosen
    <3>1. n \in {c.claimant : c \in claims}
      BY DEF claims
    <3> QED BY <3>1 DEF Selection
  <2> HIDE DEF chosen
  <2>3. ASSUME NEW s \in chosen, s.reason = "coverage", s.claim.claimant = n
        PROVE  s = [claim |-> first, reason |-> "coverage"]
    <3>1. PICK m \in {c.claimant : c \in claims} :
            s = [claim |-> Coverage(claims, m, beacon), reason |-> "coverage"]
      BY <2>1, <2>3
    <3>2. m = n
      BY <1>2, <2>3, <3>1
    <3> QED BY <3>1, <3>2
  <2> QED BY <2>2, <2>3
<1>4. size(first) \in Nat /\ size(first) <= CommitteeSize /\ CommitteeSize \in Nat
  BY <1>1, CommitteeIs DEF ScheduleHypothesis
<1>5. Schedule(beacon, i, stakes) = {Audit(s) : s \in {x \in chosen : size(x.claim) = CommitteeSize}}
  BY DEF Schedule
<1>6. Uncovered(beacon, i, stakes) =
        {s.claim.claimant : s \in {x \in chosen : x.reason = "coverage" /\ size(x.claim) < CommitteeSize}}
  BY DEF Uncovered
<1>7. first.claimant = n
  BY <1>2
<1> DEFINE it == [claim |-> first, reason |-> "coverage"]
<1> HIDE DEF stakes, claims, chosen, first, size
<1>8. it.claim = first /\ it.reason = "coverage"
  OBVIOUS
<1> HIDE DEF it
<1>9. n \in Uncovered(beacon, i, stakes) <=> size(first) < CommitteeSize
  <2>1. ASSUME size(first) < CommitteeSize PROVE n \in Uncovered(beacon, i, stakes)
    <3>1. it \in {x \in chosen : x.reason = "coverage" /\ size(x.claim) < CommitteeSize}
      BY <1>3, <1>8, <2>1 DEF it
    <3>2. it.claim.claimant = n
      BY <1>7, <1>8
    <3> QED BY <1>6, <3>1, <3>2
  <2>2. ASSUME n \in Uncovered(beacon, i, stakes) PROVE size(first) < CommitteeSize
    <3>1. PICK s \in chosen : s.reason = "coverage" /\ size(s.claim) < CommitteeSize /\ s.claim.claimant = n
      BY <1>6, <2>2
    <3>2. s = it
      BY <1>3, <3>1 DEF it
    <3> QED BY <1>8, <3>1, <3>2
  <2> QED BY <2>1, <2>2
<1>10. CASE size(first) < CommitteeSize
  <2>1. mine = {}
    <3> SUFFICES ASSUME NEW s \in chosen, size(s.claim) = CommitteeSize,
                        Audit(s).reason = "coverage", Audit(s).claim.claimant = n
                 PROVE  FALSE
      BY <1>5
    <3>1. s.reason = "coverage" /\ s.claim.claimant = n
      OBVIOUS
    <3>2. s = it
      BY <1>3, <3>1 DEF it
    <3> QED BY <1>4, <1>8, <1>10, <3>2
  <2>2. Cardinality(mine) = 0
    BY <2>1, FS_EmptySet
  <2> QED BY <1>9, <1>10, <2>2 DEF stakes
<1>11. CASE ~ (size(first) < CommitteeSize)
  <2>1. size(first) = CommitteeSize
    BY <1>4, <1>11
  <2>2. Audit(it) \in mine
    <3>1. it \in chosen /\ size(it.claim) = CommitteeSize
      BY <1>3, <1>8, <2>1 DEF it
    <3>2. Audit(it) \in Schedule(beacon, i, stakes)
      BY <1>5, <3>1
    <3>3. Audit(it).reason = "coverage" /\ Audit(it).claim.claimant = n
      BY <1>7, <1>8
    <3> QED BY <3>2, <3>3
  <2>3. \A a \in mine : a = Audit(it)
    <3> SUFFICES ASSUME NEW s \in chosen, Audit(s).reason = "coverage", Audit(s).claim.claimant = n
                 PROVE  Audit(s) = Audit(it)
      BY <1>5
    <3>1. s.reason = "coverage" /\ s.claim.claimant = n
      OBVIOUS
    <3>2. s = it
      BY <1>3, <3>1 DEF it
    <3> QED BY <3>2
  <2> HIDE DEF Audit
  <2>4. mine = {Audit(it)}
    BY <2>2, <2>3
  <2>5. Cardinality(mine) = 1
    BY <2>4, FS_Singleton
  <2> QED BY <1>9, <1>11, <2>5 DEF stakes
<1> QED BY <1>10, <1>11

-----------------------------------------------------------------------------
(* The proposer draw                                                         *)

LEMMA GreatestOf ==
  ASSUME NEW U \in SUBSET Nat, IsFiniteSet(U), U # {}
  PROVE  \E m \in U : \A k \in U : k <= m
<1> DEFINE F == {s \in SUBSET U : s # {} => \E m \in s : \A k \in s : k <= m}
<1>1. {} \in F
  OBVIOUS
<1>2. ASSUME NEW s \in SUBSET U, NEW x \in U \ s, s \in F PROVE s \cup {x} \in F
  <2>1. CASE s = {}
    <3>1. x \in Nat /\ \A k \in s \cup {x} : k <= x
      BY <2>1
    <3> QED BY <3>1
  <2>2. CASE s # {}
    <3>1. PICK m \in s : \A k \in s : k <= m
      BY <1>2, <2>2
    <3>2. m \in Nat /\ x \in Nat /\ \A k \in s : k \in Nat
      OBVIOUS
    <3>3. \A k \in s \cup {x} : k <= (IF m <= x THEN x ELSE m)
      BY <3>1, <3>2
    <3>4. (IF m <= x THEN x ELSE m) \in s \cup {x}
      OBVIOUS
    <3> QED BY <3>3, <3>4
  <2> QED BY <2>1, <2>2
<1> HIDE DEF F
<1>3. U \in F
  BY <1>1, <1>2, FiniteInduction
<1> QED BY <1>3 DEF F

LEMMA PartSum ==
  ASSUME NEW S, IsFiniteSet(S), NEW T \in SUBSET S, NEW f, \A x \in S : f[x] \in Nat
  PROVE  Sum(f, T) \in Nat /\ Sum(f, S) \in Nat /\ Sum(f, T) <= Sum(f, S)
<1>1. IsFiniteSet(T) /\ IsFiniteSet(S \ T) /\ T \cap (S \ T) = {} /\ T \cup (S \ T) = S
  BY FS_Subset
<1>2. Sum(f, T) \in Nat /\ Sum(f, S \ T) \in Nat
  <2>1. (\A x \in T : f[x] \in Nat) /\ \A x \in S \ T : f[x] \in Nat
    OBVIOUS
  <2> QED BY <1>1, <2>1, SumNatural
<1>3. Sum(f, T \cup (S \ T)) = Sum(f, T) + Sum(f, S \ T)
  <2>1. \A x \in T \cup (S \ T) : f[x] \in Int
    OBVIOUS
  <2> QED BY <1>1, <2>1, SumUnion
<1>4. Sum(f, S) = Sum(f, T) + Sum(f, S \ T)
  BY <1>1, <1>3
<1> QED BY <1>2, <1>4

\* Where a validator's interval begins.
Before(stakes, v) == Sum(stakes, {u \in Roster(stakes) : u < v})

LEMMA Intervals ==
  ASSUME ScheduleHypothesis, NEW stakes \in [ValidatorId -> Nat]
  PROVE  /\ IsFiniteSet(Roster(stakes)) /\ Roster(stakes) \in SUBSET Nat
         /\ \A u \in Roster(stakes) : stakes[u] \in Nat \ {0} /\ Before(stakes, u) \in Nat
         /\ \A u, v \in Roster(stakes) : u < v => Before(stakes, u) + stakes[u] <= Before(stakes, v)
         /\ SumFunction(stakes) \in Nat
         /\ \A u \in Roster(stakes) : Before(stakes, u) + stakes[u] <= SumFunction(stakes)
         /\ \A u \in Roster(stakes) : (\A v \in Roster(stakes) : v <= u) =>
              SumFunction(stakes) = Before(stakes, u) + stakes[u]
         /\ \A u, v \in Roster(stakes) : u < v /\ (\A w \in Roster(stakes) : u < w => v <= w) =>
              Before(stakes, v) = Before(stakes, u) + stakes[u]
<1> DEFINE R == Roster(stakes)
           Below(v) == {u \in R : u < v}
<1>1. IsFiniteSet(R) /\ R \in SUBSET Nat /\ R \in SUBSET ValidatorId
      /\ \A u \in R : stakes[u] \in Nat \ {0}
  <2>1. R \in SUBSET ValidatorId /\ \A u \in R : stakes[u] \in Nat \ {0}
    BY DEF Roster
  <2> QED BY <2>1, FS_Subset DEF ScheduleHypothesis
<1>2. SumFunction(stakes) = Sum(stakes, R)
  <2>1. DOMAIN stakes = ValidatorId /\ IsFiniteSet(ValidatorId)
    BY DEF ScheduleHypothesis
  <2>2. /\ \A x \in ValidatorId : stakes[x] \in Int
        /\ \A x \in ValidatorId \ R : stakes[x] = 0
    BY DEF Roster
  <2>3. Sum(stakes, ValidatorId) = Sum(stakes, R)
    BY <1>1, <2>1, <2>2, SumZeros
  <2> QED BY <2>1, <2>3, SumIs
<1>3. \A v : Before(stakes, v) = Sum(stakes, Below(v))
  BY DEF Before
<1> HIDE DEF R
<1>4. ASSUME NEW u \in R
      PROVE  /\ Below(u) \in SUBSET R /\ IsFiniteSet(Below(u)) /\ u \notin Below(u)
             /\ Below(u) \cup {u} \in SUBSET R
             /\ Before(stakes, u) \in Nat /\ Sum(stakes, R) \in Nat
             /\ Sum(stakes, Below(u) \cup {u}) = Before(stakes, u) + stakes[u]
  <2>1. Below(u) \in SUBSET R /\ u \notin Below(u) /\ Below(u) \cup {u} \in SUBSET R
    BY <1>1
  <2>2. IsFiniteSet(Below(u))
    BY <1>1, <2>1, FS_Subset
  <2>3. Sum(stakes, Below(u)) \in Nat /\ Sum(stakes, R) \in Nat
    BY <1>1, <2>1, PartSum
  <2>4. Sum(stakes, Below(u) \cup {u}) = stakes[u] + Sum(stakes, Below(u))
    <3>1. (\A x \in Below(u) : stakes[x] \in Int) /\ stakes[u] \in Int
      BY <1>1
    <3> HIDE DEF Below
    <3> QED BY <2>1, <2>2, <3>1, SumAdd
  <2>5. stakes[u] \in Nat
    BY <1>1
  <2> QED BY <1>3, <2>1, <2>2, <2>3, <2>4, <2>5
<1>5. ASSUME NEW u \in R, NEW v \in R, u < v PROVE Before(stakes, u) + stakes[u] <= Before(stakes, v)
  <2>1. Below(u) \cup {u} \in SUBSET Below(v)
    <3>1. \A w \in R : w < u => w < v
      <4>1. \A w \in R : w \in Nat
        BY <1>1
      <4> QED BY <1>5, <4>1
    <3> QED BY <1>5, <3>1
  <2>2. IsFiniteSet(Below(v)) /\ \A x \in Below(v) : stakes[x] \in Nat
    BY <1>1, <1>4
  <2>3. Sum(stakes, Below(u) \cup {u}) <= Sum(stakes, Below(v))
    BY <2>1, <2>2, PartSum
  <2> QED BY <1>3, <1>4, <2>3
<1>6. ASSUME NEW u \in R PROVE Before(stakes, u) + stakes[u] <= Sum(stakes, R)
  <2>1. Sum(stakes, Below(u) \cup {u}) <= Sum(stakes, R)
    BY <1>1, <1>4, PartSum
  <2> QED BY <1>4, <2>1
<1>7. ASSUME NEW u \in R, \A v \in R : v <= u PROVE Sum(stakes, R) = Before(stakes, u) + stakes[u]
  <2>1. Below(u) \cup {u} = R
    <3>1. \A w \in R : w < u \/ w = u
      <4>1. \A w \in R : w \in Nat
        BY <1>1
      <4> QED BY <1>7, <4>1
    <3> QED BY <3>1
  <2> QED BY <1>4, <2>1
<1>8. ASSUME NEW u \in R, NEW v \in R, u < v, \A w \in R : u < w => v <= w
      PROVE  Before(stakes, v) = Before(stakes, u) + stakes[u]
  <2>1. Below(u) \cup {u} = Below(v)
    <3>1. \A w \in R : w < v <=> w < u \/ w = u
      <4>1. \A w \in R : w \in Nat
        BY <1>1
      <4> QED BY <1>8, <4>1
    <3> QED BY <1>8, <3>1
  <2> QED BY <1>3, <1>4, <2>1
<1>9. Sum(stakes, R) \in Nat
  BY <1>1, SumNatural
<1>10. \A u \in R : Before(stakes, u) \in Nat
  BY <1>4
<1> HIDE DEF Below
<1> QED BY <1>1, <1>2, <1>5, <1>6, <1>7, <1>8, <1>9, <1>10 DEF R

Drawn(stakes, d, v) == Before(stakes, v) <= d /\ d < Before(stakes, v) + stakes[v]

LEMMA SomeoneDrawn ==
  ASSUME ScheduleHypothesis, NEW stakes \in [ValidatorId -> Nat],
         NEW d \in 0 .. SumFunction(stakes) - 1
  PROVE  \E v \in Roster(stakes) : Drawn(stakes, d, v)
<1> DEFINE R == Roster(stakes)
           total == SumFunction(stakes)
           low == {v \in R : Before(stakes, v) <= d}
<1>1. /\ IsFiniteSet(R) /\ R \in SUBSET Nat /\ total \in Nat
      /\ \A u \in R : stakes[u] \in Nat \ {0} /\ Before(stakes, u) \in Nat
      /\ \A u \in R : (\A v \in R : v <= u) => total = Before(stakes, u) + stakes[u]
      /\ \A u, v \in R : u < v /\ (\A w \in R : u < w => v <= w) =>
           Before(stakes, v) = Before(stakes, u) + stakes[u]
  BY Intervals
<1>2. d \in Nat /\ d < total
  BY <1>1
<1>3. R # {}
  <2> SUFFICES ASSUME R = {} PROVE FALSE
    OBVIOUS
  <2>1. DOMAIN stakes = ValidatorId /\ IsFiniteSet(ValidatorId)
    BY DEF ScheduleHypothesis
  <2>2. \A x \in ValidatorId : stakes[x] \in Int /\ stakes[x] = 0
    BY DEF Roster
  <2>3. Sum(stakes, ValidatorId) = Sum(stakes, {})
    BY <2>1, <2>2, SumZeros
  <2>4. total = 0
    BY <2>1, <2>3, SumIs, SumEmpty
  <2> QED BY <1>2, <2>4
<1>4. low # {}
  <2>1. PICK u \in R : \A v \in R : u <= v
    BY <1>1, <1>3, LeastOf
  <2>2. {v \in R : v < u} = {}
    BY <1>1, <2>1
  <2>3. Before(stakes, u) = 0
    BY <2>2, SumEmpty DEF Before
  <2> QED BY <1>2, <2>3
<1> HIDE DEF R, total
<1>5. PICK v \in low : \A u \in low : u <= v
  <2>1. low \in SUBSET R
    OBVIOUS
  <2>2. IsFiniteSet(low) /\ low \in SUBSET Nat
    BY <1>1, <2>1, FS_Subset
  <2> QED BY <1>4, <2>2, GreatestOf
<1>6. v \in R /\ Before(stakes, v) <= d
  OBVIOUS
<1>7. d < Before(stakes, v) + stakes[v]
  <2> SUFFICES ASSUME ~ (d < Before(stakes, v) + stakes[v]) PROVE FALSE
    OBVIOUS
  <2>1. Before(stakes, v) + stakes[v] <= d
    BY <1>1, <1>2, <1>6
  <2> DEFINE above == {u \in R : v < u}
  <2>2. CASE above = {}
    <3>1. \A u \in R : u <= v
      BY <1>1, <1>6, <2>2
    <3>2. total = Before(stakes, v) + stakes[v]
      BY <1>1, <1>6, <3>1
    <3>3. Before(stakes, v) \in Nat /\ stakes[v] \in Nat
      BY <1>1, <1>6
    <3> QED BY <1>1, <1>2, <2>1, <3>2, <3>3
  <2>3. CASE above # {}
    <3>1. PICK u \in above : \A w \in above : u <= w
      <4>1. above \in SUBSET Nat
        BY <1>1
      <4> QED BY <2>3, <4>1, LeastOf
    <3>2. u \in R /\ v < u /\ \A w \in R : v < w => u <= w
      BY <3>1
    <3>3. Before(stakes, u) = Before(stakes, v) + stakes[v]
      BY <1>1, <1>6, <3>2
    <3>4. u \in low
      BY <2>1, <3>2, <3>3
    <3>5. u <= v /\ v \in Nat /\ u \in Nat
      BY <1>1, <1>5, <1>6, <3>2, <3>4
    <3> QED BY <3>2, <3>5
  <2> QED BY <2>2, <2>3
<1> QED BY <1>6, <1>7 DEF Drawn, R

\* Over all draws, a validator proposes as often as it has stake.
LEMMA InProportion ==
  ASSUME ScheduleHypothesis, NEW stakes \in [ValidatorId -> Nat], NEW v \in ValidatorId
  PROVE  Cardinality({d \in 0 .. SumFunction(stakes) - 1 : Proposer(stakes, d) = v}) = stakes[v]
<1> DEFINE R == Roster(stakes)
           total == SumFunction(stakes)
           hers == {d \in 0 .. total - 1 : Proposer(stakes, d) = v}
<1>1. /\ R \in SUBSET Nat /\ total \in Nat
      /\ \A u \in R : stakes[u] \in Nat \ {0} /\ Before(stakes, u) \in Nat
      /\ \A u, w \in R : u < w => Before(stakes, u) + stakes[u] <= Before(stakes, w)
      /\ \A u \in R : Before(stakes, u) + stakes[u] <= total
  BY Intervals
<1>2. \A d \in 0 .. total - 1 : Proposer(stakes, d) \in R /\ Drawn(stakes, d, Proposer(stakes, d))
  <2> SUFFICES ASSUME NEW d \in 0 .. total - 1
               PROVE  Proposer(stakes, d) \in R /\ Drawn(stakes, d, Proposer(stakes, d))
    OBVIOUS
  <2>1. Proposer(stakes, d) = CHOOSE u \in R : Drawn(stakes, d, u)
    BY DEF Proposer, Drawn, Before, Sum
  <2>2. \E u \in R : Drawn(stakes, d, u)
    BY SomeoneDrawn
  <2> QED BY <2>1, <2>2
<1>3. CASE v \notin R
  <2>1. hers = {}
    BY <1>2, <1>3
  <2>2. stakes[v] = 0
    BY <1>3 DEF Roster
  <2> QED BY <2>1, <2>2, FS_EmptySet
<1>4. CASE v \in R
  <2> DEFINE a == Before(stakes, v)
             b == a + stakes[v] - 1
  <2> HIDE DEF R, total
  <2>1. a \in Nat /\ stakes[v] \in Nat \ {0} /\ b \in Nat /\ a <= b /\ b <= total - 1
    BY <1>1, <1>4
  <2>2. ASSUME NEW d \in 0 .. total - 1 PROVE Proposer(stakes, d) = v <=> d \in a .. b
    <3> DEFINE u == Proposer(stakes, d)
    <3>1. u \in R /\ Before(stakes, u) <= d /\ d < Before(stakes, u) + stakes[u]
      BY <1>2 DEF Drawn
    <3> HIDE DEF u
    <3>2. /\ Before(stakes, u) \in Nat /\ stakes[u] \in Nat /\ u \in Nat /\ v \in Nat
          /\ u < v => Before(stakes, u) + stakes[u] <= a
          /\ v < u => a + stakes[v] <= Before(stakes, u)
      BY <1>1, <1>4, <3>1
    <3>3. ASSUME u = v PROVE d \in a .. b
      BY <2>1, <3>1, <3>3
    <3>4. ASSUME d \in a .. b PROVE u = v
      <4> HIDE DEF a
      <4>1. d \in Nat /\ a <= d /\ d < a + stakes[v]
        BY <2>1, <3>4
      <4>2. ~ (u < v) /\ ~ (v < u)
        BY <2>1, <3>1, <3>2, <4>1
      <4> QED BY <3>2, <4>2
    <3> QED BY <3>3, <3>4 DEF u
  <2>3. hers = a .. b
    <3>1. a .. b \subseteq 0 .. total - 1
      BY <1>1, <2>1
    <3> HIDE DEF a, b
    <3> QED BY <2>2, <3>1
  <2>4. Cardinality(a .. b) = b - a + 1
    BY <2>1, FS_Interval
  <2>5. b - a + 1 = stakes[v]
    BY <2>1
  <2> QED BY <2>3, <2>4, <2>5 DEF total
<1> QED BY <1>3, <1>4

LEMMA Everyone ==
  ASSUME ScheduleHypothesis, Digests, ScheduleIInv
  PROVE  EveryoneCovered
<1>1. ASSUME NEW i \in Windows, Len(blocks) >= WindowOf(i).beacon
      PROVE  LET beacon == Prefix(blocks, WindowOf(i).beacon)
                 stakes == Snapshot(beacon)
                 covered == {a \in Schedule(beacon, i, stakes) : a.reason = "coverage"}
             IN \A n \in {c.claimant : c \in ClaimsOf(beacon, WindowOf(i))} :
                  Cardinality({a \in covered : a.claim.claimant = n})
                    = IF n \in Uncovered(beacon, i, stakes) THEN 0 ELSE 1
  <2> DEFINE beacon == Prefix(blocks, WindowOf(i).beacon)
  <2>1. i \in Nat /\ WindowOf(i).beacon \in Nat /\ Chained(blocks) /\ Len(blocks) \in Nat
    BY BeaconIs, BlocksAre DEF ScheduleIInv
  <2>2. Chained(beacon)
    BY <1>1, <2>1, ChainedPrefix
  <2> HIDE DEF beacon
  <2>3. \A n \in {c.claimant : c \in ClaimsOf(beacon, WindowOf(i))} :
          Cardinality({a \in {b \in Schedule(beacon, i, Snapshot(beacon)) : b.reason = "coverage"} :
                         a.claim.claimant = n})
            = IF n \in Uncovered(beacon, i, Snapshot(beacon)) THEN 0 ELSE 1
    BY <2>1, <2>2, CoveredOnce
  <2> QED BY <2>3 DEF beacon
<1>2. \A v \in ValidatorId :
        Cardinality({d \in 0 .. SumFunction(Snapshot(blocks)) - 1 : Proposer(Snapshot(blocks), d) = v})
          = Snapshot(blocks)[v]
  <2>1. Snapshot(blocks) \in [ValidatorId -> Nat]
    BY BlocksAre, SnapshotType DEF ScheduleIInv
  <2> QED BY <2>1, InProportion
<1> QED BY <1>1, <1>2 DEF EveryoneCovered

\* For any claimants, validators, bodies of blocks, sizes of windows and committees and
\* any digests, however the chain grows and is disconnected and whatever is asked for or
\* forged: what is committed was decided by strangers bonded at the beacon, once, and
\* everyone is covered once or reported (audit-schedule.ts, validation.ts, proposer.ts).
THEOREM AuditsAreImpartial ==
  ASSUME ScheduleHypothesis, Digests
  PROVE  ScheduleSpec => []ScheduleInv
<1>1. ScheduleInit => ScheduleIInv
  BY ScheduleStarts
<1>2. ScheduleIInv /\ [ScheduleNext]_scheduleVars => ScheduleIInv'
  BY ScheduleKeeps
<1>3. ScheduleIInv => ScheduleInv
  BY IndependentCommittees, Everyone DEF ScheduleInv
<1> QED BY <1>1, <1>2, <1>3, PTL DEF ScheduleSpec

\* A scheduled audit stays committable while its beacon stays, whatever is bonded, spent
\* or connected since (validateAuditVerdicts).
THEOREM ScheduledAuditsStayValid ==
  ASSUME ScheduleHypothesis, Digests
  PROVE  ScheduleSpec => ScheduledStaysValid
<1>1. ScheduleInit => ScheduleIInv
  BY ScheduleStarts
<1>2. ScheduleIInv /\ [ScheduleNext]_scheduleVars => ScheduleIInv'
  BY ScheduleKeeps
<1>3. ScheduleIInv /\ ScheduleIInv' /\ [ScheduleNext]_scheduleVars => [StaysValid]_scheduleVars
  BY ValidStays
<1> QED BY <1>1, <1>2, <1>3, PTL DEF ScheduleSpec, ScheduledStaysValid

-----------------------------------------------------------------------------
(* The proof system                                                          *)

LEMMA Modulo ==
  ASSUME NEW p \in Nat \ {0}
  PROVE  /\ \A a \in Int : /\ a % p \in 0 .. p - 1 /\ a \div p \in Int
                           /\ a = p * (a \div p) + (a % p)
         /\ \A q \in Int, r \in 0 .. p - 1 : (p * q + r) % p = r
<1>1. ASSUME NEW a \in Int
      PROVE  a % p \in 0 .. p - 1 /\ a \div p \in Int /\ a = p * (a \div p) + (a % p)
  OBVIOUS
<1>2. ASSUME NEW q \in Int, NEW r \in 0 .. p - 1 PROVE (p * q + r) % p = r
  OBVIOUS
<1> QED BY <1>1, <1>2

\* Inverses of factors are inverses of products, reduced as one goes.
LEMMA InversesMultiply ==
  ASSUME NEW p \in Nat, p > 1, NEW a \in Int, NEW b \in Int, NEW c \in Int, NEW d \in Int,
         (a * b) % p = 1, (c * d) % p = 1
  PROVE  (((a * c) % p) * ((b * d) % p)) % p = 1
<1> DEFINE x == (a * b) \div p
           y == (c * d) \div p
           u == (a * c) \div p
           v == (b * d) \div p
           m == a * c
           n == b * d
<1>1. m \in Int /\ n \in Int /\ a * b \in Int /\ c * d \in Int
  OBVIOUS
<1>2. /\ x \in Int /\ a * b = p * x + 1
      /\ y \in Int /\ c * d = p * y + 1
  BY <1>1, Modulo
<1>3. /\ u \in Int /\ m % p = m - p * u
      /\ v \in Int /\ n % p = n - p * v
  <2>1. /\ u \in Int /\ m = p * u + (m % p) /\ m % p \in Int
        /\ v \in Int /\ n = p * v + (n % p) /\ n % p \in Int
    BY <1>1, Modulo
  <2>2. p * u \in Int /\ p * v \in Int
    BY <2>1
  <2>3. \A s, t, w \in Int : s = t + w => w = s - t
    OBVIOUS
  <2> HIDE DEF m, n, u, v
  <2>4. m % p = m - p * u
    BY <1>1, <2>1, <2>2, <2>3
  <2>5. n % p = n - p * v
    BY <1>1, <2>1, <2>2, <2>3
  <2> QED BY <2>1, <2>4, <2>5
<1>4. m * n = (a * b) * (c * d)
  OBVIOUS
<1> HIDE DEF x, y
<1>5. (p * x + 1) * (p * y + 1) = p * (p * x * y + x + y) + 1
  BY <1>2
<1> HIDE DEF u, v, m, n
<1>6. (m - p * u) * (n - p * v) = m * n - p * (u * n + m * v - p * u * v)
  BY <1>1, <1>3
<1> DEFINE k == p * x * y + x + y
           l == u * n + m * v - p * u * v
<1>7. k \in Int /\ l \in Int
  BY <1>1, <1>2, <1>3
<1>8. m * n = p * k + 1
  BY <1>2, <1>4, <1>5
<1>9. (m - p * u) * (n - p * v) = m * n - p * l
  BY <1>6
<1> HIDE DEF k, l
<1>10. p * k - p * l = p * (k - l) /\ k - l \in Int /\ p * k \in Int /\ p * l \in Int
  BY <1>7
<1>11. m * n - p * l = p * (k - l) + 1
  BY <1>8, <1>10
<1>12. (p * (k - l) + 1) % p = 1
  <2>1. p \in Nat \ {0} /\ 1 \in 0 .. p - 1
    OBVIOUS
  <2> QED BY <1>10, <2>1, Modulo
<1>13. (m % p) * (n % p) = p * (k - l) + 1
  BY <1>3, <1>9, <1>11
<1> QED BY <1>12, <1>13 DEF m, n

ProofTypes ==
  /\ pk.d1 \in Int /\ pk.d2 \in Int /\ pk.scale \in Int
  /\ mode \in {"strict", "simnet"} /\ pqMode \in {"strict", "simnet"}
  /\ module \in {"unloaded", "real", "stub", "mock"}

ProofIInv == ProofTypes /\ CeremonyConsistent /\ FailsClosedOnStub

LEMMA ContributeKeeps ==
  ASSUME ProofHypothesis, ProofIInv, NEW inc \in 1 .. Prime - 1, Contribute(inc)
  PROVE  ProofIInv'
<1> DEFINE v == InverseOf(inc)
<1>1. v \in 1 .. Prime - 1 /\ (v * inc) % Prime = 1
  BY DEF InverseOf, ProofHypothesis
<1> HIDE DEF v
<1>2. /\ pk' = [d1 |-> (pk.d1 * inc) % Prime, d2 |-> (pk.d2 * inc) % Prime,
                scale |-> (pk.scale * v) % Prime]
      /\ UNCHANGED <<mode, module, pqMode, up>>
  BY DEF Contribute, Contributed, v
<1>3. Prime \in Nat \ {0} /\ Prime > 1 /\ inc \in Int /\ v \in Int
  BY <1>1 DEF ProofHypothesis
<1>4. pk.d1 \in Int /\ pk.d2 \in Int /\ pk.scale \in Int /\ pk.d1 = pk.d2 /\ (pk.scale * pk.d2) % Prime = 1
  BY DEF ProofIInv, ProofTypes, CeremonyConsistent
<1>5. pk'.d1 \in Int /\ pk'.d2 \in Int /\ pk'.scale \in Int
  <2>1. pk.d1 * inc \in Int /\ pk.d2 * inc \in Int /\ pk.scale * v \in Int
    BY <1>3, <1>4
  <2>2. \A a \in Int : a % Prime \in Int
    BY <1>3, Modulo
  <2>3. (pk.d1 * inc) % Prime \in Int /\ (pk.d2 * inc) % Prime \in Int /\ (pk.scale * v) % Prime \in Int
    BY <2>1, <2>2
  <2> QED BY <1>2, <2>3
<1>6. (pk'.scale * pk'.d2) % Prime = 1
  <2>1. (((pk.scale * v) % Prime) * ((pk.d2 * inc) % Prime)) % Prime = 1
    BY <1>1, <1>3, <1>4, InversesMultiply
  <2> QED BY <1>2, <2>1
<1>7. pk'.d1 = pk'.d2
  BY <1>2, <1>4
<1> QED BY <1>2, <1>5, <1>6, <1>7 DEF ProofIInv, ProofTypes, CeremonyConsistent, FailsClosedOnStub

\* A load that throws ends the process; what goes on is what the mode allows.
LEMMA LoadKeeps ==
  ASSUME ProofIInv, up, NEW m \in {"strict", "simnet"}, NEW available \in BOOLEAN,
         LoadVerifier(m, available)
  PROVE  ProofIInv'
<1>1. UNCHANGED <<pk, pqMode>> /\ Load(m, available)
  BY DEF LoadVerifier
<1>2. FailsClosedOnStub /\ ProofTypes
  BY DEF ProofIInv
<1>3. CASE ~ ModeAllowed(m)
  BY <1>1, <1>2, <1>3 DEF Load, ProofIInv, ProofTypes, CeremonyConsistent, FailsClosedOnStub
<1>4. CASE ModeAllowed(m)
  <2>1. mode' = m /\ (Production => m = "strict")
    BY <1>1, <1>4 DEF Load, ModeAllowed
  <2>2. CASE module # "unloaded"
    <3>1. module' = module /\ up' = ~ (m = "strict" /\ module = "stub")
      BY <1>1, <1>4, <2>2 DEF Load
    <3> QED BY <1>1, <1>2, <2>1, <2>2, <3>1
            DEF ProofIInv, ProofTypes, CeremonyConsistent, FailsClosedOnStub
  <2>3. CASE module = "unloaded"
    <3>1. \/ module' = "real" \/ (m = "strict" /\ module' = module /\ up' = FALSE)
          \/ (m # "strict" /\ module' = "stub")
      BY <1>1, <1>4, <2>3 DEF Load
    <3> QED BY <1>1, <1>2, <2>1, <2>3, <3>1
            DEF ProofIInv, ProofTypes, CeremonyConsistent, FailsClosedOnStub
  <2> QED BY <2>2, <2>3
<1> QED BY <1>3, <1>4

LEMMA MockKeeps ==
  ASSUME ProofIInv, up, SetMockVerifier
  PROVE  ProofIInv'
BY DEF SetMockVerifier, ProofIInv, ProofTypes, CeremonyConsistent, FailsClosedOnStub

LEMMA PQModeKeeps ==
  ASSUME ProofIInv, up, NEW m \in {"strict", "simnet"}, SetPQVerifierMode(m)
  PROVE  ProofIInv'
BY DEF SetPQVerifierMode, ModeAllowed, ProofIInv, ProofTypes, CeremonyConsistent, FailsClosedOnStub

LEMMA ProofStarts == ProofHypothesis /\ ProofInit => ProofIInv
<1> SUFFICES ASSUME ProofHypothesis, ProofInit PROVE ProofIInv
  OBVIOUS
<1>1. pk.d1 = 1 /\ pk.d2 = 1 /\ pk.scale = 1
  BY DEF ProofInit, Setup
<1>2. (1 * 1) % Prime = 1
  <2>1. Prime \in Nat \ {0} /\ 1 \in 0 .. Prime - 1 /\ 0 \in Int
    BY DEF ProofHypothesis
  <2>2. (Prime * 0 + 1) % Prime = 1
    BY <2>1, Modulo
  <2>3. Prime * 0 + 1 = 1 * 1
    BY <2>1
  <2> QED BY <2>2, <2>3
<1> QED BY <1>1, <1>2 DEF ProofInit, ProofIInv, ProofTypes, CeremonyConsistent, FailsClosedOnStub

LEMMA ProofKeeps ==
  ASSUME ProofHypothesis, ProofIInv, [ProofNext]_proofVars
  PROVE  ProofIInv'
<1>1. CASE UNCHANGED <<pk, mode, module, pqMode, up>>
  BY <1>1 DEF ProofIInv, ProofTypes, CeremonyConsistent, FailsClosedOnStub
<1>2. CASE ProofNext
  <2>1. ASSUME NEW c \in Circuit, Install(c) PROVE ProofIInv'
    BY <1>1, <2>1 DEF Install
  <2>2. ASSUME NEW c \in Circuit, NEW e \in Epoch, NEW w \in Witness[c], Prove(c, w, e) PROVE ProofIInv'
    BY <1>1, <2>2 DEF Prove
  <2> QED BY <1>2, <2>1, <2>2, ContributeKeeps, LoadKeeps, MockKeeps, PQModeKeeps DEF ProofNext
<1>3. CASE UNCHANGED proofVars
  BY <1>1, <1>3 DEF proofVars
<1> QED BY <1>2, <1>3

\* What passes in production, or with the real verifier in strict mode, was proved.
LEMMA AcceptedProved ==
  ASSUME ProofIInv, module # "unloaded", up, NEW claim \in Claims, NEW e \in Epoch, Accepts(claim, e),
         Production \/ (mode = "strict" /\ module = "real" /\ pqMode = "strict")
  PROVE  Proved(claim) /\ claim.epoch = e /\ registry[claim.circuit] # Placeholder
<1>1. mode = "strict" /\ module = "real" /\ pqMode = "strict"
  BY DEF ProofIInv, ProofTypes, FailsClosedOnStub
<1>2. claim.proof \in proofs \cup {Truncated}
  BY DEF Claims
<1> DEFINE inputs == PublicInputs(claim.commitment, claim.weight, e)
<1>3. Groth16(claim, e)
  BY <1>1 DEF Accepts, Receipt
<1>4. claim.epoch = e /\ Answer(claim, inputs)
  BY <1>3 DEF Groth16
<1>5. /\ claim.proof # Truncated /\ claim.proof.circuit = claim.circuit
      /\ Pairing(registry[claim.circuit], claim.proof, inputs)
  BY <1>1, <1>4 DEF Answer
<1>6. /\ registry[claim.circuit] # Placeholder
      /\ inputs = <<claim.proof.commitment, claim.proof.flops, claim.proof.epoch>>
  BY <1>5 DEF Pairing
<1>7. inputs = <<claim.commitment % Field, claim.weight, e>>
  BY DEF PublicInputs
<1> HIDE DEF inputs
<1>8. /\ claim.proof.commitment = claim.commitment % Field
      /\ claim.proof.flops = claim.weight /\ claim.proof.epoch = e
  BY <1>6, <1>7
<1> QED BY <1>2, <1>4, <1>5, <1>6, <1>8 DEF Proved

\* The positions that a batch sends on, one claim after the other.
IsSent(alone, n, f) ==
  f = [k \in 0 .. n |->
         IF k = 0 THEN <<>> ELSE IF alone[k] THEN Append(f[k - 1], k) ELSE f[k - 1]]

SentUpTo(alone, n) == CHOOSE f : IsSent(alone, n, f)

LEMMA SentExists ==
  ASSUME NEW alone, NEW L \in Nat
  PROVE  IsSent(alone, L, SentUpTo(alone, L)) /\ SentUpTo(alone, L) \in [0 .. L -> Seq(Nat)]
<1> DEFINE Value(g, k) == IF k = 0 THEN <<>> ELSE IF alone[k] THEN Append(g[k - 1], k) ELSE g[k - 1]
           Partial(n) == \E g \in [0 .. n -> Seq(Nat)] : \A k \in 0 .. n : g[k] = Value(g, k)
           N == {n \in Nat : Partial(n)}
<1>1. 0 \in N
  <2> DEFINE g == [k \in 0 .. 0 |-> <<>>]
  <2>1. <<>> \in Seq(Nat)
    OBVIOUS
  <2>2. g \in [0 .. 0 -> Seq(Nat)] /\ \A k \in 0 .. 0 : g[k] = Value(g, k)
    BY <2>1
  <2> QED BY <2>2
<1>2. ASSUME NEW n \in N PROVE n + 1 \in N
  <2>1. n \in Nat /\ Partial(n)
    BY <1>2
  <2>2. PICK g \in [0 .. n -> Seq(Nat)] : \A k \in 0 .. n : g[k] = Value(g, k)
    BY <2>1
  <2> DEFINE h == [k \in 0 .. n + 1 |-> Value(g, k)]
  <2>3. \A k \in 0 .. n + 1 : k # 0 => k - 1 \in 0 .. n /\ k \in Nat
    BY <2>1
  <2>4. \A k \in 0 .. n + 1 : Value(g, k) \in Seq(Nat)
    <3> SUFFICES ASSUME NEW k \in 0 .. n + 1 PROVE Value(g, k) \in Seq(Nat)
      OBVIOUS
    <3>1. CASE k = 0
      BY <3>1
    <3>2. CASE k # 0
      <4>1. g[k - 1] \in Seq(Nat) /\ k \in Nat
        BY <2>2, <2>3, <3>2
      <4>2. Append(g[k - 1], k) \in Seq(Nat)
        BY <4>1
      <4> QED BY <3>2, <4>1, <4>2
    <3> QED BY <3>1, <3>2
  <2>5. h \in [0 .. n + 1 -> Seq(Nat)]
    BY <2>4
  <2>6. \A k \in 0 .. n : k \in 0 .. n + 1 /\ h[k] = g[k]
    <3>1. \A k \in 0 .. n : k \in 0 .. n + 1
      BY <2>1
    <3>2. \A k \in 0 .. n + 1 : h[k] = Value(g, k)
      OBVIOUS
    <3> HIDE DEF h, Value
    <3> QED BY <2>2, <3>1, <3>2
  <2>7. \A k \in 0 .. n + 1 : h[k] = Value(h, k)
    BY <2>3, <2>6
  <2> HIDE DEF h
  <2>8. Partial(n + 1)
    BY <2>5, <2>7
  <2> HIDE DEF Partial
  <2> QED BY <2>1, <2>8
<1>3. N = Nat
  <2>1. N \in SUBSET Nat
    OBVIOUS
  <2> HIDE DEF N
  <2> QED BY <1>1, <1>2, <2>1, Induction
<1>4. Partial(L)
  <2> HIDE DEF Partial
  <2> QED BY <1>3
<1>5. PICK g \in [0 .. L -> Seq(Nat)] : \A k \in 0 .. L : g[k] = Value(g, k)
  BY <1>4
<1>6. IsSent(alone, L, g)
  BY <1>5 DEF IsSent
<1> DEFINE f == SentUpTo(alone, L)
<1>7. IsSent(alone, L, f)
  BY <1>6 DEF SentUpTo
<1> HIDE DEF f, N, Partial
<1>8. f = [k \in 0 .. L |-> Value(f, k)]
  BY <1>7 DEF IsSent
<1> DEFINE M == {k \in Nat : k <= L => f[k] \in Seq(Nat)}
<1>9. 0 \in M
  <2>1. f[0] = <<>> /\ <<>> \in Seq(Nat)
    BY <1>8
  <2> QED BY <2>1
<1>10. ASSUME NEW k \in M PROVE k + 1 \in M
  <2> SUFFICES ASSUME k + 1 <= L PROVE f[k + 1] \in Seq(Nat)
    BY <1>10
  <2>1. k \in Nat /\ f[k] \in Seq(Nat) /\ k + 1 \in 0 .. L /\ k + 1 # 0 /\ (k + 1) - 1 = k
    BY <1>10
  <2>2. f[k + 1] = IF alone[k + 1] THEN Append(f[k], k + 1) ELSE f[k]
    BY <1>8, <2>1
  <2>3. Append(f[k], k + 1) \in Seq(Nat)
    BY <2>1
  <2> QED BY <2>1, <2>2, <2>3
<1>11. M = Nat
  <2>1. M \in SUBSET Nat
    OBVIOUS
  <2> HIDE DEF M
  <2> QED BY <1>9, <1>10, <2>1, Induction
<1>12. \A k \in 0 .. L : f[k] \in Seq(Nat)
  <2>1. \A k \in 0 .. L : k \in Nat /\ k <= L
    OBVIOUS
  <2>2. \A k \in Nat : k <= L => f[k] \in Seq(Nat)
    BY <1>11
  <2> QED BY <2>1, <2>2
<1>13. f \in [0 .. L -> Seq(Nat)]
  BY <1>8, <1>12
<1> QED BY <1>7, <1>13 DEF f

\* Everyone who passes alone is sent on.
LEMMA SentAll ==
  ASSUME NEW alone, NEW L \in Nat
  PROVE  \A i \in 1 .. L : alone[i] => \E j \in DOMAIN SentUpTo(alone, L)[L] : SentUpTo(alone, L)[L][j] = i
<1> SUFFICES ASSUME NEW i \in 1 .. L, alone[i]
             PROVE  \E j \in DOMAIN SentUpTo(alone, L)[L] : SentUpTo(alone, L)[L][j] = i
  OBVIOUS
<1> DEFINE f == SentUpTo(alone, L)
           S == {n \in 0 .. L : n >= i => \E j \in DOMAIN f[n] : f[n][j] = i}
<1>1. f \in [0 .. L -> Seq(Nat)] /\ IsSent(alone, L, f)
  BY SentExists
<1> HIDE DEF f
<1>2. \A k \in 1 .. L : f[k] = IF alone[k] THEN Append(f[k - 1], k) ELSE f[k - 1]
  <2>1. \A k \in 1 .. L : k \in 0 .. L /\ k # 0
    OBVIOUS
  <2>2. \A k \in 0 .. L : f[k] = IF k = 0 THEN <<>> ELSE IF alone[k] THEN Append(f[k - 1], k) ELSE f[k - 1]
    BY <1>1 DEF IsSent
  <2> QED BY <2>1, <2>2
<1>3. 0 \in S
  OBVIOUS
<1>4. ASSUME NEW n \in 1 .. L, n - 1 \in S PROVE n \in S
  <2> SUFFICES ASSUME n >= i PROVE \E j \in DOMAIN f[n] : f[n][j] = i
    BY <1>4
  <2>1. n - 1 \in 0 .. L /\ f[n - 1] \in Seq(Nat) /\ n \in Nat
    BY <1>1
  <2> DEFINE s == f[n - 1]
  <2>2. /\ Append(s, n) \in Seq(Nat) /\ Len(s) \in Nat /\ Len(Append(s, n)) = Len(s) + 1
        /\ Append(s, n)[Len(s) + 1] = n
        /\ \A j \in 1 .. Len(s) : Append(s, n)[j] = s[j]
        /\ DOMAIN s = 1 .. Len(s) /\ DOMAIN Append(s, n) = 1 .. Len(s) + 1
    BY <2>1, AppendProperties, LenProperties
  <2> HIDE DEF s
  <2>3. f[n] = IF alone[n] THEN Append(s, n) ELSE s
    BY <1>2 DEF s
  <2>4. CASE n = i
    <3>1. Len(s) + 1 \in DOMAIN Append(s, n)
      BY <2>2
    <3> QED BY <2>2, <2>3, <2>4, <3>1
  <2>5. CASE n # i
    <3>1. PICK j \in DOMAIN s : s[j] = i
      <4>1. n - 1 >= i
        BY <2>5
      <4> QED BY <1>4, <4>1 DEF s
    <3>2. j \in 1 .. Len(s) /\ j \in DOMAIN Append(s, n)
      BY <2>2
    <3> QED BY <2>2, <2>3, <3>1, <3>2
  <2> QED BY <2>4, <2>5
<1>5. 0 .. L \subseteq S
  <2> HIDE DEF S
  <2> QED BY <1>3, <1>4, Along
<1>6. L \in S /\ L >= i
  BY <1>5
<1> QED BY <1>6 DEF f

LEMMA SentWhole ==
  \A alone, L, sent : L \in Nat /\ sent = SentUpTo(alone, L)[L] =>
    \A k \in 1 .. L : alone[k] => \E j \in DOMAIN sent : sent[j] = k
<1> TAKE alone, L, sent
<1> HAVE L \in Nat /\ sent = SentUpTo(alone, L)[L]
<1> QED BY SentAll

\* A batch of any length answers for each claim what the claim gets alone.
LEMMA BatchIsAlone ==
  ASSUME NEW T, NEW claims \in Seq(T), NEW e
  PROVE  Batch(claims, e) = [i \in DOMAIN claims |-> Groth16(claims[i], e)]
<1> DEFINE L == Len(claims)
           alone == [i \in DOMAIN claims |-> Groth16(claims[i], e)]
           sent == SentUpTo(alone, L)[L]
           Told(c) == Answer(c, PublicInputs(c.commitment, c.weight, e))
           answers == [j \in DOMAIN sent |-> Told(claims[sent[j]])]
<1>1. Batch(claims, e) = [i \in DOMAIN claims |-> alone[i] /\ \E j \in DOMAIN sent : sent[j] = i /\ answers[j]]
  BY DEF Batch, SentUpTo, IsSent
<1>2. L \in Nat /\ DOMAIN claims = 1 .. L
  BY LenProperties
<1>3. ASSUME NEW i \in DOMAIN claims
      PROVE  (alone[i] /\ \E j \in DOMAIN sent : sent[j] = i /\ answers[j]) = Groth16(claims[i], e)
  <2>1. alone[i] = Groth16(claims[i], e)
    OBVIOUS
  <2>2. Groth16(claims[i], e) => Told(claims[i])
    BY DEF Groth16
  <2>3. ASSUME Groth16(claims[i], e) PROVE \E j \in DOMAIN sent : sent[j] = i /\ answers[j]
    <3> HIDE DEF L, alone
    <3>1. PICK j \in DOMAIN sent : sent[j] = i
      <4>1. i \in 1 .. L /\ L \in Nat /\ alone[i]
        BY <1>2, <2>1, <2>3
      <4>2. \A k \in 1 .. L : alone[k] => \E j \in DOMAIN sent : sent[j] = k
        <5> HIDE DEF sent
        <5>1. sent = SentUpTo(alone, L)[L]
          BY DEF sent
        <5> QED BY <4>1, <5>1, SentWhole
      <4> HIDE DEF sent
      <4> QED BY <4>1, <4>2
    <3>2. answers[j] = Told(claims[i])
      BY <3>1
    <3> QED BY <2>2, <2>3, <3>1, <3>2
  <2>4. Groth16(claims[i], e) \in BOOLEAN
    BY DEF Groth16
  <2> HIDE DEF alone, sent, answers
  <2> QED BY <2>1, <2>3, <2>4
<1> HIDE DEF L, alone, sent, answers
<1> QED BY <1>1, <1>3

LEMMA ProofImplies == ProofIInv => ProofSystemInv
<1> SUFFICES ASSUME ProofIInv PROVE ProofSystemInv
  OBVIOUS
<1>1. ASSUME module # "unloaded", up, NEW claim \in Claims, NEW e \in Epoch
      PROVE  LET twin == [claim EXCEPT !.epoch = e] IN
             Batch(<<claim, twin>>, e) = <<Groth16(claim, e), Groth16(twin, e)>>
  <2> DEFINE twin == [claim EXCEPT !.epoch = e]
             claims == <<claim, twin>>
  <2> HIDE DEF twin
  <2>1. claims \in Seq({claim, twin}) /\ DOMAIN claims = 1 .. 2 /\ claims[1] = claim /\ claims[2] = twin
    OBVIOUS
  <2> HIDE DEF claims
  <2>2. Batch(claims, e) = [i \in 1 .. 2 |-> Groth16(claims[i], e)]
    BY <2>1, BatchIsAlone
  <2>3. <<Groth16(claim, e), Groth16(twin, e)>> = [i \in 1 .. 2 |-> Groth16(claims[i], e)]
    <3> DEFINE a == Groth16(claim, e)
               b == Groth16(twin, e)
               g == [i \in 1 .. 2 |-> Groth16(claims[i], e)]
    <3>1. g[1] = a /\ g[2] = b /\ DOMAIN g = 1 .. 2
      BY <2>1
    <3>2. g = [i \in 1 .. 2 |-> g[i]]
      OBVIOUS
    <3> HIDE DEF a, b, g
    <3> QED BY <3>1, <3>2 DEF a, b, g
  <2> QED BY <2>2, <2>3 DEF twin, claims
<1>2. AcceptedIsProved
  BY <1>1, AcceptedProved DEF AcceptedIsProved
<1> QED BY <1>2 DEF ProofSystemInv, ProofIInv

\* For any prime order, circuits, kernels, weights and epochs, whatever is contributed,
\* registered, proved, loaded and mocked in any order: the ceremony's key belongs to
\* itself, no process goes on with a verifier that its mode forbids, and what such a
\* verifier accepts was proved (crypto/zkp.ts, pq-zkp.ts, zkp_verify.rs).
THEOREM AcceptedWorkIsProved ==
  ASSUME ProofHypothesis
  PROVE  ProofSpec => []ProofSystemInv
<1>1. ProofInit => ProofIInv
  BY ProofStarts
<1>2. ProofIInv /\ [ProofNext]_proofVars => ProofIInv'
  BY ProofKeeps
<1> QED BY <1>1, <1>2, ProofImplies, PTL DEF ProofSpec

------------------------------------------------------------------------------
(* The broker: steps in turn                                                  *)

\* Each step is taken from what the ones before it left.
LEMMA InTurnIs ==
  ASSUME NEW b, NEW steps, Len(steps) \in Nat
  PROVE  \E f : /\ f[0] = b /\ InTurn(b, steps) = f[Len(steps)]
                /\ \A k \in 1 .. Len(steps) : f[k] = steps[k][f[k - 1]]
<1> DEFINE Step(f, k) == IF k = 0 THEN b ELSE steps[k][f[k - 1]]
           Is(f, n) == f = [k \in 0 .. n |-> Step(f, k)]
           N == {n \in Nat : \E f : Is(f, n)}
<1>1. 0 \in N
  <2> DEFINE f == [k \in 0 .. 0 |-> b]
  <2>1. Is(f, 0)
    BY SMT
  <2> QED BY <2>1
<1>2. ASSUME NEW n \in N PROVE n + 1 \in N
  <2>1. PICK f : Is(f, n)
    OBVIOUS
  <2>2. n \in Nat
    OBVIOUS
  <2> DEFINE g == [k \in 0 .. n + 1 |-> IF k = n + 1 THEN Step(f, k) ELSE f[k]]
  <2>3. \A k \in 0 .. n : f[k] = Step(f, k)
    BY <2>1
  <2>4. \A k \in 0 .. n + 1 : g[k] = Step(g, k)
    <3> SUFFICES ASSUME NEW k \in 0 .. n + 1 PROVE g[k] = Step(g, k)
      OBVIOUS
    <3>1. CASE k = 0
      BY <2>2, <2>3, <3>1
    <3>2. CASE k # 0
      <4>1. k - 1 \in 0 .. n /\ k - 1 # n + 1 /\ k - 1 \in 0 .. n + 1
        BY <2>2, <3>2
      <4>2. g[k - 1] = f[k - 1]
        BY <4>1
      <4>3. k # n + 1 => k \in 0 .. n
        BY <2>2
      <4> QED BY <2>3, <3>2, <4>2, <4>3
    <3> QED BY <3>1, <3>2
  <2>5. g = [k \in 0 .. n + 1 |-> g[k]]
    OBVIOUS
  <2> HIDE DEF g
  <2>6. Is(g, n + 1)
    BY <2>4, <2>5
  <2> HIDE DEF Is
  <2> QED BY <2>2, <2>6
<1>3. N = Nat
  <2>1. N \in SUBSET Nat
    OBVIOUS
  <2> HIDE DEF N
  <2> QED BY <1>1, <1>2, <2>1, Induction
<1> DEFINE n == Len(steps)
           f == CHOOSE f : Is(f, n)
<1>4. Is(f, n)
  <2>1. \E g : Is(g, n)
    BY <1>3
  <2> HIDE DEF Is, N
  <2> QED BY <2>1
<1>5. InTurn(b, steps) = f[n]
  BY DEF InTurn
<1> HIDE DEF f, N
<1>6. \A k \in 0 .. n : f[k] = Step(f, k)
  BY <1>4
<1>7. f[0] = b /\ \A k \in 1 .. n : f[k] = steps[k][f[k - 1]]
  BY <1>6
<1> QED BY <1>5, <1>7

\* If every step leads from its set to the next, all of them lead to the last.
LEMMA InTurnThrough ==
  ASSUME NEW b, NEW steps, Len(steps) \in Nat, NEW G, b \in G[0],
         \A k \in 1 .. Len(steps) : \A x \in G[k - 1] : steps[k][x] \in G[k]
  PROVE  InTurn(b, steps) \in G[Len(steps)]
<1> DEFINE n == Len(steps)
<1>1. PICK f : /\ f[0] = b /\ InTurn(b, steps) = f[n]
               /\ \A k \in 1 .. n : f[k] = steps[k][f[k - 1]]
  BY InTurnIs
<1> DEFINE S == {k \in 0 .. n : f[k] \in G[k]}
<1>2. 0 \in S /\ n \in 0 .. n
  BY <1>1
<1>3. ASSUME NEW k \in 1 .. n, k - 1 \in S PROVE k \in S
  BY <1>1, <1>3
<1>4. 0 .. n \subseteq S
  <2> HIDE DEF S
  <2> QED BY <1>2, <1>3, Along
<1> QED BY <1>1, <1>2, <1>4

\* A set that every step keeps is kept.
LEMMA InTurnKeeps ==
  ASSUME NEW steps, Len(steps) \in Nat, NEW G, NEW b \in G,
         \A k \in 1 .. Len(steps) : \A x \in G : steps[k][x] \in G
  PROVE  InTurn(b, steps) \in G
<1> DEFINE n == Len(steps)
           H == [k \in 0 .. n |-> G]
<1>1. 0 \in 0 .. n /\ n \in 0 .. n /\ \A k \in 1 .. n : k \in 0 .. n /\ k - 1 \in 0 .. n
  OBVIOUS
<1>2. b \in H[0] /\ H[n] = G /\ \A k \in 1 .. n : H[k - 1] = G /\ H[k] = G
  BY <1>1
<1> HIDE DEF H
<1> QED BY <1>2, InTurnThrough

LEMMA StepsLen ==
  ASSUME NEW n \in Nat, NEW f, f = [k \in 1 .. n |-> f[k]]
  PROVE  Len(f) = n
<1>1. f \in Seq({f[k] : k \in 1 .. n}) /\ DOMAIN f = 1 .. n
  BY IsASeq
<1> QED BY <1>1, LenProperties

LEMMA Larger ==
  ASSUME NEW x \in Int, NEW y \in Int
  PROVE  Max({x, y}) = IF x >= y THEN x ELSE y
<1> DEFINE m == IF x >= y THEN x ELSE y
<1>1. m \in {x, y} /\ \A z \in {x, y} : m >= z
  OBVIOUS
<1>2. Max({x, y}) \in {x, y} /\ \A z \in {x, y} : Max({x, y}) >= z
  BY <1>1 DEF Max
<1> QED BY <1>1, <1>2

LEMMA Smaller ==
  ASSUME NEW x \in Int, NEW y \in Int
  PROVE  Min({x, y}) = IF x <= y THEN x ELSE y
<1> DEFINE m == IF x <= y THEN x ELSE y
<1>1. m \in {x, y} /\ \A z \in {x, y} : m <= z
  OBVIOUS
<1>2. Min({x, y}) \in {x, y} /\ \A z \in {x, y} : Min({x, y}) <= z
  BY <1>1 DEF Min
<1> QED BY <1>1, <1>2

(* The broker: its parts                                                      *)

LEMMA BrokerParts ==
  ASSUME NEW b \in Broker
  PROVE  /\ b.nodes \in Seq(NodeState) /\ b.orderBook \subseteq Bid
         /\ b.assignments \in Seq(Assignment) /\ b.jgTaskQueue \in Seq(Task)
         /\ Len(b.nodes) \in Nat /\ DOMAIN b.nodes = 1 .. Len(b.nodes)
         /\ Len(b.assignments) \in Nat /\ DOMAIN b.assignments = 1 .. Len(b.assignments)
         /\ Len(b.jgTaskQueue) \in Nat /\ DOMAIN b.jgTaskQueue = 1 .. Len(b.jgTaskQueue)
         /\ \A i \in DOMAIN b.nodes :
              /\ b.nodes[i] \in NodeState
              /\ b.nodes[i].key \in ComputeNode /\ b.nodes[i].idle \in Nat
              /\ b.nodes[i].jgClusterTFLOPS \in Nat /\ b.nodes[i].brokerTFLOPS \in Nat
              /\ b.nodes[i].lastHeartbeatAt \in Nat
         /\ \A i \in DOMAIN b.assignments :
              /\ b.assignments[i] \in Assignment
              /\ b.assignments[i].node \in ComputeNode /\ b.assignments[i].amount \in Nat
              /\ b.assignments[i].work \in Bid \cup Task
<1>1. /\ b.nodes \in Seq(NodeState) /\ b.orderBook \subseteq Bid
      /\ b.assignments \in Seq(Assignment) /\ b.jgTaskQueue \in Seq(Task)
  BY DEF Broker
<1>2. /\ Len(b.nodes) \in Nat /\ DOMAIN b.nodes = 1 .. Len(b.nodes)
      /\ Len(b.assignments) \in Nat /\ DOMAIN b.assignments = 1 .. Len(b.assignments)
      /\ Len(b.jgTaskQueue) \in Nat /\ DOMAIN b.jgTaskQueue = 1 .. Len(b.jgTaskQueue)
  BY <1>1, LenProperties
<1>3. /\ \A i \in DOMAIN b.nodes : b.nodes[i] \in NodeState
      /\ \A i \in DOMAIN b.assignments : b.assignments[i] \in Assignment
  BY <1>1, <1>2, ElementOfSeq
<1>4. \A n \in NodeState : /\ n.key \in ComputeNode /\ n.idle \in Nat
                           /\ n.jgClusterTFLOPS \in Nat /\ n.brokerTFLOPS \in Nat
                           /\ n.lastHeartbeatAt \in Nat
  BY DEF NodeState
<1>5. \A a \in Assignment : a.node \in ComputeNode /\ a.amount \in Nat /\ a.work \in Bid \cup Task
  BY DEF Assignment
<1> HIDE DEF Broker
<1> QED BY <1>1, <1>2, <1>3, <1>4, <1>5

Counters == {"jgClusterTFLOPS", "brokerTFLOPS"}
Fits(b, i, amount) == i \in DOMAIN b.nodes /\ amount \in Nat /\ amount <= b.nodes[i].idle

LEMMA UsedIs ==
  ASSUME NEW node \in NodeState, NEW amount \in Nat, amount <= node.idle, NEW counter \in Counters,
         NEW new, new = Used(node, amount, counter)
  PROVE  /\ new \in NodeState /\ new.key = node.key /\ new.idle = node.idle - amount
         /\ new.lastHeartbeatAt = node.lastHeartbeatAt
<1> DEFINE left == node.idle - amount
<1>1. /\ node.idle \in Nat /\ left \in Nat /\ node.jgClusterTFLOPS + amount \in Nat
      /\ node.brokerTFLOPS + amount \in Nat
  BY DEF NodeState
<1>2. Max({0, left}) = left
  BY <1>1, Larger
<1> HIDE DEF left
<1>3. new = [node EXCEPT !.idle = left, ![counter] = @ + amount]
  BY <1>2 DEF Used, left
<1>4. CASE counter = "jgClusterTFLOPS"
  <2>1. new = [node EXCEPT !.idle = left, !.jgClusterTFLOPS = node.jgClusterTFLOPS + amount]
    BY <1>3, <1>4 DEF NodeState
  <2> QED BY <1>1, <2>1 DEF NodeState, left
<1>5. CASE counter = "brokerTFLOPS"
  <2>1. new = [node EXCEPT !.idle = left, !.brokerTFLOPS = node.brokerTFLOPS + amount]
    BY <1>3, <1>5 DEF NodeState
  <2> QED BY <1>1, <2>1 DEF NodeState, left
<1> QED BY <1>4, <1>5 DEF Counters

\* What an assignment changes: its node's idle capacity, and the list of them.
LEMMA AssignIs ==
  ASSUME NEW b \in Broker, NEW i, NEW amount, Fits(b, i, amount), NEW work \in Bid \cup Task,
         NEW counter \in Counters, NEW c, c = Assign(b, i, work, amount, counter)
  PROVE  /\ c \in Broker /\ c.orderBook = b.orderBook /\ c.jgTaskQueue = b.jgTaskQueue
         /\ Len(c.nodes) = Len(b.nodes)
         /\ \A j \in DOMAIN b.nodes :
              /\ c.nodes[j].key = b.nodes[j].key
              /\ c.nodes[j].lastHeartbeatAt = b.nodes[j].lastHeartbeatAt
              /\ c.nodes[j].idle = IF j = i THEN b.nodes[j].idle - amount ELSE b.nodes[j].idle
         /\ c.assignments = Append(b.assignments, [work |-> work, node |-> b.nodes[i].key,
                                                   amount |-> amount, status |-> "IN_PROGRESS"])
<1> DEFINE old == b.nodes[i]
           new == Used(old, amount, counter)
           a == [work |-> work, node |-> old.key, amount |-> amount, status |-> "IN_PROGRESS"]
<1>1. /\ old \in NodeState /\ i \in 1 .. Len(b.nodes) /\ b.nodes \in Seq(NodeState)
      /\ b.assignments \in Seq(Assignment) /\ DOMAIN b.nodes = 1 .. Len(b.nodes)
      /\ old.idle \in Nat /\ old.key \in ComputeNode
  BY BrokerParts DEF Fits
<1>2. Max({0, old.idle - amount}) = old.idle - amount
  BY <1>1, Larger DEF Fits
<1>3. /\ new \in NodeState /\ new.key = old.key /\ new.idle = old.idle - amount
      /\ new.lastHeartbeatAt = old.lastHeartbeatAt
  BY <1>1, UsedIs DEF Fits
<1>4. a \in Assignment
  BY <1>1 DEF Assignment, Fits
<1>5. /\ c = [b EXCEPT !.assignments = Append(@, a), !.nodes[i] = new]
  BY DEF Assign
<1> HIDE DEF new, a
<1>6. /\ c.orderBook = b.orderBook /\ c.jgTaskQueue = b.jgTaskQueue
      /\ c.assignments = Append(b.assignments, a) /\ c.nodes = [b.nodes EXCEPT ![i] = new]
  BY <1>5 DEF Broker
<1>7. /\ c.nodes \in Seq(NodeState) /\ Len(c.nodes) = Len(b.nodes)
      /\ \A j \in 1 .. Len(b.nodes) : c.nodes[j] = IF j = i THEN new ELSE b.nodes[j]
  BY <1>1, <1>3, <1>6, ExceptSeq
<1>8. c.assignments \in Seq(Assignment)
  BY <1>1, <1>4, <1>6, AppendProperties
<1>9. c \in Broker
  BY <1>5, <1>7, <1>8, <1>6 DEF Broker
<1> QED BY <1>1, <1>3, <1>6, <1>7, <1>9 DEF a

\* What is given on a node, in the assignments of some set.
LEMMA GivenType ==
  ASSUME NEW b \in Broker, NEW S \in SUBSET DOMAIN b.assignments
  PROVE  IsFiniteSet(S) /\ Sum(Amounts(b), S) \in Nat /\ \A i \in S : Amounts(b)[i] \in Nat
<1>1. /\ Len(b.assignments) \in Nat /\ DOMAIN b.assignments = 1 .. Len(b.assignments)
      /\ \A i \in DOMAIN b.assignments : b.assignments[i].amount \in Nat
  BY BrokerParts
<1>2. IsFiniteSet(S)
  <2>1. IsFiniteSet(1 .. Len(b.assignments)) /\ S \subseteq 1 .. Len(b.assignments)
    BY <1>1, FS_Interval
  <2> QED BY <2>1, FS_Subset
<1>3. \A i \in S : Amounts(b)[i] \in Nat
  BY <1>1 DEF Amounts
<1> QED BY <1>2, <1>3, SumNatural

Adds(c, b, a) == c.assignments = Append(b.assignments, a)

\* The assignments made since, and the work on a node and of bids, grow by one.
LEMMA AppendedAssignment ==
  ASSUME NEW b \in Broker, NEW c \in Broker, NEW a \in Assignment, a.status = "IN_PROGRESS",
         Adds(c, b, a), NEW n, n = Len(b.assignments) + 1
  PROVE  /\ Len(c.assignments) = n /\ c.assignments[n] = a
         /\ \A i \in DOMAIN b.assignments : c.assignments[i] = b.assignments[i] /\ i \in DOMAIN c.assignments
         /\ Live(c) = Live(b) \cup {n}
<1> DEFINE m == Len(b.assignments)
<1>1. /\ b.assignments \in Seq(Assignment) /\ c.assignments \in Seq(Assignment) /\ m \in Nat
      /\ DOMAIN b.assignments = 1 .. m /\ DOMAIN c.assignments = 1 .. Len(c.assignments)
  BY BrokerParts
<1>2. /\ Len(c.assignments) = n /\ c.assignments[n] = a
      /\ \A i \in 1 .. m : c.assignments[i] = b.assignments[i]
  BY <1>1 DEF Adds
<1>3. Live(c) = Live(b) \cup {n}
  <2>1. DOMAIN c.assignments = 1 .. m + 1 /\ n = m + 1
    BY <1>1, <1>2
  <2>2. ASSUME NEW i \in 1 .. m PROVE i \in Live(c) <=> i \in Live(b)
    BY <1>1, <1>2, <2>1 DEF Live
  <2>3. n \in Live(c)
    BY <1>1, <1>2, <2>1 DEF Live
  <2>4. Live(b) \subseteq 1 .. m /\ Live(c) \subseteq 1 .. m + 1
    BY <1>1, <2>1 DEF Live
  <2>5. \A i \in 1 .. m + 1 : i = n \/ i \in 1 .. m
    BY <1>1, <2>1
  <2> QED BY <2>2, <2>3, <2>4, <2>5
<1>5. \A i \in DOMAIN b.assignments : c.assignments[i] = b.assignments[i] /\ i \in DOMAIN c.assignments
  BY <1>1, <1>2
<1> QED BY <1>2, <1>3, <1>5

Gains(c, b, a, n) == \A S \in SUBSET DOMAIN b.assignments :
  /\ Sum(Amounts(c), S) = Sum(Amounts(b), S)
  /\ Sum(Amounts(c), S \cup {n}) = Sum(Amounts(b), S) + a.amount

LEMMA AppendedSum ==
  ASSUME NEW b \in Broker, NEW c \in Broker, NEW a \in Assignment, a.status = "IN_PROGRESS",
         Adds(c, b, a), NEW n, n = Len(b.assignments) + 1
  PROVE  Gains(c, b, a, n)
<1> SUFFICES ASSUME NEW S \in SUBSET DOMAIN b.assignments
             PROVE  /\ Sum(Amounts(c), S) = Sum(Amounts(b), S)
                    /\ Sum(Amounts(c), S \cup {n}) = Sum(Amounts(b), S) + a.amount
  BY DEF Gains
<1>1. /\ Len(b.assignments) \in Nat /\ DOMAIN b.assignments = 1 .. Len(b.assignments)
      /\ a.amount \in Nat /\ DOMAIN c.assignments = 1 .. Len(c.assignments)
  BY BrokerParts DEF Assignment
<1>2. /\ Len(c.assignments) = n /\ c.assignments[n] = a
      /\ \A i \in DOMAIN b.assignments : c.assignments[i] = b.assignments[i] /\ i \in DOMAIN c.assignments
  BY AppendedAssignment
<1>3. IsFiniteSet(S) /\ \A i \in S : Amounts(b)[i] \in Nat
  BY GivenType
<1>4. \A i \in S : Amounts(b)[i] = Amounts(c)[i]
  BY <1>1, <1>2 DEF Amounts
<1>5. n \notin S /\ Amounts(c)[n] = a.amount
  BY <1>1, <1>2 DEF Amounts
<1>6. \A i \in S : Amounts(b)[i] \in Int /\ Amounts(c)[i] \in Int
  BY <1>3, <1>4
<1>7. Sum(Amounts(c), S) = Sum(Amounts(b), S)
  BY <1>3, <1>4, <1>6, SumSame
<1>8. Sum(Amounts(c), S \cup {n}) = a.amount + Sum(Amounts(c), S)
  BY <1>1, <1>3, <1>5, <1>6, SumAdd
<1>9. Sum(Amounts(b), S) \in Nat
  BY GivenType
<1> QED BY <1>1, <1>7, <1>8, <1>9

-----------------------------------------------------------------------------
(* The broker: what its steps keep                                            *)

Apart(b) == \A i, j \in DOMAIN b.nodes : b.nodes[i].key = b.nodes[j].key => i = j

\* Work under way is on a registered node, or left for the one that is failing it.
Backed(b, left) == \A i \in Live(b) :
  b.assignments[i].node \in Registered(b) \/ <<i, b.assignments[i].node>> \in left

Within(b) == \A i \in DOMAIN b.nodes :
  b.nodes[i].idle + Given(b, b.nodes[i].key) <= Capacity[b.nodes[i].key]

\* No bid was given anything since.
Fresh(b, before) == \A i \in Live(b) : i > before => b.assignments[i].work \notin Bid

\* What may be asked of a broker inside of a call: its nodes are among some, some
\* assignments are left to be failed, and a number were there before the call.
Frame == [keys : SUBSET ComputeNode, left : SUBSET (Nat \X ComputeNode), before : Nat,
          claims : SUBSET {"apart", "within"}]
Strict(p) == "apart" \in p.claims
Exact(p) == "within" \in p.claims

Holding(p) == {b \in Broker :
  Strict(p) => /\ Apart(b) /\ Registered(b) \subseteq p.keys /\ Backed(b, p.left)
               /\ Fresh(b, p.before) \/ TaskServed(b, p.before)
               /\ Exact(p) => Within(b)}

Settled(p) == {b \in Holding(p) : Strict(p) => TaskServed(b, p.before)}

LEMMA OnIs ==
  ASSUME NEW b \in Broker, NEW key
  PROVE  /\ On(b, key) \subseteq DOMAIN b.assignments /\ Live(b) \subseteq DOMAIN b.assignments
         /\ Given(b, key) = Sum(Amounts(b), On(b, key)) /\ Given(b, key) \in Nat
<1>1. On(b, key) \subseteq DOMAIN b.assignments /\ Live(b) \subseteq DOMAIN b.assignments
  BY DEF On, Live
<1>2. Given(b, key) = Sum(Amounts(b), On(b, key))
  BY DEF Given, Sum
<1>3. Sum(Amounts(b), On(b, key)) \in Nat
  BY <1>1, GivenType
<1> QED BY <1>1, <1>2, <1>3

Since(b, before, key) == {i \in On(b, key) : i > before /\ b.assignments[i].work \in Bid}

LEMMA ToBidsIs ==
  ASSUME NEW b \in Broker, NEW before \in Nat, NEW key
  PROVE  /\ Since(b, before, key) \subseteq DOMAIN b.assignments
         /\ ToBids(b, before, key) = Sum(Amounts(b), Since(b, before, key))
         /\ ToBids(b, before, key) \in Nat
<1>1. Since(b, before, key) \subseteq DOMAIN b.assignments
  BY OnIs DEF Since
<1>2. ToBids(b, before, key) = Sum(Amounts(b), Since(b, before, key))
  BY DEF ToBids, Sum, Since
<1>3. Sum(Amounts(b), Since(b, before, key)) \in Nat
  BY <1>1, GivenType
<1> QED BY <1>1, <1>2, <1>3

\* An assignment is charged to its node alone.
LEMMA AssignCharges ==
  ASSUME NEW b \in Broker, NEW i, NEW amount, Fits(b, i, amount), NEW work \in Bid \cup Task,
         NEW counter \in Counters, NEW c, c = Assign(b, i, work, amount, counter), NEW before \in Nat
  PROVE  /\ \A key : Given(c, key) = Given(b, key) + IF key = b.nodes[i].key THEN amount ELSE 0
         /\ \A key : ToBids(c, before, key) <= ToBids(b, before, key) +
                        IF key = b.nodes[i].key THEN amount ELSE 0
         /\ work \in Task \ Bid /\ Fresh(b, before) => Fresh(c, before)
<1> DEFINE n == Len(b.assignments) + 1
           own == b.nodes[i].key
           a == [work |-> work, node |-> own, amount |-> amount, status |-> "IN_PROGRESS"]
<1>1. c \in Broker /\ Adds(c, b, a)
  BY AssignIs DEF Adds
<1>2. /\ a.amount = amount /\ a.status = "IN_PROGRESS" /\ a.node = own /\ a.work = work
      /\ amount \in Nat /\ a \in Assignment /\ n = Len(b.assignments) + 1
  BY BrokerParts DEF Fits, Assignment
<1> HIDE DEF a, n
<1>3. /\ c.assignments[n] = a /\ Live(c) = Live(b) \cup {n}
      /\ \A k \in DOMAIN b.assignments : c.assignments[k] = b.assignments[k]
      /\ \A S \in SUBSET DOMAIN b.assignments :
              /\ Sum(Amounts(c), S) = Sum(Amounts(b), S)
              /\ Sum(Amounts(c), S \cup {n}) = Sum(Amounts(b), S) + amount
  <2>1. c.assignments[n] = a /\ Live(c) = Live(b) \cup {n}
    BY <1>1, <1>2, AppendedAssignment
  <2>2. \A k \in DOMAIN b.assignments : c.assignments[k] = b.assignments[k]
    BY <1>1, <1>2, AppendedAssignment
  <2>3. Gains(c, b, a, n)
    BY <1>1, <1>2, AppendedSum
  <2> QED BY <1>2, <2>1, <2>2, <2>3 DEF Gains
<1>4. Live(b) \subseteq DOMAIN b.assignments
  BY OnIs
<1>5. ASSUME NEW key PROVE Given(c, key) = Given(b, key) + IF key = own THEN amount ELSE 0
  <2>1. On(c, key) = IF key = own THEN On(b, key) \cup {n} ELSE On(b, key)
    BY <1>2, <1>3, <1>4 DEF On
  <2>2. On(b, key) \in SUBSET DOMAIN b.assignments /\ Given(b, key) = Sum(Amounts(b), On(b, key))
        /\ Given(c, key) = Sum(Amounts(c), On(c, key)) /\ Given(b, key) \in Nat
    BY <1>1, OnIs
  <2>3. /\ Sum(Amounts(c), On(b, key)) = Sum(Amounts(b), On(b, key))
        /\ Sum(Amounts(c), On(b, key) \cup {n}) = Sum(Amounts(b), On(b, key)) + amount
    BY <1>3, <2>2
  <2> QED BY <2>1, <2>2, <2>3, <1>2
<1>6. ASSUME NEW key
      PROVE  ToBids(c, before, key) <= ToBids(b, before, key) + IF key = own THEN amount ELSE 0
  <2> DEFINE S == Since(b, before, key)
  <2>1. Since(c, before, key) = S \/ (key = own /\ Since(c, before, key) = S \cup {n})
    BY <1>2, <1>3, <1>4 DEF On, Since
  <2>2. S \in SUBSET DOMAIN b.assignments /\ ToBids(b, before, key) = Sum(Amounts(b), S)
        /\ ToBids(c, before, key) = Sum(Amounts(c), Since(c, before, key))
        /\ ToBids(b, before, key) \in Nat
    BY <1>1, ToBidsIs
  <2>3. /\ Sum(Amounts(c), S) = Sum(Amounts(b), S)
        /\ Sum(Amounts(c), S \cup {n}) = Sum(Amounts(b), S) + amount
    BY <1>3, <2>2
  <2> DEFINE more == IF key = own THEN amount ELSE 0
  <2>4. \/ Sum(Amounts(c), Since(c, before, key)) = ToBids(b, before, key)
        \/ key = own /\ Sum(Amounts(c), Since(c, before, key)) = ToBids(b, before, key) + amount
    BY <2>1, <2>2, <2>3
  <2> HIDE DEF S
  <2>5. \/ ToBids(c, before, key) = ToBids(b, before, key)
        \/ key = own /\ ToBids(c, before, key) = ToBids(b, before, key) + amount
    BY <2>2, <2>4
  <2> QED BY <2>2, <2>5, <1>2
<1>7. work \in Task \ Bid /\ Fresh(b, before) => Fresh(c, before)
  BY <1>2, <1>3, <1>4 DEF Fresh
<1> QED BY <1>5, <1>6, <1>7

LEMMA AssignKeeps ==
  ASSUME BrokerHypothesis, NEW p \in Frame, NEW b \in Holding(p), NEW i, NEW amount, Fits(b, i, amount),
         NEW work \in Bid \cup Task, NEW counter \in Counters,
         NEW c, c = Assign(b, i, work, amount, counter)
  PROVE  /\ c \in Broker /\ c.jgTaskQueue = b.jgTaskQueue
         /\ Strict(p) => Apart(c) /\ Registered(c) \subseteq p.keys /\ Backed(c, p.left)
         /\ Strict(p) /\ Exact(p) => Within(c)
         /\ work \in Task /\ Fresh(b, p.before) => Fresh(c, p.before)
         /\ Strict(p) /\ TaskServed(b, p.before) => TaskServed(c, p.before)
<1> DEFINE own == b.nodes[i].key
           n == Len(b.assignments) + 1
           a == [work |-> work, node |-> own, amount |-> amount, status |-> "IN_PROGRESS"]
<1>0. b \in Broker /\ p.before \in Nat /\ Bid \cap Task = {}
  BY DEF Holding, Frame, BrokerHypothesis
<1>1. /\ c \in Broker /\ c.jgTaskQueue = b.jgTaskQueue /\ Len(c.nodes) = Len(b.nodes)
      /\ \A j \in DOMAIN b.nodes :
              /\ c.nodes[j].key = b.nodes[j].key
              /\ c.nodes[j].lastHeartbeatAt = b.nodes[j].lastHeartbeatAt
              /\ c.nodes[j].idle = IF j = i THEN b.nodes[j].idle - amount ELSE b.nodes[j].idle
      /\ Adds(c, b, a)
  BY <1>0, AssignIs DEF Adds
<1>2. /\ a.amount = amount /\ a.status = "IN_PROGRESS" /\ a.node = own /\ a.work = work
      /\ amount \in Nat /\ a \in Assignment /\ n = Len(b.assignments) + 1
      /\ i \in DOMAIN b.nodes /\ amount <= b.nodes[i].idle
  BY <1>0, BrokerParts DEF Fits, Assignment
<1> HIDE DEF a, n
<1>3. DOMAIN c.nodes = DOMAIN b.nodes /\ \A j \in DOMAIN b.nodes : b.nodes[j].idle \in Nat
      /\ b.nodes[j].key \in ComputeNode
  BY <1>0, <1>1, BrokerParts
<1>4. Registered(c) = Registered(b) /\ (Apart(b) => Apart(c))
  BY <1>1, <1>3 DEF Registered, Apart
<1>5. ASSUME Strict(p) PROVE Registered(c) \subseteq p.keys /\ Backed(c, p.left)
  <2>0. Registered(b) \subseteq p.keys /\ Backed(b, p.left)
    BY <1>5 DEF Holding
  <2>1. /\ c.assignments[n] = a /\ Live(c) = Live(b) \cup {n} /\ Live(b) \subseteq DOMAIN b.assignments
        /\ \A k \in DOMAIN b.assignments : c.assignments[k] = b.assignments[k]
    <3>1. c.assignments[n] = a /\ Live(c) = Live(b) \cup {n}
      BY <1>0, <1>1, <1>2, AppendedAssignment
    <3>2. \A k \in DOMAIN b.assignments : c.assignments[k] = b.assignments[k]
      BY <1>0, <1>1, <1>2, AppendedAssignment
    <3> QED BY <1>0, <3>1, <3>2, OnIs
  <2>2. own \in Registered(b)
    BY <1>2 DEF Registered
  <2> QED BY <1>2, <1>4, <2>0, <2>1, <2>2 DEF Backed
<1>6. /\ \A key : Given(c, key) = Given(b, key) + IF key = b.nodes[i].key THEN amount ELSE 0
      /\ \A key : ToBids(c, p.before, key) <= ToBids(b, p.before, key) +
                        IF key = b.nodes[i].key THEN amount ELSE 0
      /\ work \in Task \ Bid /\ Fresh(b, p.before) => Fresh(c, p.before)
  BY <1>0, AssignCharges
<1>7. Apart(b) /\ Within(b) => Within(c)
  <2> SUFFICES ASSUME Apart(b), Within(b), NEW j \in DOMAIN c.nodes
               PROVE  c.nodes[j].idle + Given(c, c.nodes[j].key) <= Capacity[c.nodes[j].key]
    BY DEF Within
  <2>1. b.nodes[j].idle + Given(b, b.nodes[j].key) <= Capacity[b.nodes[j].key]
        /\ Given(b, b.nodes[j].key) \in Nat /\ Capacity[b.nodes[j].key] \in Nat
    BY <1>0, <1>3, OnIs DEF Within, BrokerHypothesis
  <2>2. b.nodes[j].key = own <=> j = i
    BY <1>2, <1>3 DEF Apart
  <2>3. /\ c.nodes[j].key = b.nodes[j].key
        /\ c.nodes[j].idle = IF j = i THEN b.nodes[j].idle - amount ELSE b.nodes[j].idle
        /\ b.nodes[j].idle \in Nat
    BY <1>1, <1>3
  <2>4. Given(c, b.nodes[j].key) = Given(b, b.nodes[j].key) + IF j = i THEN amount ELSE 0
    BY <1>6, <2>2
  <2> HIDE DEF own
  <2> QED BY <1>2, <2>1, <2>3, <2>4
<1>8. Apart(b) /\ TaskServed(b, p.before) => TaskServed(c, p.before)
  <2> DEFINE task == Head(b.jgTaskQueue)
  <2> SUFFICES ASSUME Apart(b), TaskServed(b, p.before), b.jgTaskQueue # <<>>, NEW j \in DOMAIN c.nodes,
                      <<c.nodes[j].key, task>> \in Supports, ~Stale(c.nodes[j])
               PROVE  c.nodes[j].idle + ToBids(c, p.before, c.nodes[j].key) < Demand[task]
    BY <1>1 DEF TaskServed
  <2>1. <<b.nodes[j].key, task>> \in Supports /\ ~Stale(b.nodes[j])
    BY <1>1, <1>3 DEF Stale
  <2>2. b.nodes[j].idle + ToBids(b, p.before, b.nodes[j].key) < Demand[task]
    BY <1>3, <2>1 DEF TaskServed
  <2>3. ToBids(b, p.before, b.nodes[j].key) \in Nat /\ ToBids(c, p.before, b.nodes[j].key) \in Nat
    BY <1>0, <1>1, ToBidsIs
  <2>4. task \in Task
    <3>1. b.jgTaskQueue \in Seq(Task)
      BY <1>0, BrokerParts
    <3> QED BY <3>1
  <2>5. Demand[task] \in Int
    BY <2>4 DEF BrokerHypothesis
  <2>6. b.nodes[j].key = own <=> j = i
    BY <1>2, <1>3 DEF Apart
  <2>7. /\ c.nodes[j].key = b.nodes[j].key
        /\ c.nodes[j].idle = IF j = i THEN b.nodes[j].idle - amount ELSE b.nodes[j].idle
        /\ b.nodes[j].idle \in Nat
    BY <1>1, <1>3
  <2>8. ToBids(c, p.before, b.nodes[j].key)
          <= ToBids(b, p.before, b.nodes[j].key) + IF j = i THEN amount ELSE 0
    BY <1>6, <2>6
  <2> HIDE DEF task, own
  <2>9. CASE j = i
    <3>1. /\ c.nodes[j].idle = b.nodes[j].idle - amount
          /\ ToBids(c, p.before, b.nodes[j].key) <= ToBids(b, p.before, b.nodes[j].key) + amount
      BY <2>7, <2>8, <2>9
    <3> QED BY <1>2, <2>2, <2>3, <2>5, <2>7, <3>1
  <2>10. CASE j # i
    <3>1. /\ c.nodes[j].idle = b.nodes[j].idle
          /\ ToBids(c, p.before, b.nodes[j].key) <= ToBids(b, p.before, b.nodes[j].key) + 0
      BY <2>7, <2>8, <2>10
    <3> QED BY <2>2, <2>3, <2>5, <2>7, <3>1
  <2> QED BY <2>9, <2>10
<1>9. Strict(p) => Apart(b)
  BY DEF Holding
<1>10. Strict(p) /\ Exact(p) => Within(b)
  BY DEF Holding
<1> QED BY <1>0, <1>1, <1>4, <1>5, <1>6, <1>7, <1>8, <1>9, <1>10

\* The queue and the order book are apart from the work.
LEMMA SameWork ==
  ASSUME NEW b \in Broker, NEW c \in Broker, c.nodes = b.nodes, c.assignments = b.assignments
  PROVE  /\ Registered(c) = Registered(b) /\ (Apart(b) => Apart(c)) /\ (Within(b) => Within(c))
         /\ \A left : Backed(b, left) => Backed(c, left)
         /\ \A before : Fresh(b, before) => Fresh(c, before)
         /\ \A before, key : ToBids(c, before, key) = ToBids(b, before, key)
<1>1. /\ Registered(c) = Registered(b) /\ Live(c) = Live(b) /\ Amounts(c) = Amounts(b)
      /\ (Apart(b) => Apart(c))
  BY DEF Registered, Live, Amounts, Apart
<1>2. \A key : On(c, key) = On(b, key)
  BY <1>1 DEF On
<1>3. \A key : Given(c, key) = Given(b, key)
  BY <1>1, <1>2 DEF Given
<1>4. \A before, key : ToBids(c, before, key) = ToBids(b, before, key)
  BY <1>1, <1>2 DEF ToBids
<1>5. Within(b) => Within(c)
  BY <1>3 DEF Within
<1>6. \A left : Backed(b, left) => Backed(c, left)
  BY <1>1 DEF Backed
<1>7. \A before : Fresh(b, before) => Fresh(c, before)
  BY <1>1 DEF Fresh
<1> QED BY <1>1, <1>4, <1>5, <1>6, <1>7

LEMMA SameServed ==
  ASSUME NEW b \in Broker, NEW c \in Broker, c.nodes = b.nodes, c.assignments = b.assignments,
         c.jgTaskQueue = b.jgTaskQueue, NEW before, TaskServed(b, before)
  PROVE  TaskServed(c, before)
<1>1. \A key : ToBids(c, before, key) = ToBids(b, before, key)
  BY SameWork
<1> QED BY <1>1 DEF TaskServed

-----------------------------------------------------------------------------
(* The broker: the allocation cycle                                           *)

\* Of finitely many places one is the first of the best.
LEMMA BestOf ==
  ASSUME NEW S, IsFiniteSet(S), S \subseteq Int, S # {}, NEW f, \A x \in S : f[x] \in Int
  PROVE  \E i \in S : \A j \in S : f[i] > f[j] \/ (f[i] = f[j] /\ i <= j)
<1> DEFINE Top(s, i) == i \in s /\ \A j \in s : f[i] > f[j] \/ (f[i] = f[j] /\ i <= j)
           F == {s \in SUBSET S : s = {} \/ \E i \in s : Top(s, i)}
<1>1. {} \in F
  OBVIOUS
<1>2. ASSUME NEW s \in SUBSET S, NEW x \in S \ s, s \in F PROVE s \cup {x} \in F
  <2>1. x \in Int /\ f[x] \in Int
    OBVIOUS
  <2>2. CASE s = {}
    BY <2>1, <2>2
  <2>3. CASE s # {}
    <3>1. PICK i \in s : Top(s, i)
      BY <1>2, <2>3
    <3>2. i \in Int /\ f[i] \in Int /\ \A j \in s : j \in Int /\ f[j] \in Int
      OBVIOUS
    <3>3. Top(s \cup {x}, i) \/ Top(s \cup {x}, x)
      BY <2>1, <3>1, <3>2
    <3> HIDE DEF Top
    <3> QED BY <3>1, <3>3
  <2> QED BY <2>2, <2>3
<1>3. S \in F
  <2> HIDE DEF F
  <2> QED BY <1>1, <1>2, FiniteInduction
<1> QED BY <1>3

LEMMA BestServes ==
  ASSUME NEW b \in Broker, NEW work, HasNode(b, work)
  PROVE  Best(b, work) \in DOMAIN b.nodes /\ Serves(b, Best(b, work), work)
<1> DEFINE fit == {i \in DOMAIN b.nodes : Serves(b, i, work)}
           f == [i \in fit |-> b.nodes[i].idle]
<1>1. Len(b.nodes) \in Nat /\ DOMAIN b.nodes = 1 .. Len(b.nodes)
      /\ \A i \in DOMAIN b.nodes : b.nodes[i].idle \in Nat
  BY BrokerParts
<1>2. IsFiniteSet(fit) /\ fit \subseteq Int /\ fit # {} /\ \A x \in fit : f[x] \in Int
  <2>1. IsFiniteSet(1 .. Len(b.nodes)) /\ fit \subseteq 1 .. Len(b.nodes)
    <3>1. IsFiniteSet(1 .. Len(b.nodes))
      BY <1>1, FS_Interval
    <3>2. fit \subseteq 1 .. Len(b.nodes)
      BY <1>1
    <3> QED BY <3>1, <3>2
  <2>2. IsFiniteSet(fit)
    BY <2>1, FS_Subset
  <2> QED BY <1>1, <2>2 DEF HasNode
<1>3. \E i \in fit : \A j \in fit : f[i] > f[j] \/ (f[i] = f[j] /\ i <= j)
  <2> HIDE DEF fit, f
  <2> QED BY <1>2, BestOf
<1>4. \E i \in fit : \A j \in fit :
        \/ b.nodes[i].idle > b.nodes[j].idle
        \/ b.nodes[i].idle = b.nodes[j].idle /\ i <= j
  BY <1>3
<1>5. Best(b, work) \in fit
  <2> HIDE DEF fit
  <2> QED BY <1>4 DEF Best, fit
<1> QED BY <1>5

Stuck(b) == b.jgTaskQueue = <<>> \/ ~HasNode(b, Head(b.jgTaskQueue))

LEMMA HeadIsTask ==
  ASSUME BrokerHypothesis, NEW b \in Broker, b.jgTaskQueue # <<>>
  PROVE  /\ Head(b.jgTaskQueue) \in Task \ Bid /\ Tail(b.jgTaskQueue) \in Seq(Task)
         /\ Len(Tail(b.jgTaskQueue)) = Len(b.jgTaskQueue) - 1
         /\ Demand[Head(b.jgTaskQueue)] \in Nat \ {0}
         /\ AtLeast[Head(b.jgTaskQueue)] = Demand[Head(b.jgTaskQueue)]
<1>1. b.jgTaskQueue \in Seq(Task)
  BY BrokerParts
<1>2. /\ Head(b.jgTaskQueue) \in Task /\ Tail(b.jgTaskQueue) \in Seq(Task)
      /\ Len(Tail(b.jgTaskQueue)) = Len(b.jgTaskQueue) - 1
  BY <1>1, HeadTailProperties
<1> QED BY <1>2 DEF BrokerHypothesis

\* A task that bids were not served before cannot wait for a node that serves it.
LEMMA ServedIsStuck ==
  ASSUME BrokerHypothesis, NEW b \in Broker, NEW before \in Nat
  PROVE  /\ TaskServed(b, before) => Stuck(b)
         /\ Fresh(b, before) /\ Stuck(b) => TaskServed(b, before)
<1> DEFINE task == Head(b.jgTaskQueue)
<1>1. b.jgTaskQueue # <<>> => Demand[task] \in Nat \ {0} /\ AtLeast[task] = Demand[task]
  BY HeadIsTask
<1>2. \A i \in DOMAIN b.nodes :
         b.nodes[i].idle \in Nat /\ ToBids(b, before, b.nodes[i].key) \in Nat
  BY BrokerParts, ToBidsIs
<1>3. TaskServed(b, before) => Stuck(b)
  <2> SUFFICES ASSUME TaskServed(b, before), b.jgTaskQueue # <<>>, NEW i \in DOMAIN b.nodes,
                      Serves(b, i, task)
               PROVE  FALSE
    BY DEF Stuck, HasNode
  <2>1. b.nodes[i].idle + ToBids(b, before, b.nodes[i].key) < Demand[task]
    BY DEF TaskServed, Serves
  <2>2. b.nodes[i].idle >= Demand[task]
    BY <1>1 DEF Serves
  <2> HIDE DEF task
  <2> QED BY <1>1, <1>2, <2>1, <2>2
<1>4. Fresh(b, before) /\ Stuck(b) => TaskServed(b, before)
  <2> SUFFICES ASSUME Fresh(b, before), Stuck(b), b.jgTaskQueue # <<>>, NEW i \in DOMAIN b.nodes,
                      <<b.nodes[i].key, task>> \in Supports, ~Stale(b.nodes[i])
               PROVE  b.nodes[i].idle + ToBids(b, before, b.nodes[i].key) < Demand[task]
    BY DEF TaskServed
  <2>1. ~(b.nodes[i].idle > 0 /\ b.nodes[i].idle >= AtLeast[task])
    BY DEF Stuck, HasNode, Serves
  <2>2. Since(b, before, b.nodes[i].key) = {}
    BY DEF Since, On, Fresh
  <2>3. ToBids(b, before, b.nodes[i].key) = 0
    <3>1. ToBids(b, before, b.nodes[i].key) = Sum(Amounts(b), Since(b, before, b.nodes[i].key))
      BY ToBidsIs
    <3>2. Sum(Amounts(b), {}) = 0
      BY SumEmpty
    <3> QED BY <2>2, <3>1, <3>2
  <2> HIDE DEF task
  <2> QED BY <1>1, <1>2, <2>1, <2>3
<1> QED BY <1>3, <1>4

LEMMA ServeHeadKeeps ==
  ASSUME BrokerHypothesis, NEW p \in Frame, NEW b \in Holding(p)
  PROVE  /\ ServeHead(b) \in Holding(p)
         /\ Stuck(b) => ServeHead(b) = b
         /\ ~Stuck(b) => Len(ServeHead(b).jgTaskQueue) = Len(b.jgTaskQueue) - 1
<1>0. b \in Broker /\ p.before \in Nat
  BY DEF Holding, Frame
<1>1. Stuck(b) => ServeHead(b) = b
  BY DEF Stuck, ServeHead
<1>2. ASSUME ~Stuck(b)
      PROVE  ServeHead(b) \in Holding(p) /\ Len(ServeHead(b).jgTaskQueue) = Len(b.jgTaskQueue) - 1
  <2> DEFINE task == Head(b.jgTaskQueue)
             i == Best(b, task)
             c == Assign(b, i, task, Demand[task], "jgClusterTFLOPS")
             d == [c EXCEPT !.jgTaskQueue = Tail(@)]
  <2>1. b.jgTaskQueue # <<>> /\ HasNode(b, task) /\ ServeHead(b) = d
    BY <1>2 DEF Stuck, ServeHead
  <2>2. /\ task \in Task \ Bid /\ Tail(b.jgTaskQueue) \in Seq(Task)
        /\ Len(Tail(b.jgTaskQueue)) = Len(b.jgTaskQueue) - 1
        /\ Demand[task] \in Nat \ {0} /\ AtLeast[task] = Demand[task]
    BY <1>0, <2>1, HeadIsTask
  <2> HIDE DEF task
  <2>3. Fits(b, i, Demand[task])
    <3>1. i \in DOMAIN b.nodes /\ Serves(b, i, task)
      BY <1>0, <2>1, BestServes
    <3>2. b.nodes[i].idle \in Nat
      BY <1>0, <3>1, BrokerParts
    <3> HIDE DEF i
    <3> QED BY <2>2, <3>1, <3>2 DEF Fits, Serves
  <2>4. task \in Bid \cup Task /\ "jgClusterTFLOPS" \in Counters
    BY <2>2 DEF Counters
  <2> HIDE DEF i
  <2>5. /\ c \in Broker
        /\ Strict(p) => Apart(c) /\ Registered(c) \subseteq p.keys /\ Backed(c, p.left)
        /\ Strict(p) /\ Exact(p) => Within(c)
        /\ Fresh(b, p.before) => Fresh(c, p.before)
    BY <2>2, <2>3, <2>4, AssignKeeps
  <2>6. c.jgTaskQueue = b.jgTaskQueue
    BY <2>2, <2>3, <2>4, AssignKeeps
  <2>7. Strict(p) => Fresh(b, p.before)
    BY <1>0, <1>2, ServedIsStuck DEF Holding
  <2> HIDE DEF c
  <2>8. d \in Broker /\ d.nodes = c.nodes /\ d.assignments = c.assignments
        /\ d.jgTaskQueue = Tail(b.jgTaskQueue)
    BY <2>2, <2>5, <2>6 DEF Broker
  <2> HIDE DEF d
  <2>9. /\ Registered(d) = Registered(c) /\ (Apart(c) => Apart(d)) /\ (Within(c) => Within(d))
        /\ (Backed(c, p.left) => Backed(d, p.left)) /\ (Fresh(c, p.before) => Fresh(d, p.before))
    BY <2>5, <2>8, SameWork
  <2> QED BY <2>1, <2>2, <2>5, <2>7, <2>8, <2>9 DEF Holding
<1> QED BY <1>1, <1>2

\* After as many turns as tasks were queued, no task that fits is first.
LEMMA TasksSettle ==
  ASSUME BrokerHypothesis, NEW p \in Frame, NEW b \in Holding(p)
  PROVE  AllocateJGClusterTasks(b) \in Settled(p)
<1> DEFINE n == Len(b.jgTaskQueue)
           steps == [k \in DOMAIN b.jgTaskQueue |-> [x \in Broker |-> ServeHead(x)]]
           G == [k \in 0 .. n |-> {x \in Holding(p) : Len(x.jgTaskQueue) <= n - k \/ Stuck(x)}]
<1>1. /\ n \in Nat /\ DOMAIN b.jgTaskQueue = 1 .. n /\ Holding(p) \subseteq Broker
      /\ p.before \in Nat
  BY BrokerParts DEF Holding, Frame
<1>2. Len(steps) = n
  BY <1>1, StepsLen
<1>3. b \in G[0] /\ G[n] = {x \in Holding(p) : Len(x.jgTaskQueue) <= 0 \/ Stuck(x)}
  BY <1>1
<1>4. ASSUME NEW k \in 1 .. n, NEW x \in G[k - 1] PROVE steps[k][x] \in G[k]
  <2>1. k \in 0 .. n /\ k - 1 \in 0 .. n /\ k \in DOMAIN b.jgTaskQueue
    BY <1>1
  <2>2. x \in Holding(p) /\ (Len(x.jgTaskQueue) <= n - (k - 1) \/ Stuck(x)) /\ x \in Broker
    BY <1>1, <1>4, <2>1
  <2>3. steps[k][x] = ServeHead(x)
    BY <2>1, <2>2
  <2>4. /\ ServeHead(x) \in Holding(p)
        /\ Stuck(x) => ServeHead(x) = x
        /\ ~Stuck(x) => Len(ServeHead(x).jgTaskQueue) = Len(x.jgTaskQueue) - 1
    BY <2>2, ServeHeadKeeps
  <2>5. Len(x.jgTaskQueue) \in Nat
    BY <2>2, BrokerParts
  <2>6. Len(ServeHead(x).jgTaskQueue) <= n - k \/ Stuck(ServeHead(x))
    BY <1>1, <2>2, <2>4, <2>5
  <2> QED BY <2>1, <2>3, <2>4, <2>6
<1>5. InTurn(b, steps) \in G[n]
  <2> HIDE DEF steps, G
  <2> QED BY <1>1, <1>2, <1>3, <1>4, InTurnThrough
<1>6. AllocateJGClusterTasks(b) = InTurn(b, steps)
  BY DEF AllocateJGClusterTasks
<1> DEFINE c == AllocateJGClusterTasks(b)
<1>7. c \in Holding(p) /\ (Len(c.jgTaskQueue) <= 0 \/ Stuck(c)) /\ c \in Broker
  <2> HIDE DEF c, G
  <2> QED BY <1>1, <1>3, <1>5, <1>6 DEF c
<1> HIDE DEF c
<1>8. Stuck(c)
  <2>1. c.jgTaskQueue \in Seq(Task) /\ Len(c.jgTaskQueue) \in Nat
    BY <1>7, BrokerParts
  <2>2. Len(c.jgTaskQueue) <= 0 => c.jgTaskQueue = <<>>
    BY <2>1, EmptySeq
  <2> QED BY <1>7, <2>2 DEF Stuck
<1>9. Strict(p) => TaskServed(c, p.before)
  BY <1>1, <1>7, <1>8, ServedIsStuck DEF Holding
<1> QED BY <1>7, <1>9 DEF Settled, c

LEMMA BidKeeps ==
  ASSUME BrokerHypothesis, NEW p \in Frame, NEW b \in Settled(p), NEW i, NEW amount,
         Fits(b, i, amount), NEW bid \in Bid
  PROVE  Assign(b, i, bid, amount, "brokerTFLOPS") \in Settled(p)
<1> DEFINE c == Assign(b, i, bid, amount, "brokerTFLOPS")
<1>1. b \in Holding(p) /\ "brokerTFLOPS" \in Counters /\ bid \in Bid \cup Task
      /\ (Strict(p) => TaskServed(b, p.before))
  BY DEF Settled, Counters, Holding
<1>2. /\ c \in Broker
      /\ Strict(p) => Apart(c) /\ Registered(c) \subseteq p.keys /\ Backed(c, p.left)
      /\ Strict(p) /\ Exact(p) => Within(c)
      /\ Strict(p) /\ TaskServed(b, p.before) => TaskServed(c, p.before)
  BY <1>1, AssignKeeps
<1> HIDE DEF c
<1>3. c \in Settled(p)
  BY <1>1, <1>2 DEF Settled, Holding
<1> QED BY <1>3 DEF c

LEMMA FillOnceKeeps ==
  ASSUME BrokerHypothesis, NEW p \in Frame, NEW rest \in Settled(p) \X Nat, NEW bid \in Bid
  PROVE  FillOnce(rest, bid) \in Settled(p) \X Nat
<1> DEFINE b == rest[1]
           i == Best(b, bid)
           amount == Min({b.nodes[i].idle, rest[2]})
<1>1. b \in Settled(p) /\ rest[2] \in Nat /\ b \in Broker
  BY DEF Settled, Holding
<1>2. CASE rest[2] = 0 \/ ~HasNode(b, bid)
  BY <1>2 DEF FillOnce
<1>3. CASE ~(rest[2] = 0 \/ ~HasNode(b, bid))
  <2>1. i \in DOMAIN b.nodes
    BY <1>1, <1>3, BestServes
  <2>2. b.nodes[i].idle \in Nat
    BY <1>1, <2>1, BrokerParts
  <2>3. amount = IF b.nodes[i].idle <= rest[2] THEN b.nodes[i].idle ELSE rest[2]
    BY <1>1, <2>2, Smaller
  <2>4. FillOnce(rest, bid) = <<Assign(b, i, bid, amount, "brokerTFLOPS"), rest[2] - amount>>
    BY <1>3 DEF FillOnce
  <2> HIDE DEF amount, i, b
  <2>5. Fits(b, i, amount) /\ rest[2] - amount \in Nat
    BY <1>1, <2>1, <2>2, <2>3 DEF Fits
  <2>6. Assign(b, i, bid, amount, "brokerTFLOPS") \in Settled(p)
    BY <1>1, <2>5, BidKeeps
  <2> QED BY <2>4, <2>5, <2>6
<1> QED BY <1>2, <1>3

LEMMA FillKeeps ==
  ASSUME BrokerHypothesis, NEW p \in Frame, NEW b \in Settled(p), NEW bid \in Bid
  PROVE  Fill(b, bid) \in Settled(p)
<1> DEFINE n == Len(b.nodes)
           steps == [k \in DOMAIN b.nodes |-> [rest \in Broker \X Nat |-> FillOnce(rest, bid)]]
           G == Settled(p) \X Nat
           base == <<b, Demand[bid]>>
<1>1. Settled(p) \subseteq Broker /\ Demand[bid] \in Int
  BY DEF Settled, Holding, BrokerHypothesis
<1>2. n \in Nat /\ DOMAIN b.nodes = 1 .. n
  BY <1>1, BrokerParts
<1>3. CASE Demand[bid] <= 0
  BY <1>3 DEF Fill
<1>4. CASE ~(Demand[bid] <= 0)
  <2>1. base \in G /\ Fill(b, bid) = InTurn(base, steps)[1]
    BY <1>1, <1>4 DEF Fill
  <2>2. Len(steps) = n
    BY <1>2, StepsLen
  <2>3. ASSUME NEW k \in 1 .. n, NEW x \in G PROVE steps[k][x] \in G
    <3>1. x \in Broker \X Nat /\ steps[k][x] = FillOnce(x, bid)
      BY <1>1, <1>2
    <3> HIDE DEF steps
    <3> QED BY <3>1, FillOnceKeeps
  <2>4. InTurn(base, steps) \in G
    <3> HIDE DEF steps, G, base
    <3> QED BY <1>2, <2>1, <2>2, <2>3, InTurnKeeps
  <2> HIDE DEF steps, base
  <2> QED BY <2>1, <2>4
<1> QED BY <1>3, <1>4

\* A finite set of bids can be put in the order of their prices.
LEMMA ByPriceIs ==
  ASSUME BrokerHypothesis, NEW bids \in SUBSET Bid
  PROVE  /\ IsFiniteSet(bids) /\ Cardinality(bids) \in Nat
         /\ ByPrice(bids) \in [1 .. Cardinality(bids) -> bids]
<1> DEFINE n == Cardinality(bids)
<1>1. IsFiniteSet(bids) /\ n \in Nat
  BY FS_Subset, FS_CardinalityType DEF BrokerHypothesis
<1>2. PICK m \in Nat : ExistsBijection(1 .. m, bids)
  BY <1>1, FS_NatBijection
<1>0. PICK e \in Bijection(1 .. m, bids) : TRUE
  BY <1>2 DEF ExistsBijection
<1> DEFINE place == [x \in bids |-> CHOOSE k \in 1 .. m : e[k] = x]
           First(x, y) == Price[x] > Price[y] \/ (Price[x] = Price[y] /\ place[x] < place[y])
           R == {r \in bids \X bids : First(r[1], r[2])}
<1>3. \A x \in bids : place[x] \in 1 .. m /\ e[place[x]] = x
  BY <1>0 DEF Bijection, Surjection
<1> HIDE DEF place
<1>4. \A x \in bids : Price[x] \in Int /\ place[x] \in Int
  BY <1>1, <1>3 DEF BrokerHypothesis
<1>5. TotalOrder(R, bids)
  <2>1. \A x \in bids : <<x, x>> \notin R
    BY <1>4
  <2>2. ASSUME NEW x \in bids, NEW y \in bids, x # y PROVE <<x, y>> \in R \/ <<y, x>> \in R
    <3>1. place[x] # place[y]
      BY <1>3, <2>2
    <3> QED BY <1>4, <3>1
  <2>3. ASSUME NEW x \in bids, NEW y \in bids, NEW z \in bids, <<x, y>> \in R, <<y, z>> \in R
        PROVE  <<x, z>> \in R
    <3>1. First(x, y) /\ First(y, z)
      BY <2>3
    <3>2. First(x, z)
      BY <1>4, <3>1
    <3> QED BY <3>2
  <2> HIDE DEF R
  <2> QED BY <2>1, <2>2, <2>3 DEF TotalOrder
<1>6. PICK s \in SetToSeqs(bids) : \A i, j \in DOMAIN s : i < j => <<s[i], s[j]>> \in R
  <2> HIDE DEF R
  <2> QED BY <1>1, <1>5, Orderly
<1>7. s \in [1 .. n -> bids] /\ IsInjective(s)
  BY DEF SetToSeqs, IsInjective
<1>8. ASSUME NEW i \in DOMAIN s, NEW j \in DOMAIN s, i < j PROVE Price[s[i]] >= Price[s[j]]
  <2>1. s[i] \in bids /\ s[j] \in bids
    BY <1>7
  <2>2. First(s[i], s[j])
    BY <1>6, <1>8
  <2> QED BY <1>4, <2>1, <2>2
<1>9. ByPrice(bids) \in [1 .. n -> bids]
  BY <1>7, <1>8 DEF ByPrice
<1> QED BY <1>1, <1>9

LEMMA BidsKeep ==
  ASSUME BrokerHypothesis, NEW p \in Frame, NEW b \in Settled(p)
  PROVE  AllocateCommercialBids(b) \in Settled(p)
<1> DEFINE bids == ByPrice(b.orderBook \ Fallback)
           n == Cardinality(b.orderBook \ Fallback)
           steps == [k \in DOMAIN bids |-> [x \in Broker |-> Fill(x, bids[k])]]
<1>1. Settled(p) \subseteq Broker
  BY DEF Settled, Holding
<1>2. b.orderBook \ Fallback \subseteq Bid
  BY <1>1, BrokerParts
<1>3. n \in Nat /\ bids \in [1 .. n -> b.orderBook \ Fallback]
  BY <1>2, ByPriceIs
<1> HIDE DEF bids, n
<1>4. DOMAIN bids = 1 .. n /\ \A k \in 1 .. n : bids[k] \in Bid
  BY <1>2, <1>3
<1>5. Len(steps) = n
  BY <1>3, <1>4, StepsLen
<1>6. ASSUME NEW k \in 1 .. n, NEW x \in Settled(p) PROVE steps[k][x] \in Settled(p)
  <2>1. steps[k][x] = Fill(x, bids[k])
    BY <1>1, <1>4
  <2> QED BY <1>4, <2>1, FillKeeps
<1>7. InTurn(b, steps) \in Settled(p)
  <2> HIDE DEF steps
  <2> QED BY <1>3, <1>5, <1>6, InTurnKeeps
<1> QED BY <1>7 DEF AllocateCommercialBids, bids

LEMMA GiveIdleKeeps ==
  ASSUME BrokerHypothesis, NEW p \in Frame, NEW b \in Settled(p), NEW i,
         NEW bids \in SUBSET Bid, bids # {}
  PROVE  GiveIdle(b, i, bids) \in Settled(p)
<1>1. b \in Broker
  BY DEF Settled, Holding
<1>2. i \in DOMAIN b.nodes => Fits(b, i, b.nodes[i].idle)
  BY <1>1, BrokerParts DEF Fits
<1>3. FallbackFor(b, bids) \in Bid
  BY DEF FallbackFor
<1> QED BY <1>2, <1>3, BidKeeps DEF GiveIdle

LEMMA FallbackKeeps ==
  ASSUME BrokerHypothesis, NEW p \in Frame, NEW b \in Settled(p)
  PROVE  AllocateScientificFallback(b) \in Settled(p)
<1> DEFINE bids == b.orderBook \cap Fallback
           n == Len(b.nodes)
           steps == [i \in DOMAIN b.nodes |-> [x \in Broker |-> GiveIdle(x, i, bids)]]
<1>1. Settled(p) \subseteq Broker
  BY DEF Settled, Holding
<1>2. n \in Nat /\ DOMAIN b.nodes = 1 .. n
  BY <1>1, BrokerParts
<1>3. CASE bids = {}
  BY <1>3 DEF AllocateScientificFallback
<1>4. CASE bids # {}
  <2>1. bids \in SUBSET Bid
    BY DEF BrokerHypothesis
  <2>2. Len(steps) = n
    BY <1>2, StepsLen
  <2>3. ASSUME NEW k \in 1 .. n, NEW x \in Settled(p) PROVE steps[k][x] \in Settled(p)
    <3>1. steps[k][x] = GiveIdle(x, k, bids)
      BY <1>1, <1>2
    <3> HIDE DEF bids
    <3> QED BY <1>4, <2>1, <3>1, GiveIdleKeeps
  <2>4. InTurn(b, steps) \in Settled(p)
    <3> HIDE DEF steps
    <3> QED BY <1>2, <2>2, <2>3, InTurnKeeps
  <2> QED BY <1>4, <2>4 DEF AllocateScientificFallback
<1> QED BY <1>3, <1>4

LEMMA AllocateSettles ==
  ASSUME BrokerHypothesis, NEW p \in Frame, NEW b \in Holding(p)
  PROVE  Allocate(b) \in Settled(p)
BY TasksSettle, BidsKeep, FallbackKeeps DEF Allocate

-----------------------------------------------------------------------------
(* The broker: failures and nested cycles                                     *)

Failed(b, i) == [b EXCEPT !.assignments[i].status = "FAILED"]

LEMMA FailedIs ==
  ASSUME NEW b \in Broker, NEW i \in DOMAIN b.assignments, NEW c, c = Failed(b, i)
  PROVE  /\ c \in Broker /\ c.nodes = b.nodes /\ c.orderBook = b.orderBook
         /\ c.jgTaskQueue = b.jgTaskQueue /\ Len(c.assignments) = Len(b.assignments)
         /\ \A k \in DOMAIN b.assignments :
              /\ c.assignments[k].node = b.assignments[k].node
              /\ c.assignments[k].work = b.assignments[k].work
              /\ c.assignments[k].amount = b.assignments[k].amount
         /\ Live(c) = Live(b) \ {i} /\ Amounts(c) = Amounts(b) /\ Registered(c) = Registered(b)
<1> DEFINE new == [b.assignments[i] EXCEPT !.status = "FAILED"]
<1>1. /\ b.assignments \in Seq(Assignment) /\ i \in 1 .. Len(b.assignments)
      /\ DOMAIN b.assignments = 1 .. Len(b.assignments) /\ b.assignments[i] \in Assignment
      /\ Len(b.assignments) \in Nat
  BY BrokerParts
<1>2. /\ new \in Assignment /\ new.status = "FAILED" /\ new.node = b.assignments[i].node
      /\ new.work = b.assignments[i].work /\ new.amount = b.assignments[i].amount
  BY <1>1 DEF Assignment
<1>3. c = [b EXCEPT !.assignments = [@ EXCEPT ![i] = new]]
  BY DEF Failed
<1> HIDE DEF new
<1>4. /\ c.nodes = b.nodes /\ c.orderBook = b.orderBook /\ c.jgTaskQueue = b.jgTaskQueue
      /\ c.assignments = [b.assignments EXCEPT ![i] = new]
  BY <1>3 DEF Broker
<1>5. /\ c.assignments \in Seq(Assignment) /\ Len(c.assignments) = Len(b.assignments)
      /\ \A k \in 1 .. Len(b.assignments) :
           c.assignments[k] = IF k = i THEN new ELSE b.assignments[k]
  BY <1>1, <1>2, <1>4, ExceptSeq
<1>6. c \in Broker
  BY <1>3, <1>5 DEF Broker
<1>7. DOMAIN c.assignments = DOMAIN b.assignments
  BY <1>1, <1>5, <1>6, BrokerParts
<1>8. \A k \in DOMAIN b.assignments :
              /\ c.assignments[k].node = b.assignments[k].node
              /\ c.assignments[k].work = b.assignments[k].work
              /\ c.assignments[k].amount = b.assignments[k].amount
  BY <1>1, <1>2, <1>5
<1>9. Live(c) = Live(b) \ {i}
  BY <1>1, <1>2, <1>5, <1>7 DEF Live
<1>10. Amounts(c) = Amounts(b)
  BY <1>7, <1>8 DEF Amounts
<1>11. Registered(c) = Registered(b)
  BY <1>4 DEF Registered
<1> QED BY <1>4, <1>5, <1>6, <1>8, <1>9, <1>10, <1>11

\* What fails takes no part in what is given.
LEMMA FailedGives ==
  ASSUME NEW b \in Broker, NEW i \in DOMAIN b.assignments, NEW c, c = Failed(b, i), NEW before \in Nat
  PROVE  /\ \A key : Given(c, key) = IF i \in On(b, key)
                                   THEN Given(b, key) - b.assignments[i].amount ELSE Given(b, key)
         /\ \A key : ToBids(c, before, key) <= ToBids(b, before, key)
         /\ Fresh(b, before) => Fresh(c, before)
<1>1. /\ c \in Broker /\ Live(c) = Live(b) \ {i} /\ Amounts(c) = Amounts(b)
      /\ Registered(c) = Registered(b) /\ Live(b) \subseteq DOMAIN b.assignments
      /\ \A k \in DOMAIN b.assignments :
           c.assignments[k].node = b.assignments[k].node /\ c.assignments[k].work = b.assignments[k].work
  <2>1. Live(b) \subseteq DOMAIN b.assignments
    BY DEF Live
  <2>2. c \in Broker /\ Live(c) = Live(b) \ {i} /\ Amounts(c) = Amounts(b)
        /\ Registered(c) = Registered(b)
    BY FailedIs
  <2>3. \A k \in DOMAIN b.assignments :
           c.assignments[k].node = b.assignments[k].node /\ c.assignments[k].work = b.assignments[k].work
    BY FailedIs
  <2> QED BY <2>1, <2>2, <2>3
<1>2. \A key : On(c, key) = On(b, key) \ {i}
  BY <1>1 DEF On
<1>3. Amounts(b)[i] = b.assignments[i].amount
  BY DEF Amounts
<1>4. ASSUME NEW key
      PROVE  Given(c, key) = IF i \in On(b, key)
                               THEN Given(b, key) - b.assignments[i].amount ELSE Given(b, key)
  <2>1. /\ Given(b, key) = Sum(Amounts(b), On(b, key)) /\ On(b, key) \in SUBSET DOMAIN b.assignments
        /\ Given(c, key) = Sum(Amounts(b), On(b, key) \ {i})
    BY <1>1, <1>2, OnIs
  <2>2. IsFiniteSet(On(b, key)) /\ \A k \in On(b, key) : Amounts(b)[k] \in Nat
    BY <2>1, GivenType
  <2>3. CASE i \in On(b, key)
    <3>1. \A k \in On(b, key) : Amounts(b)[k] \in Int
      BY <2>2
    <3>2. Sum(Amounts(b), On(b, key)) = Amounts(b)[i] + Sum(Amounts(b), On(b, key) \ {i})
      BY <2>2, <2>3, <3>1, SumRemove
    <3>3. Given(c, key) \in Nat /\ Amounts(b)[i] \in Nat
      BY <1>1, <2>2, <2>3, OnIs
    <3> QED BY <1>3, <2>1, <2>3, <3>2, <3>3
  <2>4. CASE i \notin On(b, key)
    <3>1. On(b, key) \ {i} = On(b, key)
      BY <2>4
    <3> QED BY <2>1, <2>4, <3>1
  <2> QED BY <2>3, <2>4
<1>5. ASSUME NEW key PROVE ToBids(c, before, key) <= ToBids(b, before, key)
  <2> DEFINE S == Since(b, before, key)
  <2>1. Since(c, before, key) = S \ {i}
    BY <1>1, <1>2, OnIs DEF Since
  <2>2. /\ ToBids(b, before, key) = Sum(Amounts(b), S) /\ S \in SUBSET DOMAIN b.assignments
        /\ ToBids(c, before, key) = Sum(Amounts(b), S \ {i})
        /\ ToBids(b, before, key) \in Nat /\ ToBids(c, before, key) \in Nat
    <3>1. /\ ToBids(b, before, key) = Sum(Amounts(b), S) /\ S \in SUBSET DOMAIN b.assignments
          /\ ToBids(b, before, key) \in Nat
      BY ToBidsIs
    <3>2. ToBids(c, before, key) = Sum(Amounts(c), Since(c, before, key))
          /\ ToBids(c, before, key) \in Nat
      BY <1>1, ToBidsIs
    <3> QED BY <1>1, <2>1, <3>1, <3>2
  <2> HIDE DEF S
  <2>3. IsFiniteSet(S) /\ \A k \in S : Amounts(b)[k] \in Nat
    BY <2>2, GivenType
  <2>4. CASE i \in S
    <3>1. \A k \in S : Amounts(b)[k] \in Int
      BY <2>3
    <3>2. Sum(Amounts(b), S) = Amounts(b)[i] + Sum(Amounts(b), S \ {i})
      BY <2>3, <2>4, <3>1, SumRemove
    <3>3. Amounts(b)[i] \in Nat
      BY <2>3, <2>4
    <3> QED BY <2>2, <3>2, <3>3
  <2>5. CASE i \notin S
    <3>1. S \ {i} = S
      BY <2>5
    <3> QED BY <2>2, <3>1
  <2> QED BY <2>4, <2>5
<1>6. Fresh(b, before) => Fresh(c, before)
  BY <1>1 DEF Fresh
<1> QED BY <1>4, <1>5, <1>6

LEMMA ReturnedIs ==
  ASSUME NEW node \in NodeState, NEW amount \in Nat, NEW new, new = Returned(node, amount)
  PROVE  /\ new \in NodeState /\ new.key = node.key /\ new.idle = node.idle + amount
         /\ new.lastHeartbeatAt = node.lastHeartbeatAt
<1> DEFINE rest == Max({0, node.brokerTFLOPS - amount})
<1>1. /\ node.idle \in Nat /\ node.brokerTFLOPS \in Nat /\ node.idle + amount \in Nat
  BY DEF NodeState
<1>2. rest \in Nat
  <2>1. rest = IF 0 >= node.brokerTFLOPS - amount THEN 0 ELSE node.brokerTFLOPS - amount
    BY <1>1, Larger
  <2> HIDE DEF rest
  <2> QED BY <1>1, <2>1
<1> HIDE DEF rest
<1>3. new = [node EXCEPT !.idle = node.idle + amount, !.brokerTFLOPS = rest]
  BY DEF Returned, rest
<1> QED BY <1>1, <1>2, <1>3 DEF NodeState

LEMMA AtIs ==
  ASSUME NEW b \in Broker, NEW key \in Registered(b)
  PROVE  At(b, key) \in DOMAIN b.nodes /\ b.nodes[At(b, key)].key = key
<1>1. \E i \in DOMAIN b.nodes : b.nodes[i].key = key
  BY DEF Registered
<1> QED BY <1>1 DEF At

\* A failure returns capacity to its node, where that is still registered.
LEMMA FreeIs ==
  ASSUME NEW b \in Broker, NEW i \in DOMAIN b.assignments, NEW c, c = Free(b, i)
  PROVE  /\ c \in Broker /\ c.assignments = Failed(b, i).assignments
         /\ c.jgTaskQueue = b.jgTaskQueue /\ c.orderBook = b.orderBook
         /\ Len(c.nodes) = Len(b.nodes)
         /\ \A j \in DOMAIN b.nodes :
              /\ c.nodes[j].key = b.nodes[j].key
              /\ c.nodes[j].lastHeartbeatAt = b.nodes[j].lastHeartbeatAt
              /\ \/ c.nodes[j].idle = b.nodes[j].idle
                 \/ /\ b.nodes[j].key = b.assignments[i].node
                    /\ c.nodes[j].idle = b.nodes[j].idle + b.assignments[i].amount
         /\ b.assignments[i].node \notin Registered(b) => c = Failed(b, i)
<1> DEFINE key == b.assignments[i].node
           amount == b.assignments[i].amount
           d == Failed(b, i)
<1>1. /\ d \in Broker /\ d.nodes = b.nodes /\ d.jgTaskQueue = b.jgTaskQueue
      /\ d.orderBook = b.orderBook
  BY FailedIs
<1>2. amount \in Nat
  BY BrokerParts
<1>3. CASE key \notin Registered(b)
  <2>1. c = d
    BY <1>3 DEF Free, Failed
  <2> QED BY <1>1, <2>1
<1>4. CASE key \in Registered(b)
  <2> DEFINE at == At(b, key)
             new == Returned(b.nodes[at], amount)
  <2>1. at \in DOMAIN b.nodes /\ b.nodes[at].key = key
    BY <1>4, AtIs
  <2>2. c = [d EXCEPT !.nodes[at] = Returned(@, amount)]
    BY <1>4 DEF Free, Failed
  <2>3. b.nodes \in Seq(NodeState) /\ at \in 1 .. Len(b.nodes) /\ b.nodes[at] \in NodeState
        /\ DOMAIN b.nodes = 1 .. Len(b.nodes)
    BY <2>1, BrokerParts
  <2> HIDE DEF at, d
  <2>4. /\ new \in NodeState /\ new.key = b.nodes[at].key
        /\ new.idle = b.nodes[at].idle + amount
        /\ new.lastHeartbeatAt = b.nodes[at].lastHeartbeatAt
    <3> DEFINE node == b.nodes[at]
    <3>1. node \in NodeState
      BY <2>3
    <3> HIDE DEF node, amount
    <3>2. /\ Returned(node, amount) \in NodeState /\ Returned(node, amount).key = node.key
          /\ Returned(node, amount).idle = node.idle + amount
          /\ Returned(node, amount).lastHeartbeatAt = node.lastHeartbeatAt
      BY <1>2, <3>1, ReturnedIs
    <3> QED BY <3>2 DEF node
  <2>5. c = [d EXCEPT !.nodes = [b.nodes EXCEPT ![at] = new]]
    BY <1>1, <2>2
  <2> HIDE DEF new
  <2>6. /\ c.nodes = [b.nodes EXCEPT ![at] = new] /\ c.assignments = d.assignments
        /\ c.jgTaskQueue = b.jgTaskQueue /\ c.orderBook = b.orderBook
    BY <1>1, <2>5 DEF Broker
  <2>7. /\ c.nodes \in Seq(NodeState) /\ Len(c.nodes) = Len(b.nodes)
        /\ \A j \in 1 .. Len(b.nodes) : c.nodes[j] = IF j = at THEN new ELSE b.nodes[j]
    BY <2>3, <2>4, <2>6, ExceptSeq
  <2>8. c \in Broker
    BY <1>1, <2>5, <2>7, <2>6 DEF Broker
  <2>9. \A j \in DOMAIN b.nodes :
              /\ c.nodes[j].key = b.nodes[j].key
              /\ c.nodes[j].lastHeartbeatAt = b.nodes[j].lastHeartbeatAt
              /\ \/ c.nodes[j].idle = b.nodes[j].idle
                 \/ b.nodes[j].key = key /\ c.nodes[j].idle = b.nodes[j].idle + amount
    BY <2>1, <2>3, <2>4, <2>7
  <2> QED BY <1>4, <2>6, <2>7, <2>8, <2>9 DEF d
<1> QED BY <1>3, <1>4

\* Freeing what no registered node has leaves one assignment less to be failed.
LEMMA FreeLeaves ==
  ASSUME BrokerHypothesis, NEW p \in Frame, Strict(p), NEW b \in Holding(p), NEW i \in DOMAIN b.assignments,
         NEW key, key = b.assignments[i].node, key \notin p.keys
  PROVE  Free(b, i) \in Holding([p EXCEPT !.left = @ \ {<<i, key>>}])
<1> DEFINE c == Free(b, i)
           q == [p EXCEPT !.left = @ \ {<<i, key>>}]
<1>1. /\ b \in Broker /\ Apart(b) /\ Registered(b) \subseteq p.keys /\ Backed(b, p.left)
      /\ Fresh(b, p.before) \/ TaskServed(b, p.before)
      /\ Exact(p) => Within(b)
      /\ p.before \in Nat
  BY DEF Holding, Frame
<1>2. c = Failed(b, i)
  BY <1>1, FreeIs
<1> HIDE DEF c
<1>3. /\ c \in Broker /\ c.nodes = b.nodes /\ c.jgTaskQueue = b.jgTaskQueue
      /\ Registered(c) = Registered(b)
  BY <1>1, <1>2, FailedIs
<1>4. /\ \A k : Given(c, k) = IF i \in On(b, k)
                                   THEN Given(b, k) - b.assignments[i].amount ELSE Given(b, k)
      /\ \A k : ToBids(c, p.before, k) <= ToBids(b, p.before, k)
      /\ Fresh(b, p.before) => Fresh(c, p.before)
  BY <1>1, <1>2, FailedGives
<1>5. Backed(c, p.left \ {<<i, key>>})
  <2>1. Live(c) = Live(b) \ {i} /\ Live(b) \subseteq DOMAIN b.assignments
    BY <1>1, <1>2, FailedIs DEF Live
  <2>2. \A k \in DOMAIN b.assignments : c.assignments[k].node = b.assignments[k].node
    BY <1>1, <1>2, FailedIs
  <2> QED BY <1>1, <1>3, <2>1, <2>2 DEF Backed
<1>6. Apart(c)
  BY <1>1, <1>3 DEF Apart
<1>7. ASSUME Within(b) PROVE Within(c)
  <2> SUFFICES ASSUME NEW j \in DOMAIN b.nodes
               PROVE  b.nodes[j].idle + Given(c, b.nodes[j].key) <= Capacity[b.nodes[j].key]
    BY <1>3 DEF Within
  <2>1. b.nodes[j].idle + Given(b, b.nodes[j].key) <= Capacity[b.nodes[j].key]
    BY <1>7 DEF Within
  <2>2. b.nodes[j].key # key
    BY <1>1 DEF Registered
  <2>3. i \notin On(b, b.nodes[j].key)
    BY <2>2 DEF On
  <2> QED BY <1>4, <2>1, <2>3
<1>8. ASSUME TaskServed(b, p.before) PROVE TaskServed(c, p.before)
  <2> DEFINE task == Head(b.jgTaskQueue)
  <2> SUFFICES ASSUME b.jgTaskQueue # <<>>, NEW j \in DOMAIN b.nodes,
                      <<b.nodes[j].key, task>> \in Supports, ~Stale(b.nodes[j])
               PROVE  b.nodes[j].idle + ToBids(c, p.before, b.nodes[j].key) < Demand[task]
    BY <1>3 DEF TaskServed
  <2>1. b.nodes[j].idle + ToBids(b, p.before, b.nodes[j].key) < Demand[task]
    BY <1>8 DEF TaskServed
  <2>2. /\ b.nodes[j].idle \in Nat /\ ToBids(b, p.before, b.nodes[j].key) \in Nat
        /\ ToBids(c, p.before, b.nodes[j].key) \in Nat
    BY <1>1, <1>3, BrokerParts, ToBidsIs
  <2>3. ToBids(c, p.before, b.nodes[j].key) <= ToBids(b, p.before, b.nodes[j].key)
    BY <1>4
  <2>4. Demand[task] \in Nat
    BY <1>1, HeadIsTask
  <2> HIDE DEF task
  <2> QED BY <2>1, <2>2, <2>3, <2>4
<1>9. /\ q.keys = p.keys /\ q.left = p.left \ {<<i, key>>} /\ q.before = p.before
      /\ q.claims = p.claims
  BY DEF Frame
<1> HIDE DEF q
<1>10. c \in Holding(q)
  BY <1>1, <1>3, <1>4, <1>5, <1>6, <1>7, <1>8, <1>9 DEF Holding, Strict, Exact
<1> QED BY <1>10 DEF c, q

LEMMA Removed ==
  ASSUME NEW T, NEW s \in Seq(T), NEW i \in 1 .. Len(s)
  PROVE  /\ RemoveAt(s, i) \in Seq(T) /\ Len(RemoveAt(s, i)) = Len(s) - 1
         /\ \A j \in 1 .. Len(s) - 1 : RemoveAt(s, i)[j] = IF j < i THEN s[j] ELSE s[j + 1]
<1> DEFINE n == Len(s)
           l == SubSeq(s, 1, i - 1)
           r == SubSeq(s, i + 1, n)
<1>1. n \in Nat /\ \A j \in 1 .. n : s[j] \in T
  BY LenProperties, ElementOfSeq
<1>2. /\ l \in Seq(T) /\ Len(l) = i - 1 /\ \A j \in 1 .. i - 1 : l[j] = s[j]
  <2>1. \A j \in 1 .. i - 1 : s[j] \in T
    BY <1>1
  <2>2. 1 \in Int /\ i - 1 \in Int
    BY <1>1
  <2> QED BY <1>1, <2>1, <2>2, SubSeqProperties
<1>3. /\ r \in Seq(T) /\ Len(r) = n - i /\ \A j \in 1 .. n - i : r[j] = s[i + j]
  <2>1. \A j \in i + 1 .. n : s[j] \in T
    BY <1>1
  <2>2. i + 1 \in Int /\ n \in Int
    BY <1>1
  <2>3. /\ r \in Seq(T) /\ Len(r) = IF i + 1 <= n THEN n - (i + 1) + 1 ELSE 0
        /\ \A j \in 1 .. n - (i + 1) + 1 : r[j] = s[i + 1 + j - 1]
    BY <2>1, <2>2, SubSeqProperties
  <2> HIDE DEF r
  <2> QED BY <1>1, <2>3
<1> HIDE DEF l, r
<1>4. /\ l \o r \in Seq(T) /\ Len(l \o r) = Len(l) + Len(r)
      /\ \A j \in 1 .. Len(l) + Len(r) :
           (l \o r)[j] = IF j <= Len(l) THEN l[j] ELSE r[j - Len(l)]
  BY <1>2, <1>3, ConcatProperties
<1>5. ASSUME NEW j \in 1 .. n - 1 PROVE (l \o r)[j] = IF j < i THEN s[j] ELSE s[j + 1]
  <2>1. j \in 1 .. Len(l) + Len(r)
    BY <1>1, <1>2, <1>3
  <2>2. CASE j < i
    BY <1>1, <1>2, <1>4, <2>1, <2>2
  <2>3. CASE ~(j < i)
    <3>1. j - (i - 1) \in 1 .. n - i /\ i + (j - (i - 1)) = j + 1
      BY <1>1, <2>3
    <3>2. (l \o r)[j] = r[j - (i - 1)]
      BY <1>1, <1>2, <1>4, <2>1, <2>3
    <3>3. r[j - (i - 1)] = s[i + (j - (i - 1))]
      BY <1>3, <3>1
    <3> QED BY <2>3, <3>1, <3>2, <3>3
  <2> QED BY <2>2, <2>3
<1>6. RemoveAt(s, i) = l \o r
  BY DEF RemoveAt, l, r
<1>7. Len(l \o r) = n - 1
  BY <1>1, <1>2, <1>3, <1>4
<1> QED BY <1>4, <1>5, <1>6, <1>7

LEMMA WithoutIs ==
  ASSUME NEW b \in Broker, NEW key \in Registered(b), NEW w, w = Without(b, key)
  PROVE  /\ w \in Broker /\ w.orderBook = b.orderBook
         /\ w.assignments = b.assignments /\ w.jgTaskQueue = b.jgTaskQueue
         /\ \A j \in DOMAIN w.nodes : \E i \in DOMAIN b.nodes : w.nodes[j] = b.nodes[i]
         /\ Apart(b) => Apart(w) /\ Registered(w) = Registered(b) \ {key}
<1> DEFINE at == At(b, key)
           n == Len(b.nodes)
           place(j) == IF j < at THEN j ELSE j + 1
<1>1. at \in 1 .. n /\ b.nodes[at].key = key /\ n \in Nat /\ b.nodes \in Seq(NodeState)
      /\ DOMAIN b.nodes = 1 .. n
  BY AtIs, BrokerParts
<1>2. w = [b EXCEPT !.nodes = RemoveAt(b.nodes, at)]
  BY DEF Without
<1> HIDE DEF at
<1>3. /\ w.nodes = RemoveAt(b.nodes, at) /\ w.orderBook = b.orderBook
      /\ w.assignments = b.assignments /\ w.jgTaskQueue = b.jgTaskQueue
  BY <1>2 DEF Broker
<1>4. /\ w.nodes \in Seq(NodeState) /\ Len(w.nodes) = n - 1
      /\ \A j \in 1 .. n - 1 : w.nodes[j] = b.nodes[place(j)]
  <2>1. /\ RemoveAt(b.nodes, at) \in Seq(NodeState) /\ Len(RemoveAt(b.nodes, at)) = n - 1
        /\ \A j \in 1 .. n - 1 :
             RemoveAt(b.nodes, at)[j] = IF j < at THEN b.nodes[j] ELSE b.nodes[j + 1]
    BY <1>1, Removed
  <2> QED BY <1>3, <2>1
<1>5. w \in Broker /\ DOMAIN w.nodes = 1 .. n - 1
  <2>1. w \in Broker
    BY <1>2, <1>4, <1>3 DEF Broker
  <2> QED BY <1>4, <2>1, BrokerParts
<1>6. \A j \in DOMAIN w.nodes : place(j) \in DOMAIN b.nodes /\ place(j) # at /\ w.nodes[j] = b.nodes[place(j)]
  <2> SUFFICES ASSUME NEW j \in 1 .. n - 1
               PROVE  place(j) \in 1 .. n /\ place(j) # at /\ w.nodes[j] = b.nodes[place(j)]
    BY <1>1, <1>5
  <2>1. w.nodes[j] = b.nodes[place(j)]
    BY <1>4
  <2>2. place(j) \in 1 .. n /\ place(j) # at
    <3> HIDE DEF n
    <3> QED BY <1>1
  <2> QED BY <2>1, <2>2
<1>7. \A j, k \in DOMAIN w.nodes : place(j) = place(k) => j = k
  BY <1>1, <1>5
<1>8. \A i \in DOMAIN b.nodes : i # at => \E j \in DOMAIN w.nodes : place(j) = i
  <2> SUFFICES ASSUME NEW i \in DOMAIN b.nodes, i # at PROVE \E j \in DOMAIN w.nodes : place(j) = i
    OBVIOUS
  <2> DEFINE j == IF i < at THEN i ELSE i - 1
  <2>1. j \in DOMAIN w.nodes /\ place(j) = i
    BY <1>1, <1>5
  <2> QED BY <2>1
<1> HIDE DEF place
<1>9. ASSUME Apart(b) PROVE Apart(w) /\ Registered(w) = Registered(b) \ {key}
  <2>1. Apart(w)
    BY <1>6, <1>7, <1>9 DEF Apart
  <2>2. Registered(w) \subseteq Registered(b) \ {key}
    BY <1>1, <1>6, <1>9 DEF Apart, Registered
  <2>3. Registered(b) \ {key} \subseteq Registered(w)
    <3> SUFFICES ASSUME NEW i \in DOMAIN b.nodes, b.nodes[i].key # key
                 PROVE  b.nodes[i].key \in Registered(w)
      BY DEF Registered
    <3>1. PICK j \in DOMAIN w.nodes : place(j) = i
      BY <1>1, <1>8
    <3> QED BY <1>6, <3>1 DEF Registered
  <2> QED BY <2>1, <2>2, <2>3
<1> QED BY <1>3, <1>5, <1>6, <1>9

\* A cycle that may be nested keeps what is held; the cycles of the code settle it.
Safe(cycle) == cycle \in [Broker -> Broker] /\ \A p \in Frame : \A b \in Holding(p) : cycle[b] \in Holding(p)
Settles(cycle) == cycle \in [Broker -> Broker] /\ \A p \in Frame : \A b \in Holding(p) : cycle[b] \in Settled(p)

\* What is left while the assignments of a node are failed, from the k-th on.
From(key, k, n) == {<<i, key>> : i \in k .. n}
During(p, key, k, n) == [p EXCEPT !.keys = @ \ {key}, !.left = @ \cup From(key, k, n)]

LEMMA DuringIs ==
  ASSUME NEW p \in Frame, NEW key \in ComputeNode, NEW k \in Nat, NEW n \in Nat
  PROVE  /\ During(p, key, k, n) \in Frame /\ During(p, key, k, n).keys = p.keys \ {key}
         /\ During(p, key, k, n).left = p.left \cup From(key, k, n)
         /\ During(p, key, k, n).before = p.before /\ During(p, key, k, n).claims = p.claims
<1>1. From(key, k, n) \subseteq Nat \X ComputeNode
  BY DEF From
<1> QED BY <1>1 DEF During, Frame

\* Less that is left, and fewer nodes, is more that is held.
LEMMA HeldMore ==
  ASSUME NEW p \in Frame, NEW q \in Frame, p.keys \subseteq q.keys, p.left \subseteq q.left,
         p.before = q.before, p.claims = q.claims
  PROVE  Holding(p) \subseteq Holding(q)
<1>1. \A b : Backed(b, p.left) => Backed(b, q.left)
  BY DEF Backed
<1> QED BY <1>1 DEF Holding, Strict, Exact

LEMMA WithoutHeld ==
  ASSUME NEW p \in Frame, Strict(p), NEW b \in Holding(p), NEW key \in Registered(b)
  PROVE  Without(b, key) \in Holding(During(p, key, 1, Len(b.assignments)))
<1> DEFINE w == Without(b, key)
           n == Len(b.assignments)
           one == 1
           q == During(p, key, one, n)
<1>1. /\ b \in Broker /\ Apart(b) /\ Registered(b) \subseteq p.keys /\ Backed(b, p.left)
      /\ Fresh(b, p.before) \/ TaskServed(b, p.before)
      /\ Exact(p) => Within(b)
  BY DEF Holding
<1>2. /\ w \in Broker /\ w.assignments = b.assignments /\ w.jgTaskQueue = b.jgTaskQueue
      /\ \A j \in DOMAIN w.nodes : \E i \in DOMAIN b.nodes : w.nodes[j] = b.nodes[i]
      /\ Apart(w) /\ Registered(w) = Registered(b) \ {key}
  BY <1>1, WithoutIs
<1> HIDE DEF w
<1>3. /\ n \in Nat /\ DOMAIN b.assignments = 1 .. n /\ key \in ComputeNode
      /\ one \in Nat /\ one = 1
  BY <1>1, BrokerParts DEF Registered
<1> HIDE DEF n, one, q
<1>4. /\ q \in Frame /\ q.keys = p.keys \ {key}
      /\ q.left = p.left \cup From(key, one, n)
      /\ q.before = p.before /\ q.claims = p.claims
  <2>1. q = During(p, key, one, n)
    BY DEF q
  <2> QED BY <1>3, <2>1, DuringIs
<1>5. Live(w) = Live(b) /\ Amounts(w) = Amounts(b) /\ \A k : On(w, k) = On(b, k)
  <2>1. w.assignments = b.assignments
    BY <1>2
  <2>2. Live(w) = Live(b) /\ Amounts(w) = Amounts(b)
    BY <2>1 DEF Live, Amounts
  <2> QED BY <2>1, <2>2 DEF On
<1>6. Backed(w, q.left)
  BY <1>1, <1>2, <1>3, <1>4, <1>5 DEF Backed, Live, From
<1>7. Fresh(b, p.before) => Fresh(w, p.before)
  BY <1>2, <1>5 DEF Fresh
<1>8. \A k : Given(w, k) = Given(b, k) /\ ToBids(w, p.before, k) = ToBids(b, p.before, k)
  <2>1. \A k : Given(w, k) = Given(b, k)
    BY <1>5 DEF Given
  <2>2. \A k : Since(w, p.before, k) = Since(b, p.before, k)
    BY <1>2, <1>5 DEF Since
  <2>3. \A k : ToBids(w, p.before, k) = ToBids(b, p.before, k)
    BY <1>5, <2>2 DEF ToBids, Since
  <2> QED BY <2>1, <2>3
<1>9. Within(b) => Within(w)
  BY <1>2, <1>8 DEF Within
<1>10. TaskServed(b, p.before) => TaskServed(w, p.before)
  BY <1>2, <1>8 DEF TaskServed
<1>11. w \in Holding(q)
  BY <1>1, <1>2, <1>4, <1>6, <1>7, <1>9, <1>10 DEF Holding, Strict, Exact
<1> QED BY <1>11 DEF w, q, n, one

\* One more assignment of an expired node is failed, if it is still under way.
LEMMA ExpireStep ==
  ASSUME BrokerHypothesis, NEW cycle, Safe(cycle), NEW p \in Frame, Strict(p),
         NEW key \in ComputeNode, NEW n \in Nat, NEW k \in 1 .. n, NEW x \in Holding(During(p, key, k, n))
  PROVE  /\ k \in On(x, key) => cycle[Free(x, k)] \in Holding(During(p, key, k + 1, n))
         /\ k \in On(x, key) /\ Settles(cycle) => TaskServed(cycle[Free(x, k)], p.before)
         /\ k \notin On(x, key) => x \in Holding(During(p, key, k + 1, n))
<1> DEFINE q == During(p, key, k, n)
           r == During(p, key, k + 1, n)
<1>1. /\ q \in Frame /\ q.keys = p.keys \ {key}
      /\ q.left = p.left \cup From(key, k, n)
      /\ q.before = p.before /\ q.claims = p.claims
  BY DuringIs
<1>2. /\ r \in Frame /\ r.keys = p.keys \ {key}
      /\ r.left = p.left \cup From(key, k + 1, n)
      /\ r.before = p.before /\ r.claims = p.claims
  BY DuringIs
<1> HIDE DEF q, r
<1>3. x \in Holding(q)
  BY DEF q
<1>4. q.left \ {<<k, key>>} \subseteq r.left
  <2>1. \A i \in k .. n : i = k \/ i \in k + 1 .. n
    OBVIOUS
  <2> QED BY <1>1, <1>2, <2>1 DEF From
<1>5. ASSUME k \in On(x, key)
      PROVE  Free(x, k) \in Holding(r)
  <2>1. k \in DOMAIN x.assignments /\ x.assignments[k].node = key
    BY <1>5 DEF On, Live
  <2> DEFINE t == [q EXCEPT !.left = @ \ {<<k, key>>}]
  <2>2. Free(x, k) \in Holding(t)
    BY <1>1, <1>3, <2>1, FreeLeaves DEF Strict
  <2>3. /\ t \in Frame /\ t.keys = q.keys /\ t.left = q.left \ {<<k, key>>}
        /\ t.before = q.before /\ t.claims = q.claims
    BY <1>1 DEF Frame
  <2> HIDE DEF t
  <2>4. Holding(t) \subseteq Holding(r)
    BY <1>1, <1>2, <1>4, <2>3, HeldMore
  <2> QED BY <2>2, <2>4
<1>6. k \in On(x, key) => cycle[Free(x, k)] \in Holding(r)
  BY <1>2, <1>5 DEF Safe
<1>7. k \in On(x, key) /\ Settles(cycle) => TaskServed(cycle[Free(x, k)], p.before)
  <2> SUFFICES ASSUME k \in On(x, key), Settles(cycle) PROVE TaskServed(cycle[Free(x, k)], p.before)
    OBVIOUS
  <2>1. cycle[Free(x, k)] \in Settled(r)
    BY <1>2, <1>5 DEF Settles
  <2> QED BY <1>2, <2>1 DEF Settled, Strict
<1>8. ASSUME k \notin On(x, key) PROVE x \in Holding(r)
  <2>1. ASSUME Backed(x, q.left) PROVE Backed(x, r.left)
    <3> SUFFICES ASSUME NEW i \in Live(x), x.assignments[i].node \notin Registered(x)
                 PROVE  <<i, x.assignments[i].node>> \in r.left
      BY DEF Backed
    <3>1. <<i, x.assignments[i].node>> \in q.left
      BY <2>1 DEF Backed
    <3>2. <<i, x.assignments[i].node>> # <<k, key>>
      BY <1>8 DEF On
    <3> QED BY <1>4, <3>1, <3>2
  <2> QED BY <1>1, <1>2, <1>3, <2>1 DEF Holding, Strict, Exact
<1> QED BY <1>6, <1>7, <1>8 DEF r

Calls(b) == <<b.assignments, b.orderBook, b.jgTaskQueue>>

\* A node expires: nothing under way stays with it, and a cycle that was run
\* settles what it left.
LEMMA ExpireKeeps ==
  ASSUME BrokerHypothesis, NEW cycle, Safe(cycle), NEW p \in Frame, NEW b \in Holding(p),
         NEW key \in Registered(b)
  PROVE  /\ Expire(b, key, cycle) \in Holding(p)
         /\ Strict(p) /\ Settles(cycle) =>
              \/ Calls(Expire(b, key, cycle)) = Calls(b)
              \/ TaskServed(Expire(b, key, cycle), p.before)
<1> DEFINE n == Len(b.assignments)
           w == Without(b, key)
           steps == [i \in DOMAIN b.assignments |->
                       [x \in Broker |-> IF i \in On(x, key) THEN cycle[Free(x, i)] ELSE x]]
<1>1. b \in Broker /\ n \in Nat /\ DOMAIN b.assignments = 1 .. n /\ key \in ComputeNode
  BY BrokerParts DEF Holding, Registered
<1>2. Len(steps) = n /\ Expire(b, key, cycle) = InTurn(w, steps)
  BY <1>1, StepsLen DEF Expire
<1>3. w \in Broker /\ Calls(w) = Calls(b)
  BY <1>1, WithoutIs DEF Calls
<1>4. \A k \in 1 .. n : \A x \in Broker :
         steps[k][x] = IF k \in On(x, key) THEN cycle[Free(x, k)] ELSE x
  BY <1>1
<1> HIDE DEF steps, w
<1>5. CASE ~Strict(p)
  <2>1. ASSUME NEW k \in 1 .. n, NEW x \in Broker PROVE steps[k][x] \in Broker
    <3>1. k \in On(x, key) => Free(x, k) \in Broker
      BY FreeIs DEF On, Live
    <3> QED BY <1>4, <3>1 DEF Safe
  <2>2. InTurn(w, steps) \in Broker
    BY <1>1, <1>2, <1>3, <2>1, InTurnKeeps
  <2> QED BY <1>2, <1>5, <2>2 DEF Holding
<1>6. CASE Strict(p)
  <2> DEFINE Way(x) == Settles(cycle) => Calls(x) = Calls(b) \/ TaskServed(x, p.before)
             G == [k \in 0 .. n |-> {x \in Holding(During(p, key, k + 1, n)) : Way(x)}]
  <2>1. w \in G[0] /\ G[n] = {x \in Holding(During(p, key, n + 1, n)) : Way(x)}
    <3>1. w \in Holding(During(p, key, 1, n))
      BY <1>6, WithoutHeld DEF w
    <3> QED BY <1>1, <1>3, <3>1
  <2>2. ASSUME NEW k \in 1 .. n, NEW x \in G[k - 1] PROVE steps[k][x] \in G[k]
    <3>1. k \in 0 .. n /\ k - 1 \in 0 .. n /\ (k - 1) + 1 = k
      BY <1>1
    <3>2. x \in Holding(During(p, key, k, n)) /\ Way(x)
      BY <2>2, <3>1
    <3>3. x \in Broker
      BY <3>2 DEF Holding
    <3> HIDE DEF G
    <3>4. /\ k \in On(x, key) => cycle[Free(x, k)] \in Holding(During(p, key, k + 1, n))
          /\ k \in On(x, key) /\ Settles(cycle) => TaskServed(cycle[Free(x, k)], p.before)
          /\ k \notin On(x, key) => x \in Holding(During(p, key, k + 1, n))
      BY <1>1, <1>6, <3>2, ExpireStep
    <3>5. steps[k][x] \in Holding(During(p, key, k + 1, n)) /\ Way(steps[k][x])
      BY <1>4, <3>2, <3>3, <3>4
    <3> QED BY <3>1, <3>5 DEF G
  <2>3. InTurn(w, steps) \in G[n]
    <3> HIDE DEF G
    <3> QED BY <1>1, <1>2, <2>1, <2>2, InTurnThrough
  <2> DEFINE q == During(p, key, n + 1, n)
  <2>4. /\ q \in Frame /\ q.keys = p.keys \ {key}
        /\ q.left = p.left \cup From(key, n + 1, n)
        /\ q.before = p.before /\ q.claims = p.claims
    <3>1. n + 1 \in Nat
      BY <1>1
    <3> HIDE DEF n, G
    <3> QED BY <1>1, <3>1, DuringIs
  <2>5. InTurn(w, steps) \in Holding(q) /\ Way(InTurn(w, steps))
    <3> HIDE DEF G, Way
    <3> QED BY <2>1, <2>3
  <2> HIDE DEF q
  <2>6. q.left \subseteq p.left
    BY <1>1, <2>4 DEF From
  <2>7. Holding(q) \subseteq Holding(p)
    BY <2>4, <2>6, HeldMore
  <2> QED BY <1>2, <2>5, <2>7
<1> QED BY <1>5, <1>6 DEF Frame

\* A cycle settles what is held, if the cycles nested in it keep that.
LEMMA CycleSettles ==
  ASSUME BrokerHypothesis, NEW cycle, Safe(cycle), NEW p \in Frame, NEW b \in Holding(p)
  PROVE  CycleOf(b, cycle) \in Settled(p)
<1> DEFINE n == Len(b.nodes)
           steps == [i \in DOMAIN b.nodes |->
                       [x \in Broker |->
                          IF b.nodes[i].key \in Registered(x) /\ Stale(b.nodes[i])
                            THEN Expire(x, b.nodes[i].key, cycle) ELSE x]]
           swept == InTurn(b, steps)
           c == [swept EXCEPT !.orderBook = {bid \in @ : Expiry[bid] > clock}]
<1>1. Holding(p) \subseteq Broker
  BY DEF Holding
<1>2. n \in Nat /\ DOMAIN b.nodes = 1 .. n
  BY <1>1, BrokerParts
<1>3. Len(steps) = n /\ CycleOf(b, cycle) = Allocate(c)
  BY <1>2, StepsLen DEF CycleOf
<1>4. ASSUME NEW k \in 1 .. n, NEW x \in Holding(p) PROVE steps[k][x] \in Holding(p)
  <2>1. steps[k][x] = IF b.nodes[k].key \in Registered(x) /\ Stale(b.nodes[k])
                        THEN Expire(x, b.nodes[k].key, cycle) ELSE x
    BY <1>1, <1>2
  <2> HIDE DEF steps
  <2>2. b.nodes[k].key \in Registered(x) => Expire(x, b.nodes[k].key, cycle) \in Holding(p)
    BY ExpireKeeps
  <2> QED BY <2>1, <2>2
<1>5. swept \in Holding(p)
  <2> HIDE DEF steps
  <2> QED BY <1>2, <1>3, <1>4, InTurnKeeps
<1> HIDE DEF swept
<1>6. /\ c \in Broker /\ c.nodes = swept.nodes /\ c.assignments = swept.assignments
      /\ c.jgTaskQueue = swept.jgTaskQueue /\ swept \in Broker
  BY <1>1, <1>5 DEF Broker
<1> HIDE DEF c
<1>7. /\ Registered(c) = Registered(swept) /\ (Apart(swept) => Apart(c))
      /\ (Within(swept) => Within(c)) /\ (Backed(swept, p.left) => Backed(c, p.left))
      /\ (Fresh(swept, p.before) => Fresh(c, p.before))
  BY <1>6, SameWork
<1>8. TaskServed(swept, p.before) => TaskServed(c, p.before)
  BY <1>6, SameServed
<1>9. c \in Holding(p)
  BY <1>5, <1>6, <1>7, <1>8 DEF Holding
<1> QED BY <1>3, <1>9, AllocateSettles

\* Every broker is held when nothing is asked of it.
Lenient == [keys |-> {}, left |-> {}, before |-> 0, claims |-> {}]

LEMMA LenientHeld == Lenient \in Frame /\ Holding(Lenient) = Broker
BY DEF Lenient, Frame, Holding, Strict

LEMMA SettlesIsSafe == ASSUME NEW cycle, Settles(cycle) PROVE Safe(cycle)
BY DEF Settles, Safe, Settled

LEMMA NestedSettles ==
  ASSUME BrokerHypothesis, NEW cycle, Safe(cycle)
  PROVE  Settles([b \in Broker |-> CycleOf(b, cycle)])
<1> DEFINE g == [b \in Broker |-> CycleOf(b, cycle)]
<1>1. ASSUME NEW b \in Broker PROVE CycleOf(b, cycle) \in Broker
  <2>1. CycleOf(b, cycle) \in Settled(Lenient)
    BY LenientHeld, CycleSettles
  <2> QED BY <2>1, LenientHeld DEF Settled
<1>2. ASSUME NEW p \in Frame, NEW b \in Holding(p) PROVE g[b] \in Settled(p)
  <2>1. b \in Broker
    BY DEF Holding
  <2>2. g[b] = CycleOf(b, cycle)
    BY <2>1
  <2> QED BY <2>2, CycleSettles
<1>3. g \in [Broker -> Broker]
  BY <1>1
<1> HIDE DEF g
<1>4. Settles(g)
  BY <1>2, <1>3 DEF Settles
<1> QED BY <1>4 DEF g

\* However deeply the cycles are nested.
LEMMA CyclesSettle ==
  ASSUME BrokerHypothesis, NEW n \in Nat
  PROVE  Settles(Cycles[n])
<1> DEFINE D == {g \in [Broker -> Broker] : Settles(g)}
           none == [x \in Broker |-> x]
           a == [b \in Broker |-> CycleOf(b, none)]
           step == [g \in D |-> [b \in Broker |-> CycleOf(b, g)]]
<1>1. a \in D
  <2>1. Safe(none)
    <3>1. none \in [Broker -> Broker] /\ \A b \in Broker : none[b] = b
      OBVIOUS
    <3>2. \A p \in Frame : Holding(p) \subseteq Broker
      BY DEF Holding
    <3> HIDE DEF none
    <3> QED BY <3>1, <3>2 DEF Safe
  <2> HIDE DEF none
  <2>2. Settles(a)
    BY <2>1, NestedSettles
  <2> HIDE DEF a
  <2> QED BY <2>2 DEF Settles
<1>2. \A g \in D : [b \in Broker |-> CycleOf(b, g)] \in D
  <2> SUFFICES ASSUME NEW g \in D PROVE [b \in Broker |-> CycleOf(b, g)] \in D
    OBVIOUS
  <2> DEFINE h == [b \in Broker |-> CycleOf(b, g)]
  <2>1. Settles(h)
    BY SettlesIsSafe, NestedSettles
  <2> HIDE DEF h
  <2>2. h \in D
    BY <2>1 DEF Settles
  <2> QED BY <2>2 DEF h
<1>3. step \in [D -> D] /\ \A g \in D : step[g] = [b \in Broker |-> CycleOf(b, g)]
  BY <1>2
<1> HIDE DEF a, step
<1>4. \E f : Recurs(f, D, a, step)
  <2> HIDE DEF D
  <2> QED BY <1>1, <1>3, Recurrence
<1>5. PICK f \in [Nat -> D] : f[0] = a /\ \A k \in Nat : f[k + 1] = step[f[k]]
  BY <1>4 DEF Recurs
<1> DEFINE Value(g, k) ==
             LET nested == IF k = 0 THEN none ELSE g[k - 1] IN [b \in Broker |-> CycleOf(b, nested)]
           Is(g) == g = [k \in Nat |-> Value(g, k)]
<1>6. Is(f)
  <2>1. ASSUME NEW k \in Nat PROVE f[k] = Value(f, k)
    <3>1. CASE k = 0
      BY <1>5, <3>1 DEF a
    <3>2. CASE k # 0
      <4>1. k - 1 \in Nat /\ (k - 1) + 1 = k
        BY <3>2
      <4>2. f[(k - 1) + 1] = step[f[k - 1]] /\ f[k - 1] \in D
        BY <1>5, <4>1
      <4>3. f[k] = [b \in Broker |-> CycleOf(b, f[k - 1])]
        BY <1>3, <4>1, <4>2
      <4> QED BY <3>2, <4>3
    <3> QED BY <3>1, <3>2
  <2>2. f = [k \in Nat |-> f[k]]
    BY <1>5
  <2> HIDE DEF Value
  <2> QED BY <2>1, <2>2
<1>7. Is(Cycles)
  <2>1. Cycles = CHOOSE g : Is(g)
    BY DEF Cycles
  <2> HIDE DEF Is
  <2> QED BY <1>6, <2>1
<1>8. \A k \in Nat : Cycles[k] = Value(Cycles, k)
  <2> HIDE DEF Value
  <2> QED BY <1>7
<1> DEFINE S == {k \in Nat : Cycles[k] \in D}
<1>9. 0 \in S
  <2>1. Cycles[0] = a
    BY <1>8 DEF a
  <2> QED BY <1>1, <2>1
<1>10. ASSUME NEW k \in S PROVE k + 1 \in S
  <2>1. k + 1 \in Nat /\ k + 1 # 0 /\ (k + 1) - 1 = k
    OBVIOUS
  <2>2. Cycles[k + 1] = [b \in Broker |-> CycleOf(b, Cycles[k])]
    BY <1>8, <2>1
  <2> HIDE DEF D
  <2> QED BY <1>2, <2>1, <2>2
<1>11. S = Nat
  <2>1. S \in SUBSET Nat
    OBVIOUS
  <2> HIDE DEF S
  <2> QED BY <1>9, <1>10, <2>1, Induction
<1> QED BY <1>11

-----------------------------------------------------------------------------
(* The broker: its calls                                                      *)

\* What is asked of a call: nothing is left over, and bids are counted from its start.
Required(before, exact) ==
  [keys |-> ComputeNode, left |-> {}, before |-> before,
   claims |-> IF exact THEN {"apart", "within"} ELSE {"apart"}]

LEMMA RequiredIs ==
  ASSUME NEW before \in Nat, NEW exact \in BOOLEAN
  PROVE  /\ Required(before, exact) \in Frame
         /\ Required(before, exact).left = {}
         /\ Required(before, exact).before = before
         /\ Required(before, exact).keys = ComputeNode
         /\ Strict(Required(before, exact))
         /\ (Exact(Required(before, exact)) <=> exact)
BY DEF Required, Frame, Strict, Exact

\* What a call makes of the broker before its cycle, the cycle settles.
Intact(b, exact) == b \in Broker /\ Apart(b) /\ Backed(b, {}) /\ (exact => Within(b))

LEMMA RequiredHeld ==
  ASSUME NEW before \in Nat, NEW exact \in BOOLEAN, NEW b
  PROVE  /\ Intact(b, exact) /\ Fresh(b, before) => b \in Holding(Required(before, exact))
         /\ b \in Holding(Required(before, exact)) => Intact(b, exact)
         /\ b \in Settled(Required(before, exact)) => TaskServed(b, before) /\ Intact(b, exact)
<1> DEFINE p == Required(before, exact)
<1>1. /\ p \in Frame /\ p.left = {} /\ p.before = before /\ p.keys = ComputeNode
      /\ Strict(p) /\ (Exact(p) <=> exact)
  BY RequiredIs
<1>5. \A c \in Broker : Registered(c) \subseteq ComputeNode
  BY BrokerParts DEF Registered
<1> HIDE DEF p
<1>2. Intact(b, exact) /\ Fresh(b, before) => b \in Holding(p)
  BY <1>1, <1>5 DEF Intact, Holding
<1>3. b \in Holding(p) => Intact(b, exact)
  BY <1>1 DEF Intact, Holding
<1>4. b \in Settled(p) => TaskServed(b, before) /\ b \in Holding(p)
  BY <1>1 DEF Settled
<1> QED BY <1>2, <1>3, <1>4 DEF p

LEMMA CallSettles ==
  ASSUME BrokerHypothesis, NEW before \in Nat, NEW exact \in BOOLEAN,
         NEW b, Intact(b, exact), Fresh(b, before)
  PROVE  Intact(Cycle(b), exact) /\ TaskServed(Cycle(b), before)
<1> DEFINE p == Required(before, exact)
           n == Len(b.nodes)
<1>1. p \in Frame
  BY RequiredIs
<1>2. b \in Holding(p) /\ n \in Nat
  BY RequiredHeld, BrokerParts DEF Intact
<1> HIDE DEF p, n
<1>3. Cycles[n][b] \in Settled(p)
  BY <1>1, <1>2, CyclesSettle DEF Settles
<1>4. Cycle(b) \in Settled(p)
  BY <1>3 DEF Cycle, n
<1> QED BY <1>4, RequiredHeld DEF p

LEMMA AllFresh ==
  ASSUME NEW b \in Broker
  PROVE  Len(b.assignments) \in Nat /\ Fresh(b, Len(b.assignments))
<1>1. Len(b.assignments) \in Nat /\ DOMAIN b.assignments = 1 .. Len(b.assignments)
  BY BrokerParts
<1> QED BY <1>1 DEF Fresh, Live

\* A failure gives back what it takes.
LEMMA FreeIntact ==
  ASSUME BrokerHypothesis, NEW b, NEW exact \in BOOLEAN, Intact(b, exact), NEW i \in DOMAIN b.assignments,
         NEW c, c = Free(b, i), NEW still \in BOOLEAN, still => exact /\ i \in Live(b)
  PROVE  Intact(c, still) /\ Fresh(c, Len(b.assignments))
<1> DEFINE d == Failed(b, i)
           amount == b.assignments[i].amount
           key == b.assignments[i].node
<1>1. /\ b \in Broker /\ Apart(b) /\ Backed(b, {}) /\ (exact => Within(b))
      /\ Len(b.assignments) \in Nat /\ Fresh(b, Len(b.assignments))
  BY AllFresh DEF Intact
<1>2. /\ c \in Broker /\ c.assignments = d.assignments /\ Len(c.nodes) = Len(b.nodes)
      /\ \A j \in DOMAIN b.nodes :
           /\ c.nodes[j].key = b.nodes[j].key
           /\ \/ c.nodes[j].idle = b.nodes[j].idle
              \/ b.nodes[j].key = key /\ c.nodes[j].idle = b.nodes[j].idle + amount
  BY <1>1, FreeIs
<1>3. DOMAIN c.nodes = DOMAIN b.nodes
  BY <1>1, <1>2, BrokerParts
<1>4. /\ d \in Broker /\ Live(d) = Live(b) \ {i} /\ Amounts(d) = Amounts(b)
      /\ \A k \in DOMAIN b.assignments : d.assignments[k].node = b.assignments[k].node
  <2>1. d \in Broker /\ Live(d) = Live(b) \ {i} /\ Amounts(d) = Amounts(b)
    BY <1>1, FailedIs
  <2>2. \A k \in DOMAIN b.assignments : d.assignments[k].node = b.assignments[k].node
    BY <1>1, FailedIs
  <2> QED BY <2>1, <2>2
<1>5. /\ \A k : Given(d, k) = IF i \in On(b, k) THEN Given(b, k) - amount ELSE Given(b, k)
      /\ Fresh(d, Len(b.assignments))
  BY <1>1, FailedGives
<1> HIDE DEF d
<1>6. Live(c) = Live(d) /\ Amounts(c) = Amounts(d) /\ \A k : On(c, k) = On(d, k)
  BY <1>2 DEF Live, Amounts, On
<1>7. \A k : Given(c, k) = Given(d, k)
  BY <1>6 DEF Given
<1>8. Registered(c) = Registered(b) /\ Apart(c)
  BY <1>1, <1>2, <1>3 DEF Registered, Apart
<1>9. Backed(c, {})
  <2>1. Live(b) \subseteq DOMAIN b.assignments
    BY DEF Live
  <2> QED BY <1>1, <1>2, <1>4, <1>6, <1>8, <2>1 DEF Backed
<1>10. Fresh(c, Len(b.assignments))
  BY <1>2, <1>5, <1>6 DEF Fresh
<1>11. ASSUME still PROVE Within(c)
  <2> SUFFICES ASSUME NEW j \in DOMAIN b.nodes
               PROVE  c.nodes[j].idle + Given(c, b.nodes[j].key) <= Capacity[b.nodes[j].key]
    BY <1>2, <1>3 DEF Within
  <2>1. b.nodes[j].idle + Given(b, b.nodes[j].key) <= Capacity[b.nodes[j].key]
    BY <1>1, <1>11 DEF Within
  <2>2. i \in On(b, b.nodes[j].key) <=> b.nodes[j].key = key
    BY <1>11 DEF On
  <2>3. b.nodes[j].idle \in Nat /\ Given(b, b.nodes[j].key) \in Nat /\ amount \in Nat
        /\ Given(c, b.nodes[j].key) \in Nat
    BY <1>1, <1>2, BrokerParts, OnIs
  <2>4. Given(c, b.nodes[j].key) =
          IF b.nodes[j].key = key THEN Given(b, b.nodes[j].key) - amount ELSE Given(b, b.nodes[j].key)
    BY <1>5, <1>7, <2>2
  <2>5. \/ c.nodes[j].idle = b.nodes[j].idle
        \/ b.nodes[j].key = key /\ c.nodes[j].idle = b.nodes[j].idle + amount
    BY <1>2
  <2>6. Capacity[b.nodes[j].key] \in Nat
    BY <1>1, BrokerParts DEF BrokerHypothesis
  <2> HIDE DEF amount, key
  <2> QED BY <2>1, <2>3, <2>4, <2>5, <2>6
<1> QED BY <1>2, <1>8, <1>9, <1>10, <1>11 DEF Intact

\* Before a call runs its first cycle it may change what is asked for.
LEMMA RequestIntact ==
  ASSUME NEW b, NEW exact \in BOOLEAN, Intact(b, exact),
         NEW c \in Broker, c.nodes = b.nodes, c.assignments = b.assignments
  PROVE  Intact(c, exact) /\ Fresh(c, Len(b.assignments))
<1>1. b \in Broker /\ Fresh(b, Len(b.assignments))
  BY AllFresh DEF Intact
<1>2. /\ (Apart(b) => Apart(c)) /\ (Within(b) => Within(c))
      /\ (Backed(b, {}) => Backed(c, {}))
  BY <1>1, SameWork
<1>3. Fresh(c, Len(b.assignments))
  BY <1>1, SameWork
<1> QED BY <1>2, <1>3 DEF Intact

\* A node that registers takes the place it had, or the last.
Joined(b, node) ==
  IF node.key \in Registered(b) THEN [b EXCEPT !.nodes[At(b, node.key)] = node]
                                ELSE [b EXCEPT !.nodes = Append(@, node)]

LEMMA JoinedIs ==
  ASSUME NEW b \in Broker, Apart(b), NEW node \in NodeState, NEW c, c = Joined(b, node)
  PROVE  /\ c \in Broker /\ c.assignments = b.assignments /\ Calls(c) = Calls(b)
         /\ Apart(c) /\ Registered(b) \subseteq Registered(c)
         /\ \A j \in DOMAIN c.nodes :
              c.nodes[j] = node \/ (j \in DOMAIN b.nodes /\ c.nodes[j] = b.nodes[j])
<1> DEFINE key == node.key
           n == Len(b.nodes)
<1>1. /\ b.nodes \in Seq(NodeState) /\ n \in Nat /\ DOMAIN b.nodes = 1 .. n
      /\ \A j \in DOMAIN b.nodes : b.nodes[j] \in NodeState
  BY BrokerParts
<1>2. CASE key \in Registered(b)
  <2> DEFINE at == At(b, key)
             nodes == [b.nodes EXCEPT ![at] = node]
  <2>1. at \in DOMAIN b.nodes /\ b.nodes[at].key = key
    BY <1>2, AtIs
  <2>2. nodes \in Seq(NodeState) /\ DOMAIN nodes = DOMAIN b.nodes
        /\ \A j \in DOMAIN b.nodes : nodes[j] = IF j = at THEN node ELSE b.nodes[j]
    BY <1>1, <2>1
  <2>3. c = [b EXCEPT !.nodes = nodes]
    BY <1>2 DEF Joined
  <2> HIDE DEF nodes, at
  <2>4. /\ c \in Broker /\ c.assignments = b.assignments /\ Calls(c) = Calls(b) /\ c.nodes = nodes
    BY <2>2, <2>3 DEF Broker, Calls
  <2>5. \A j \in DOMAIN b.nodes : c.nodes[j].key = b.nodes[j].key
    BY <2>1, <2>2, <2>4
  <2>6. Apart(c) /\ Registered(b) \subseteq Registered(c)
    BY <2>2, <2>4, <2>5 DEF Apart, Registered
  <2> QED BY <2>2, <2>4, <2>6
<1>3. CASE key \notin Registered(b)
  <2> DEFINE nodes == Append(b.nodes, node)
  <2>1. /\ nodes \in Seq(NodeState) /\ DOMAIN nodes = 1 .. n + 1
        /\ nodes[n + 1] = node /\ \A j \in 1 .. n : nodes[j] = b.nodes[j]
    BY <1>1, AppendProperties
  <2>2. c = [b EXCEPT !.nodes = nodes]
    BY <1>3 DEF Joined
  <2> HIDE DEF nodes
  <2>3. /\ c \in Broker /\ c.assignments = b.assignments /\ Calls(c) = Calls(b) /\ c.nodes = nodes
    BY <2>1, <2>2 DEF Broker, Calls
  <2>4. \A j \in DOMAIN c.nodes :
          c.nodes[j] = node \/ (j \in DOMAIN b.nodes /\ c.nodes[j] = b.nodes[j])
    BY <1>1, <2>1, <2>3
  <2>5. Registered(b) \subseteq Registered(c)
    BY <1>1, <2>1, <2>3 DEF Registered
  <2>6. \A j \in DOMAIN b.nodes : b.nodes[j].key # key
    BY <1>3 DEF Registered
  <2>7. Apart(c)
    <3> SUFFICES ASSUME NEW i \in 1 .. n + 1, NEW j \in 1 .. n + 1,
                        nodes[i].key = nodes[j].key
                 PROVE  i = j
      BY <2>1, <2>3 DEF Apart
    <3>1. i = n + 1 \/ i \in 1 .. n
      BY <1>1
    <3>2. j = n + 1 \/ j \in 1 .. n
      BY <1>1
    <3> QED BY <1>1, <2>1, <2>6, <3>1, <3>2 DEF Apart
  <2> QED BY <2>3, <2>4, <2>5, <2>7
<1> QED BY <1>2, <1>3

LEMMA JoinedIntact ==
  ASSUME NEW b, NEW exact \in BOOLEAN, Intact(b, exact),
         NEW node \in NodeState, NEW c, c = Joined(b, node), NEW still \in BOOLEAN,
         still => exact /\ node.idle + Given(b, node.key) <= Capacity[node.key]
  PROVE  Intact(c, still) /\ Calls(c) = Calls(b)
<1>1. b \in Broker /\ Apart(b) /\ Backed(b, {}) /\ (exact => Within(b))
  BY DEF Intact
<1>2. /\ c \in Broker /\ c.assignments = b.assignments /\ Calls(c) = Calls(b)
      /\ Apart(c) /\ Registered(b) \subseteq Registered(c)
  BY <1>1, JoinedIs
<1>3. \A j \in DOMAIN c.nodes :
        c.nodes[j] = node \/ (j \in DOMAIN b.nodes /\ c.nodes[j] = b.nodes[j])
  BY <1>1, JoinedIs
<1>4. Live(c) = Live(b) /\ Amounts(c) = Amounts(b)
  BY <1>2 DEF Live, Amounts
<1>5. \A k : On(c, k) = On(b, k)
  BY <1>2, <1>4 DEF On
<1>6. \A k : Given(c, k) = Given(b, k)
  BY <1>4, <1>5 DEF Given
<1>7. Backed(c, {})
  BY <1>1, <1>2, <1>4 DEF Backed
<1>8. ASSUME still PROVE Within(c)
  BY <1>1, <1>3, <1>6, <1>8 DEF Within
<1> QED BY <1>2, <1>7, <1>8 DEF Intact

\* A report that counts the work under way leaves no more idle than there is.
LEMMA Reported ==
  ASSUME BrokerHypothesis, NEW b, Intact(b, TRUE), NEW key \in ComputeNode,
         NEW jg \in Nat, NEW busy \in Nat, jg + busy >= Given(b, key)
  PROVE  Idle(key, jg, busy) + Given(b, key) <= Capacity[key]
<1> DEFINE cap == Capacity[key]
           given == Given(b, key)
           idle == Idle(key, jg, busy)
<1>1. /\ b \in Broker /\ Apart(b) /\ Backed(b, {}) /\ Within(b)
      /\ cap \in Nat /\ given \in Nat
  BY OnIs DEF Intact, BrokerHypothesis
<1>2. given <= cap
  <2>1. CASE key \in Registered(b)
    <3>1. PICK i \in DOMAIN b.nodes : b.nodes[i].key = key
      BY <2>1 DEF Registered
    <3>2. b.nodes[i].idle \in Nat /\ b.nodes[i].idle + given <= cap
      BY <1>1, <3>1, BrokerParts DEF Within
    <3> HIDE DEF given, cap
    <3> QED BY <1>1, <3>2
  <2>2. CASE key \notin Registered(b)
    <3>1. On(b, key) = {}
      BY <1>1, <2>2 DEF On, Backed
    <3>2. given = 0
      BY <1>1, <3>1, SumEmpty, OnIs
    <3> HIDE DEF given, cap
    <3> QED BY <1>1, <3>2
  <2> QED BY <2>1, <2>2
<1>3. idle = IF 0 >= cap - jg - busy THEN 0 ELSE cap - jg - busy
  <2>1. cap - jg - busy \in Int
    BY <1>1
  <2>2. idle = Max({0, cap - jg - busy})
    BY DEF Idle
  <2> HIDE DEF idle, cap
  <2> QED BY <2>1, <2>2, Larger
<1>4. jg + busy >= given
  OBVIOUS
<1> HIDE DEF cap, given, idle
<1>5. idle + given <= cap
  BY <1>1, <1>2, <1>3, <1>4
<1> QED BY <1>5 DEF cap, given, idle

BrokerIInv == Intact(broker, honest) /\ clock \in Nat /\ honest \in BOOLEAN

\* What a call that runs cycles owes to the first of the tasks.
JGKept == Calls(broker') = Calls(broker) \/ TaskServed(broker', Len(broker.assignments))

LEMMA RegisterKeeps ==
  ASSUME BrokerHypothesis, BrokerIInv, NEW key \in ComputeNode, RegisterNode(key)
  PROVE  Intact(broker', honest') /\ honest' \in BOOLEAN /\ clock' = clock /\ JGKept
<1>1. /\ Intact(broker, honest) /\ broker \in Broker /\ clock \in Nat /\ honest \in BOOLEAN
  BY DEF BrokerIInv, Intact
<1>2. PICK known \in {Registered(broker) \cap {key}, {}} :
        LET jg == IF known = {} THEN 0 ELSE broker.nodes[At(broker, key)].jgClusterTFLOPS
            busy == IF known = {} THEN 0 ELSE broker.nodes[At(broker, key)].brokerTFLOPS
            node == [key |-> key, jgClusterTFLOPS |-> jg, brokerTFLOPS |-> busy,
                     idle |-> Idle(key, jg, busy), lastHeartbeatAt |-> clock]
        IN /\ broker' = IF key \in Registered(broker)
                          THEN [broker EXCEPT !.nodes[At(broker, key)] = node]
                          ELSE [broker EXCEPT !.nodes = Append(@, node)]
           /\ honest' = (honest /\ jg + busy >= Given(broker, key))
           /\ clock' = clock
  BY DEF RegisterNode
<1> DEFINE jg == IF known = {} THEN 0 ELSE broker.nodes[At(broker, key)].jgClusterTFLOPS
           busy == IF known = {} THEN 0 ELSE broker.nodes[At(broker, key)].brokerTFLOPS
           idle == Idle(key, jg, busy)
           node == [key |-> key, jgClusterTFLOPS |-> jg, brokerTFLOPS |-> busy,
                    idle |-> idle, lastHeartbeatAt |-> clock]
<1>3. jg \in Nat /\ busy \in Nat
  <2>1. known # {} => key \in Registered(broker)
    BY <1>2
  <2>2. known # {} => At(broker, key) \in DOMAIN broker.nodes
    BY <1>1, <2>1, AtIs
  <2> QED BY <1>1, <2>2, BrokerParts
<1>4. honest' = (honest /\ jg + busy >= Given(broker, key)) /\ clock' = clock
  BY <1>2
<1>5. broker' = Joined(broker, node)
  BY <1>2 DEF Joined
<1> HIDE DEF jg, busy
<1>6. idle \in Nat
  <2>1. Capacity[key] - jg - busy \in Int
    BY <1>3 DEF BrokerHypothesis
  <2>2. idle = IF 0 >= Capacity[key] - jg - busy THEN 0 ELSE Capacity[key] - jg - busy
    BY <2>1, Larger DEF Idle
  <2> HIDE DEF idle
  <2> QED BY <2>1, <2>2
<1>7. ASSUME honest' PROVE honest /\ idle + Given(broker, key) <= Capacity[key]
  <2>1. honest /\ Intact(broker, TRUE) /\ jg + busy >= Given(broker, key)
    BY <1>1, <1>4, <1>7
  <2> QED BY <1>3, <2>1, Reported
<1> HIDE DEF idle
<1>8. node \in NodeState /\ node.key = key /\ node.idle = idle
  BY <1>1, <1>3, <1>6 DEF NodeState
<1> HIDE DEF node
<1>9. honest' \in BOOLEAN
  BY <1>4
<1>10. honest' => honest /\ node.idle + Given(broker, node.key) <= Capacity[node.key]
  BY <1>7, <1>8
<1>11. Intact(broker', honest') /\ Calls(broker') = Calls(broker)
  BY <1>1, <1>5, <1>8, <1>9, <1>10, JoinedIntact
<1> QED BY <1>4, <1>9, <1>11 DEF JGKept

LEMMA DeregisterKeeps ==
  ASSUME BrokerHypothesis, BrokerIInv, NEW key, DeregisterNode(key)
  PROVE  Intact(broker', honest) /\ JGKept
<1> DEFINE n == Len(broker.assignments)
           p == Required(n, honest)
           cycle == Cycles[Len(broker.nodes)]
<1>1. /\ Intact(broker, honest) /\ broker \in Broker /\ honest \in BOOLEAN
      /\ n \in Nat /\ Fresh(broker, n) /\ Len(broker.nodes) \in Nat
  BY AllFresh, BrokerParts DEF BrokerIInv, Intact
<1>2. key \in Registered(broker) /\ broker' = Expire(broker, key, cycle)
  BY DEF DeregisterNode
<1> HIDE DEF n
<1>3. p \in Frame /\ Strict(p) /\ p.before = n
  BY <1>1, RequiredIs
<1>4. broker \in Holding(p)
  BY <1>1, RequiredHeld
<1> HIDE DEF p
<1>5. Settles(cycle) /\ Safe(cycle)
  BY <1>1, CyclesSettle, SettlesIsSafe
<1> HIDE DEF cycle
<1>6. broker' \in Holding(p) /\ (Calls(broker') = Calls(broker) \/ TaskServed(broker', n))
  BY <1>2, <1>3, <1>4, <1>5, ExpireKeeps
<1>7. Intact(broker', honest)
  BY <1>1, <1>6, RequiredHeld DEF p
<1> QED BY <1>6, <1>7 DEF JGKept, n

LEMMA SubmitKeeps ==
  ASSUME BrokerHypothesis, BrokerIInv, NEW bid \in Bid, SubmitBid(bid)
  PROVE  Intact(broker', honest) /\ JGKept
<1> DEFINE b == [broker EXCEPT !.orderBook = @ \cup {bid}]
           n == Len(broker.assignments)
<1>1. Intact(broker, honest) /\ broker \in Broker /\ honest \in BOOLEAN /\ n \in Nat
  BY AllFresh DEF BrokerIInv, Intact
<1>2. b \in Broker /\ b.nodes = broker.nodes /\ b.assignments = broker.assignments
  BY <1>1 DEF Broker
<1>3. broker' = Cycle(b)
  BY DEF SubmitBid
<1> HIDE DEF b
<1>4. Intact(b, honest) /\ Fresh(b, n)
  BY <1>1, <1>2, RequestIntact
<1> HIDE DEF n
<1>5. Intact(broker', honest) /\ TaskServed(broker', n)
  BY <1>1, <1>3, <1>4, CallSettles
<1> QED BY <1>5 DEF JGKept, n

LEMMA QueueKeeps ==
  ASSUME BrokerHypothesis, BrokerIInv, NEW task \in Task, QueueJGClusterTask(task)
  PROVE  Intact(broker', honest) /\ JGKept
<1> DEFINE queue == Append(broker.jgTaskQueue, task)
           b == [broker EXCEPT !.jgTaskQueue = queue]
           n == Len(broker.assignments)
<1>1. Intact(broker, honest) /\ broker \in Broker /\ honest \in BOOLEAN /\ n \in Nat
  BY AllFresh DEF BrokerIInv, Intact
<1>2. queue \in Seq(Task)
  BY <1>1, BrokerParts, AppendProperties
<1>3. broker' = Cycle(b)
  BY DEF QueueJGClusterTask
<1> HIDE DEF queue
<1>4. b \in Broker /\ b.nodes = broker.nodes /\ b.assignments = broker.assignments
  BY <1>1, <1>2 DEF Broker
<1> HIDE DEF b
<1>5. Intact(b, honest) /\ Fresh(b, n)
  BY <1>1, <1>4, RequestIntact
<1> HIDE DEF n
<1>6. Intact(broker', honest) /\ TaskServed(broker', n)
  BY <1>1, <1>3, <1>5, CallSettles
<1> QED BY <1>6 DEF JGKept, n

LEMMA FailKeeps ==
  ASSUME BrokerHypothesis, BrokerIInv, NEW i \in DOMAIN broker.assignments, FailAssignment(i)
  PROVE  Intact(broker', honest') /\ honest' \in BOOLEAN /\ JGKept
<1> DEFINE b == Free(broker, i)
           n == Len(broker.assignments)
<1>1. Intact(broker, honest) /\ broker \in Broker /\ honest \in BOOLEAN /\ n \in Nat
  BY AllFresh DEF BrokerIInv, Intact
<1>2. broker' = Cycle(b) /\ honest' = (honest /\ i \in Live(broker))
  BY DEF FailAssignment
<1>3. honest' \in BOOLEAN /\ (honest' => honest /\ i \in Live(broker))
  BY <1>2
<1> HIDE DEF b
<1>4. Intact(b, honest') /\ Fresh(b, n)
  BY <1>1, <1>3, FreeIntact DEF b
<1> HIDE DEF n
<1>5. Intact(broker', honest') /\ TaskServed(broker', n)
  BY <1>1, <1>2, <1>3, <1>4, CallSettles
<1> QED BY <1>3, <1>5 DEF JGKept, n

LEMMA BrokerStart == BrokerInit => BrokerIInv
<1> SUFFICES ASSUME BrokerInit PROVE BrokerIInv
  OBVIOUS
<1>1. /\ broker = [nodes |-> <<>>, orderBook |-> {}, assignments |-> <<>>, jgTaskQueue |-> <<>>]
      /\ clock = 0 /\ honest = TRUE
  BY DEF BrokerInit
<1>2. broker \in Broker /\ DOMAIN broker.nodes = {} /\ DOMAIN broker.assignments = {}
  <2>1. /\ <<>> \in Seq(NodeState) /\ <<>> \in Seq(Assignment) /\ <<>> \in Seq(Task)
        /\ DOMAIN <<>> = {}
    BY EmptySeq
  <2> QED BY <1>1, <2>1 DEF Broker
<1>3. Intact(broker, honest)
  BY <1>2 DEF Intact, Apart, Backed, Within, Live
<1> QED BY <1>1, <1>3 DEF BrokerIInv

\* Every step keeps the invariant, and serves the cluster's tasks first.
LEMMA BrokerStep ==
  ASSUME BrokerHypothesis, BrokerIInv, [BrokerNext]_brokerVars
  PROVE  BrokerIInv' /\ JGKept
<1>1. Intact(broker, honest) /\ clock \in Nat /\ honest \in BOOLEAN
  BY DEF BrokerIInv
<1>2. Intact(broker', honest') /\ clock' \in Nat /\ honest' \in BOOLEAN /\ JGKept
  <2>1. ASSUME NEW key \in ComputeNode, RegisterNode(key)
        PROVE  Intact(broker', honest') /\ clock' \in Nat /\ honest' \in BOOLEAN /\ JGKept
    BY <1>1, <2>1, RegisterKeeps
  <2>2. ASSUME NEW key \in ComputeNode, DeregisterNode(key)
        PROVE  Intact(broker', honest') /\ clock' \in Nat /\ honest' \in BOOLEAN /\ JGKept
    <3>1. honest' = honest /\ clock' = clock
      BY <2>2 DEF DeregisterNode
    <3> QED BY <1>1, <2>2, <3>1, DeregisterKeeps
  <2>3. ASSUME NEW bid \in Bid, SubmitBid(bid)
        PROVE  Intact(broker', honest') /\ clock' \in Nat /\ honest' \in BOOLEAN /\ JGKept
    <3>1. honest' = honest /\ clock' = clock
      BY <2>3 DEF SubmitBid
    <3> QED BY <1>1, <2>3, <3>1, SubmitKeeps
  <2>4. ASSUME NEW task \in Task, QueueJGClusterTask(task)
        PROVE  Intact(broker', honest') /\ clock' \in Nat /\ honest' \in BOOLEAN /\ JGKept
    <3>1. honest' = honest /\ clock' = clock
      BY <2>4 DEF QueueJGClusterTask
    <3> QED BY <1>1, <2>4, <3>1, QueueKeeps
  <2>5. ASSUME NEW i \in DOMAIN broker.assignments, FailAssignment(i)
        PROVE  Intact(broker', honest') /\ clock' \in Nat /\ honest' \in BOOLEAN /\ JGKept
    <3>1. clock' = clock
      BY <2>5 DEF FailAssignment
    <3> QED BY <1>1, <2>5, <3>1, FailKeeps
  <2>6. CASE Tick
    BY <1>1, <2>6 DEF Tick, JGKept
  <2>7. CASE UNCHANGED brokerVars
    BY <1>1, <2>7 DEF brokerVars, JGKept
  <2> QED BY <2>1, <2>2, <2>3, <2>4, <2>5, <2>6, <2>7 DEF BrokerNext
<1>3. BrokerIInv'
  BY <1>2 DEF BrokerIInv
<1> QED BY <1>2, <1>3

\* Work the broker handed out is on a registered node, no key is registered
\* twice, and, as long as nodes report what they hold and no assignment is failed
\* twice, no node is given more than it has (compute-broker.ts).
THEOREM BrokerSafe == ASSUME BrokerHypothesis PROVE BrokerSpec => []BrokerInv
<1>1. BrokerInit => BrokerIInv
  BY BrokerStart
<1>2. BrokerIInv /\ [BrokerNext]_brokerVars => BrokerIInv'
  BY BrokerStep
<1>3. BrokerIInv => BrokerInv
  <2> SUFFICES ASSUME BrokerIInv PROVE BrokerInv
    OBVIOUS
  <2>1. Apart(broker) /\ Backed(broker, {}) /\ (honest => Within(broker))
    BY DEF BrokerIInv, Intact
  <2>2. \A i \in Live(broker) : broker.assignments[i].node \in Registered(broker)
    BY <2>1 DEF Backed
  <2>3. IsInjective([i \in DOMAIN broker.nodes |-> broker.nodes[i].key])
    BY <2>1 DEF IsInjective, Apart
  <2> QED BY <2>1, <2>2, <2>3 DEF BrokerInv, Within
<1> QED BY <1>1, <1>2, <1>3, PTL DEF BrokerSpec

\* No call that runs allocation cycles gives bids capacity that the first of the
\* cluster's waiting tasks could have used (queueJGClusterTask), in whatever
\* order its nested cycles expired nodes and failed their work.
THEOREM BrokerServes == ASSUME BrokerHypothesis PROVE BrokerSpec => JGFirst
<1>1. BrokerInit => BrokerIInv
  BY BrokerStart
<1>2. BrokerIInv /\ [BrokerNext]_brokerVars => BrokerIInv'
  BY BrokerStep
<1>3. BrokerIInv /\ [BrokerNext]_brokerVars => [JGServed]_brokerVars
  <2> SUFFICES ASSUME BrokerIInv, [BrokerNext]_brokerVars PROVE JGServed
    OBVIOUS
  <2>1. JGKept
    BY BrokerStep
  <2> QED BY <2>1 DEF JGKept, JGServed, Calls
<1> QED BY <1>1, <1>2, <1>3, PTL DEF BrokerSpec, JGFirst
==============================================================================
