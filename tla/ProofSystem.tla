------------------------------ MODULE ProofSystem ------------------------------
(***************************************************************************)
(* Compute proofs: the kernels proved and the keys of their ceremony       *)
(* (rust/src/zkp_verify.rs), the circuit registry and the verifier with    *)
(* its modes (crypto/zkp.ts), the research receipts (crypto/pq-zkp.ts) and *)
(* the choice between them (crypto/compute-proof.ts).                      *)
(*                                                                         *)
(* Curve points are their exponents, over a small prime: a contribution    *)
(* multiplies delta, and the check of a proof needs its C element times    *)
(* the delta of the key to be what the first setup gave.  The Poseidon     *)
(* hash of a kernel's inputs and outputs is injective; a commitment is a   *)
(* number that may exceed the field.  Epochs and weights are exact.        *)
(***************************************************************************)
EXTENDS Integers, SequencesExt, FiniteSetsExt

CONSTANTS
  Prime,       \* order of the exponents
  Field,       \* order of the public inputs
  Circuit,     \* registered circuits; each has a kernel
  Witness,     \* per circuit, the kernel inputs that are proved
  Flops,       \* per circuit, the constant its constraints bind
  Least, Most, \* per circuit, the weights it may attest
  Epoch, Claimed,   \* epoch slots, claimed weights
  Production,  \* NODE_ENV is production
  MaxContributions, MaxProofs   \* bounds

\* What a contribution multiplies has an inverse.
ProofHypothesis ==
  /\ Prime \in Nat /\ Prime > 1
  /\ \A inc \in 1 .. Prime - 1 : \E v \in 1 .. Prime - 1 : (v * inc) % Prime = 1

VARIABLES
  pk,        \* the proving key: delta in both groups, and the scale of C
  rounds,    \* contributions made
  registry,  \* per circuit, Placeholder or the delta of its key
  proofs,    \* proofs made: [circuit, commitment, flops, epoch, scale]
  mode, module, pqMode,
  up         \* the program runs

proofVars == <<pk, rounds, registry, proofs, mode, module, pqMode, up>>

Setup == [d1 |-> 1, d2 |-> 1, scale |-> 1]
Placeholder == 0
Truncated == [circuit |-> "none", commitment |-> 0, flops |-> 0, epoch |-> 0, scale |-> 0]

ProofInit ==
  /\ pk = Setup /\ rounds = 0
  /\ registry = [c \in Circuit |-> Placeholder]
  /\ proofs = {}
  /\ mode = "strict" /\ pqMode = "strict" /\ module = "unloaded" /\ up = TRUE

-----------------------------------------------------------------------------
(* Kernels.                                                                *)

\* y[i] is the sum of h[j] * x[i + j]: a valid convolution.
Conv(x, h) ==
  [i \in 1 .. Len(x) - Len(h) + 1 |->
     FoldLeft(LAMBDA sum, j : sum + h[j] * x[i + j - 1], 0, [j \in DOMAIN h |-> j])]

\* A matrix, row by row, times a vector.
MatVec(w, x) ==
  [r \in 1 .. Len(w) \div Len(x) |->
     FoldLeft(LAMBDA sum, c : sum + w[(r - 1) * Len(x) + c] * x[c], 0,
              [c \in DOMAIN x |-> c])]

Output(c, a, b) == IF c = "conv" THEN Conv(a, b) ELSE MatVec(a, b)

\* Injective while the values stay below ten.
Poseidon(io) == FoldLeft(LAMBDA n, v : 10 * n + v, 0, io) % Field

Commitment(c, w) == Poseidon(w[1] \o w[2] \o Output(c, w[1], w[2]))

InverseOf(inc) == CHOOSE v \in 1 .. Prime - 1 : (v * inc) % Prime = 1

\* Mutant: the queries that carry 1/delta are not rescaled.
ContributedUnscaled(key, inc) ==
  [d1 |-> (key.d1 * inc) % Prime, d2 |-> (key.d2 * inc) % Prime, scale |-> key.scale]

\* ceremony_contribute
Contributed(key, inc) ==
  [d1 |-> (key.d1 * inc) % Prime, d2 |-> (key.d2 * inc) % Prime,
   scale |-> (key.scale * InverseOf(inc)) % Prime]

Contribute(inc) ==
  /\ rounds < MaxContributions /\ rounds' = rounds + 1
  /\ pk' = Contributed(pk, inc)
  /\ UNCHANGED <<registry, proofs, mode, module, pqMode, up>>

\* A release or a demo registers the key of the ceremony so far.
Install(c) ==
  /\ registry' = [registry EXCEPT ![c] = pk.d2]
  /\ UNCHANGED <<pk, rounds, proofs, mode, module, pqMode, up>>

\* prove_conv_json, groth16_prove_matvec
Prove(c, w, epoch) ==
  /\ Cardinality(proofs) < MaxProofs
  /\ proofs' = proofs \cup {[circuit |-> c, commitment |-> Commitment(c, w),
                             flops |-> Flops[c], epoch |-> epoch, scale |-> pk.scale]}
  /\ UNCHANGED <<pk, rounds, registry, mode, module, pqMode, up>>

-----------------------------------------------------------------------------
(* The verifier.                                                           *)

\* Mutant: production may run the structural verifier.
ModeAllowedAlways(m) == TRUE

ModeAllowed(m) == ~ (m = "simnet" /\ Production)

\* loadVerifierWasm.  A load that throws ends the program (src/index.ts).
Load(m, available) ==
  IF ~ ModeAllowed(m) THEN
    up' = FALSE /\ UNCHANGED <<mode, module>>
  ELSE
    /\ mode' = m
    /\ CASE module # "unloaded" ->
              module' = module /\ up' = ~ (m = "strict" /\ module = "stub")
         [] module = "unloaded" /\ available -> module' = "real" /\ up' = up
         [] module = "unloaded" /\ ~ available /\ m = "strict" ->
              module' = module /\ up' = FALSE
         [] OTHER -> module' = "stub" /\ up' = up

LoadVerifier(m, available) ==
  /\ Load(m, available)
  /\ UNCHANGED <<pk, rounds, registry, proofs, pqMode>>

SetMockVerifier ==
  /\ IF Production THEN up' = FALSE /\ UNCHANGED module ELSE module' = "mock" /\ up' = up
  /\ UNCHANGED <<pk, rounds, registry, proofs, mode, pqMode>>

SetPQVerifierMode(m) ==
  /\ IF ModeAllowed(m) THEN pqMode' = m /\ up' = up ELSE up' = FALSE /\ UNCHANGED pqMode
  /\ UNCHANGED <<pk, rounds, registry, proofs, mode, module>>

\* A claim is what a block carries: the scheme, the circuit, the claimed weight
\* and commitment, the epoch of its public inputs, and a proof.
PublicInputs(commitment, weight, epoch) == <<commitment % Field, weight, epoch>>

\* Mutant: a proof counts under any key of its circuit.
PairingAnyKey(key, proof, inputs) == inputs = <<proof.commitment, proof.flops, proof.epoch>>

\* verify_groth16_core: the key is made of points and the equation holds.
Pairing(key, proof, inputs) ==
  /\ key # Placeholder
  /\ (proof.scale * key) % Prime = 1
  /\ inputs = <<proof.commitment, proof.flops, proof.epoch>>

\* What the resident module answers; the stub and a mock accept everything.
Answer(claim, inputs) ==
  CASE module = "unloaded" -> FALSE
    [] module \in {"stub", "mock"} -> TRUE
    [] mode = "simnet" -> claim.proof # Truncated
    [] OTHER -> /\ claim.proof # Truncated /\ claim.proof.circuit = claim.circuit
                /\ Pairing(registry[claim.circuit], claim.proof, inputs)

\* verifyComputeProof
Groth16(claim, epoch) ==
  /\ claim.weight >= Least[claim.circuit] /\ claim.weight <= Most[claim.circuit]
  /\ claim.epoch = epoch
  /\ Answer(claim, PublicInputs(claim.commitment, claim.weight, epoch))

\* pqVerifyProofForConsensus: a receipt of work, never a proof of it.
Receipt(claim) ==
  /\ pqMode = "simnet"
  /\ claim.weight >= Least[claim.circuit] /\ claim.weight <= Most[claim.circuit]

\* verifyPortableComputeProof
Accepts(claim, epoch) == IF claim.scheme = "pq" THEN Receipt(claim) ELSE Groth16(claim, epoch)

\* batchVerifyComputeProofs: what passes alone goes through the batch, and its
\* answer is put back where the claim was.
Batch(claims, epoch) ==
  LET alone == [i \in DOMAIN claims |-> Groth16(claims[i], epoch)]
      valid[n \in 0 .. Len(claims)] ==
        IF n = 0 THEN <<>> ELSE IF alone[n] THEN Append(valid[n - 1], n) ELSE valid[n - 1]
      sent == valid[Len(claims)]
      answers == [j \in DOMAIN sent |->
                    Answer(claims[sent[j]], PublicInputs(claims[sent[j]].commitment,
                                                   claims[sent[j]].weight, epoch))]
  IN  [i \in DOMAIN claims |->
         alone[i] /\ \E j \in DOMAIN sent : sent[j] = i /\ answers[j]]

\* Claims on the proofs made, with a weight, a commitment or a slot of their own.
Claims ==
  [scheme : {"groth16", "pq"}, circuit : Circuit, weight : Claimed,
   commitment : {p.commitment : p \in proofs} \cup {p.commitment + Field : p \in proofs},
   epoch : Epoch, proof : proofs \cup {Truncated}]

ProofNext ==
  /\ up
  /\ \/ \E inc \in 1 .. Prime - 1 : Contribute(inc)
     \/ \E c \in Circuit : Install(c)
     \/ \E c \in Circuit, e \in Epoch : \E w \in Witness[c] : Prove(c, w, e)
     \/ \E m \in {"strict", "simnet"} :
          \/ \E available \in BOOLEAN : LoadVerifier(m, available)
          \/ SetPQVerifierMode(m)
     \/ SetMockVerifier

ProofSpec == ProofInit /\ [][ProofNext]_proofVars

-----------------------------------------------------------------------------
\* However often the ceremony went on, its key belongs to itself.
CeremonyConsistent == pk.d1 = pk.d2 /\ (pk.scale * pk.d2) % Prime = 1

\* The key a proof verifies under is one it was made for.
Proved(claim) ==
  \E p \in proofs :
    /\ p = claim.proof /\ p.circuit = claim.circuit
    /\ p.commitment = claim.commitment % Field
    /\ p.flops = claim.weight /\ p.epoch = claim.epoch

(* In production, or with the real verifier in strict mode, what is        *)
(* accepted was computed: this kernel, on inputs with this commitment, in  *)
(* this slot, for this much work; and a batch answers for each claim what  *)
(* the claim gets alone.                                                   *)
AcceptedIsProved ==
  module # "unloaded" /\ up =>
    \A claim \in Claims, e \in Epoch :
      /\ /\ Accepts(claim, e)
         /\ Production \/ (mode = "strict" /\ module = "real" /\ pqMode = "strict")
         => Proved(claim) /\ claim.epoch = e /\ registry[claim.circuit] # Placeholder
      /\ LET twin == [claim EXCEPT !.epoch = e] IN
         Batch(<<claim, twin>>, e) = <<Groth16(claim, e), Groth16(twin, e)>>

(* A running production process never holds the structural mode, the stub   *)
(* or a mock; and no process goes on with the stub in strict mode.          *)
FailsClosedOnStub ==
  up => /\ ~ (mode = "strict" /\ module = "stub")
        /\ Production => /\ mode = "strict" /\ pqMode = "strict"
                         /\ module \in {"unloaded", "real"}

ProofSystemInv == CeremonyConsistent /\ FailsClosedOnStub /\ AcceptedIsProved
==============================================================================
