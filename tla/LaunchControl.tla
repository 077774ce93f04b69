---------------------------- MODULE LaunchControl ----------------------------
(***************************************************************************)
(* The gate of a value-bearing launch (config/mainnet-launch-control.ts,   *)
(* mainnet-readiness.ts, crypto/proof-registry.ts): a policy of trusted    *)
(* keys, a ledger of signed evidence per gate, a manifest of proving keys, *)
(* and a launch record that M of N keys sign.  The files are edited by     *)
(* people, one at a time and in any order, while signatures are collected; *)
(* the evaluation reads them as they are.  A digest is the value it        *)
(* digests, a signature the pair of its key and of the text it was made    *)
(* over: both are injective in the code.                                   *)
(***************************************************************************)
EXTENDS Integers, Sequences, FiniteSets

CONSTANTS
  Gate,             \* the readiness gates
  IndependentGate,  \* those whose evidence an independent reviewer must sign
  Key,              \* signing keys
  Reviewer,         \* the keys whose role is independent-reviewer
  Commit,           \* release commits
  Manifest,         \* proof registry manifests
  Policies,         \* launch policies
  MaxSignatures,    \* bound: signatures collected on one launch record
  MaxEdits,         \* bound: edits of the files
  LastTime           \* bound on the clock

None == [absent |-> TRUE]

VARIABLES
  policy,    \* [threshold, reviewers, keys]: the policy file
  ledger,    \* [commit, records]: the evidence ledger, a record or None per gate
  registry,  \* the proof registry manifest, or None
  record,    \* the launch record, an envelope, or None
  now,       \* the evaluator's clock
  made,      \* every <<key, payload>> a key holder has ever signed (history)
  edits      \* edits so far

launchVars == <<policy, ledger, registry, record, now, made, edits>>

(* A registry manifest lists the ceremony's participants, the reviewers   *)
(* and the keys of the circuits.                                          *)
SoundKey(k) ==
  /\ k.inputs \in 0 .. 64
  /\ k.points = k.inputs + 1
  /\ k.least <= k.most

RegistryReviewed(m) ==
  /\ m # None
  /\ m.participants >= 2
  /\ m.reviewers >= 2
  /\ Len(m.keys) \in 1 .. 64
  /\ \A i \in DOMAIN m.keys : SoundKey(m.keys[i])
  /\ \A i, j \in DOMAIN m.keys : m.keys[i].circuit = m.keys[j].circuit => i = j

(* null unless the manifest is reviewed *)
RegistryDigest(m) == IF RegistryReviewed(m) THEN m ELSE None

PolicyValid(p) ==
  /\ p.threshold \in 2 .. 16
  /\ p.reviewers >= 1
  /\ Cardinality(p.keys) >= p.threshold
  /\ p.keys \cap Reviewer # {}

(* One bad signature, of an unknown key or over another text, or a second *)
(* one of the same key, voids the envelope.                               *)
SignatureGood(p, e, i) ==
  /\ e.signatures[i].key \in p.keys
  /\ e.signatures[i].over = e.payload
  /\ \A j \in 1 .. i - 1 : e.signatures[j].key # e.signatures[i].key

Signers(p, e) ==
  {e.signatures[i].key : i \in {j \in DOMAIN e.signatures : SignatureGood(p, e, j)}}

EnvelopeValid(p, e, kind, least, independent) ==
  /\ e.payload.kind = kind
  /\ Len(e.signatures) \in 1 .. 32
  /\ \A i \in DOMAIN e.signatures : SignatureGood(p, e, i)
  /\ Cardinality(Signers(p, e)) >= least
  /\ independent => Signers(p, e) \cap Reviewer # {}

(* A gate is open with a complete record for this release, signed, and    *)
(* where the gate asks for it attested by trusted reviewers.              *)
GateSatisfied(p, l, gate, commit) ==
  LET e == l.records[gate]
  IN /\ e # None
     /\ e.payload.commit = commit
     /\ e.payload.complete
     /\ gate \in IndependentGate =>
          /\ e.payload.reviewers # {}
          /\ e.payload.reviewers \subseteq p.keys \cap Reviewer
     /\ EnvelopeValid(p, e, "evidence", 1, gate \in IndependentGate)

LedgerSatisfied(p, l, commit) ==
  /\ l.commit = commit
  /\ \A gate \in Gate : GateSatisfied(p, l, gate, commit)

LeastSigners(p) == IF p.threshold > 2 THEN p.threshold ELSE 2

RecordBindsRegistry(l, m, payload) == payload.registry = RegistryDigest(m)

RecordBinds(l, m, payload) ==
  /\ payload.ledger = l
  /\ payload.registry = RegistryDigest(m)

InForce(payload) == payload.issued <= now /\ now < payload.expires

(* evaluateLaunchRequest: ready when no reason is left against it. *)
Ready ==
  /\ record # None
  /\ PolicyValid(policy)
  /\ EnvelopeValid(policy, record, "launch", LeastSigners(policy), TRUE)
  /\ RecordBinds(ledger, registry, record.payload)
  /\ RegistryReviewed(registry)
  /\ InForce(record.payload)
  /\ record.payload.readiness
  /\ LedgerSatisfied(policy, ledger, record.payload.commit)
------------------------------------------------------------------------------
LaunchInit ==
  /\ policy \in Policies
  /\ ledger = [commit |-> CHOOSE c \in Commit : TRUE, records |-> [g \in Gate |-> None]]
  /\ registry = None
  /\ record = None
  /\ now = 0
  /\ made = {}
  /\ edits = 0

Edit == edits < MaxEdits /\ edits' = edits + 1

Signature(k, payload) == [key |-> k, over |-> payload]

Sign(k, payload) == made' = made \cup {<<k, payload>>}

(* A key holder signs evidence for a gate and files it in the ledger. *)
FileEvidence(k, gate, commit, complete) ==
  LET payload == [kind |-> "evidence", gate |-> gate, commit |-> commit,
                  complete |-> complete, reviewers |-> {k} \cap Reviewer]
  IN /\ Edit
     /\ ledger' = [ledger EXCEPT !.records[gate] =
                     [payload |-> payload, signatures |-> <<Signature(k, payload)>>]]
     /\ Sign(k, payload)
     /\ UNCHANGED <<policy, registry, record, now>>

(* The ledger is moved to another release; its records stay. *)
Retarget(commit) ==
  /\ Edit
  /\ ledger' = [ledger EXCEPT !.commit = commit]
  /\ UNCHANGED <<policy, registry, record, now, made>>

ReplaceRegistry(m) ==
  /\ Edit
  /\ registry' = m
  /\ UNCHANGED <<policy, ledger, record, now, made>>

ReplacePolicy(p) ==
  /\ Edit
  /\ policy' = p
  /\ UNCHANGED <<ledger, registry, record, now, made>>

(* A launch record is drawn up from the files of this moment; the         *)
(* signatures of an earlier one may be left on it.                        *)
DrawUp(readiness, keep) ==
  /\ Edit
  /\ record' = [payload |-> [kind |-> "launch", commit |-> ledger.commit,
                             ledger |-> ledger, registry |-> RegistryDigest(registry),
                             readiness |-> readiness, issued |-> now, expires |-> now + 1],
                signatures |-> IF keep /\ record # None THEN record.signatures ELSE <<>>]
  /\ UNCHANGED <<policy, ledger, registry, now, made>>

(* A holder signs the record as it stands, perhaps a second time. *)
SignRecord(k) ==
  /\ record # None
  /\ Len(record.signatures) < MaxSignatures
  /\ record' = [record EXCEPT !.signatures = Append(@, Signature(k, record.payload))]
  /\ Sign(k, record.payload)
  /\ UNCHANGED <<policy, ledger, registry, now, edits>>

LaunchTick ==
  /\ now < LastTime
  /\ now' = now + 1
  /\ UNCHANGED <<policy, ledger, registry, record, made, edits>>

LaunchNext ==
  \/ \E k \in Key, gate \in Gate, commit \in Commit, complete \in BOOLEAN :
       FileEvidence(k, gate, commit, complete)
  \/ \E commit \in Commit : Retarget(commit)
  \/ \E m \in Manifest : ReplaceRegistry(m)
  \/ \E p \in Policies : ReplacePolicy(p)
  \/ \E readiness, keep \in BOOLEAN : DrawUp(readiness, keep)
  \/ \E k \in Key : SignRecord(k)
  \/ LaunchTick

LaunchSpec == LaunchInit /\ [][LaunchNext]_launchVars
------------------------------------------------------------------------------
(* A launch is allowed only when at least two distinct key holders, one   *)
(* of them an independent reviewer, and as many as the policy asks, all   *)
(* trusted now, have signed the very ledger and registry that are in      *)
(* place now, and every gate's evidence in that ledger was signed for the *)
(* same release, by an independent reviewer where the gate asks for one:  *)
(* a signature collected before a file was edited counts for nothing      *)
(* (mainnet-launch-control.ts:301, 411, 545).                             *)
LaunchIsApproved ==
  LET approvers == {k \in policy.keys : <<k, record.payload>> \in made}
  IN Ready =>
       /\ Cardinality(approvers) >= LeastSigners(policy)
       /\ approvers \cap Reviewer # {}
       /\ record.payload.ledger = ledger
       /\ record.payload.registry = registry /\ RegistryReviewed(registry)
       /\ \A gate \in Gate : \E k \in policy.keys, s \in made :
            /\ s = <<k, ledger.records[gate].payload>>
            /\ s[2].gate = gate /\ s[2].commit = record.payload.commit
            /\ gate \in IndependentGate => k \in Reviewer
==============================================================================
