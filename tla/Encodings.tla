------------------------------ MODULE Encodings ------------------------------
(***************************************************************************)
(* The bytes of a block, its Merkle roots, and the frame of a peer message *)
(* (consensus/block.ts, storage/persistence.ts, crypto/merkle.ts,          *)
(* crypto/pq-zkp.ts, network/wire.ts).  A buffer is a sequence of small    *)
(* numbers; fixed-width fields are one number, counts and lengths are      *)
(* compact-size integers over digits of Base.  A hash is the value it is   *)
(* taken of.  One block is encoded, cut short somewhere, and decoded; one  *)
(* frame is sent, perhaps with a field altered, and decoded.               *)
(***************************************************************************)
EXTENDS Integers, Sequences, FiniteSets, SequencesExt

CONSTANTS
  Base,       \* values of a byte; the top three mark wider integers
  Half,       \* values of half an amount: an amount is two halves
  Previous,   \* headers a block may extend
  TxLists,    \* transaction lists of the blocks encoded
  ProofLists, \* contribution lists
  AuditLists, \* verdict lists, in any order
  Leaves,     \* leaf lists whose Merkle trees are compared
  Magics,     \* network magics; the first of them is this network's
  Types,      \* number of known message types
  MaxPayload, \* longest payload
  Payloads,   \* payloads sent
  Fresh       \* accepted age and skew of a message, <<age, skew>>

IsList(s) == s \in Seq(ToSet(s))

TxShape(t) ==
  /\ t = [version |-> t.version, inputs |-> t.inputs, outputs |-> t.outputs,
          locktime |-> t.locktime, hasRef |-> t.hasRef, ref |-> t.ref]
  /\ t.hasRef \in BOOLEAN /\ (~ t.hasRef => t.ref = <<>>)
  /\ IsList(t.inputs) /\ IsList(t.outputs) /\ IsList(t.ref)
  /\ \A i \in ToSet(t.inputs) :
       /\ i = [txid |-> i.txid, vout |-> i.vout, scriptSig |-> i.scriptSig, sequence |-> i.sequence]
       /\ IsList(i.scriptSig)
  /\ \A o \in ToSet(t.outputs) :
       /\ o = [value |-> o.value, scriptPubKey |-> o.scriptPubKey]
       /\ o.value \in Nat /\ IsList(o.scriptPubKey)

ContributionShape(c) ==
  /\ c = [miner |-> c.miner, proof |-> c.proof, circuit |-> c.circuit, inputs |-> c.inputs,
          weight |-> c.weight]
  /\ IsList(c.miner) /\ IsList(c.proof) /\ IsList(c.circuit)
  /\ IsList(c.inputs) /\ \A i \in ToSet(c.inputs) : IsList(i)

(* What is encoded has the types of types/index.ts; a block has one verdict *)
(* of a request, and its miners have addresses of their own.  A leaf is the *)
(* hash of one thing, a node of two.  Payloads fit a frame, and what a peer *)
(* says now is neither old nor early.                                       *)
EncodingHypothesis ==
  /\ Base \in Nat \ {0} /\ Half \in Nat \ {0}
  /\ Previous # {} /\ \A h \in Previous : h.height \in Nat
  /\ \A list \in TxLists : IsList(list) /\ \A t \in ToSet(list) : TxShape(t)
  /\ \A list \in ProofLists :
       /\ IsList(list)
       /\ \A c \in ToSet(list) : ContributionShape(c) /\ c.miner[1] \in Int
       /\ \A i, j \in DOMAIN list : list[i].miner[1] = list[j].miner[1] => i = j
  /\ \A list \in AuditLists :
       /\ IsList(list)
       /\ \A a \in ToSet(list) : a = [id |-> a.id, result |-> a.result] /\ a.id \in Int
       /\ \A i, j \in DOMAIN list : list[i].id = list[j].id => i = j
  /\ \A list \in Leaves : IsList(list) /\ \A leaf \in ToSet(list) : Len(leaf) = 1
  /\ Types \in Nat \ {0} /\ MaxPayload \in Nat
  /\ \A p \in Payloads : Len(p) \in 0 .. MaxPayload
  /\ Fresh[1] \in Nat /\ Fresh[2] \in Nat

VARIABLES
  block,   \* the block assembled
  buffer,  \* its bytes, or the prefix of them that was kept
  trees,   \* two leaf lists
  message, \* a peer message, signed
  frame    \* its frame as it arrives

encodingVars == <<block, buffer, trees, message, frame>>
------------------------------------------------------------------------------
(* Writers. *)
VarIntEdge(n) == IF n < Base THEN <<n>> ELSE <<Base - 3, n % Base, n \div Base>>

VarInt(n) ==
  CASE n < Base - 3 -> <<n>>
    [] n >= Base - 3 /\ n < Base * Base -> <<Base - 3, n % Base, n \div Base>>
    [] OTHER -> <<Base - 2, n % Base, (n \div Base) % Base,
                  (n \div (Base * Base)) % Base, n \div (Base * Base * Base)>>

Amount(v) == <<v % Half, v \div Half>>

Bytes(s) == VarInt(Len(s)) \o s

Many(items) == VarInt(Len(items)) \o FlattenSeq(items)

EncInput(i) == <<i.txid, i.vout>> \o Bytes(i.scriptSig) \o <<i.sequence>>

EncOutput(o) == Amount(o.value) \o Bytes(o.scriptPubKey)

(* serializeTransaction: the task reference is there or not, by a flag. *)
EncTx(t) ==
  <<t.version>> \o Many([i \in DOMAIN t.inputs |-> EncInput(t.inputs[i])])
    \o Many([i \in DOMAIN t.outputs |-> EncOutput(t.outputs[i])]) \o <<t.locktime>>
    \o IF t.hasRef THEN <<1>> \o Bytes(t.ref) ELSE <<0>>

EncFramedTx(t) == Bytes(EncTx(t))

(* "proof" stands for the commitment and the proof, two strings in a row. *)
EncContribution(c) ==
  Bytes(c.miner) \o Bytes(c.proof) \o Bytes(c.circuit)
    \o Many([i \in DOMAIN c.inputs |-> Bytes(c.inputs[i])]) \o <<c.weight>>

EncAudit(a) == Bytes(<<a.id, a.result>>)

EncShare(s) == Bytes(s.miner) \o <<s.weight>>

EncEpoch(e) ==
  <<e.start>> \o VarInt(e.index)
    \o Many([i \in DOMAIN e.shares |-> EncShare(e.shares[i])]) \o Amount(e.pool)

(* serializeBlockHeader: fixed width, the reserved field zero. *)
HeaderFields == <<"version", "prevHash", "merkleRoot", "computeRoot", "epochRoot",
                  "auditRoot", "timestamp", "height">>

EncHeader(h) == [i \in 1 .. 8 |-> h[HeaderFields[i]]] \o <<0>>

EncodeBlock(b) ==
  EncHeader(b.header)
    \o Many([i \in DOMAIN b.transactions |-> EncFramedTx(b.transactions[i])])
    \o Many([i \in DOMAIN b.proofs |-> EncContribution(b.proofs[i])])
    \o Many([i \in DOMAIN b.audits |-> EncAudit(b.audits[i])]) \o EncEpoch(b.epoch)
------------------------------------------------------------------------------
(* Readers: a reader at a position gives a value and the next position, or *)
(* fails when the buffer ends (RangeError).                                *)
Fail == [ok |-> FALSE]

Read(at, v) == [ok |-> TRUE, at |-> at, val |-> v]

Bind(r, F(_, _)) == IF r.ok THEN F(r.val, r.at) ELSE Fail

Word(buf, at) == IF at <= Len(buf) THEN Read(at + 1, buf[at]) ELSE Fail

Raw(buf, n, at) ==
  IF at + n - 1 <= Len(buf) THEN Read(at + n, SubSeq(buf, at, at + n - 1)) ELSE Fail

DecVarInt(buf, at) ==
  Bind(Word(buf, at), LAMBDA first, p :
    CASE first < Base - 3 -> Read(p, first)
      [] first = Base - 3 -> Bind(Raw(buf, 2, p), LAMBDA d, q : Read(q, d[1] + Base * d[2]))
      [] OTHER -> Bind(Raw(buf, 4, p), LAMBDA d, q :
           Read(q, d[1] + Base * (d[2] + Base * (d[3] + Base * d[4])))))

DecAmount(buf, at) == Bind(Raw(buf, 2, at), LAMBDA d, p : Read(p, d[2] * Half + d[1]))

DecBytes(buf, at) == Bind(DecVarInt(buf, at), LAMBDA n, p : Raw(buf, n, p))

(* A list, from what one item's reader gives at each position.             *)
DecMany(item, buf, at) ==
  Bind(DecVarInt(buf, at), LAMBDA n, p :
    LET upto[k \in 0 .. n] ==
          IF k = 0 THEN Read(p, <<>>)
          ELSE Bind(upto[k - 1], LAMBDA items, q :
                 Bind(item[q], LAMBDA x, r : Read(r, Append(items, x))))
    IN upto[n])

DecInput(buf, at) ==
  Bind(Raw(buf, 2, at), LAMBDA out, p :
    Bind(DecBytes(buf, p), LAMBDA script, q :
      Bind(Word(buf, q), LAMBDA sequence, r :
        Read(r, [txid |-> out[1], vout |-> out[2], scriptSig |-> script, sequence |-> sequence]))))

DecOutput(buf, at) ==
  Bind(DecAmount(buf, at), LAMBDA v, p :
    Bind(DecBytes(buf, p), LAMBDA script, q : Read(q, [value |-> v, scriptPubKey |-> script])))

DecRef(buf, at) ==
  Bind(Word(buf, at), LAMBDA flag, p : IF flag = 1 THEN DecBytes(buf, p) ELSE Read(p, <<>>))

DecTx(buf, at) ==
  Bind(Word(buf, at), LAMBDA version, p :
    Bind(DecMany([x \in 1 .. Len(buf) + 1 |-> DecInput(buf, x)], buf, p), LAMBDA inputs, q :
      Bind(DecMany([x \in 1 .. Len(buf) + 1 |-> DecOutput(buf, x)], buf, q), LAMBDA outputs, r :
        Bind(Word(buf, r), LAMBDA locktime, s :
          Bind(DecRef(buf, s), LAMBDA ref, t :
            Read(t, [version |-> version, inputs |-> inputs, outputs |-> outputs,
                     locktime |-> locktime, hasRef |-> buf[s] = 1, ref |-> ref]))))))

(* A transaction is read from its own length-prefixed bytes. *)
DecFramedTx(buf, at) ==
  Bind(DecBytes(buf, at), LAMBDA raw, p : Bind(DecTx(raw, 1), LAMBDA t, q : Read(p, t)))

DecContribution(buf, at) ==
  Bind(DecBytes(buf, at), LAMBDA miner, p :
    Bind(DecBytes(buf, p), LAMBDA proof, q :
      Bind(DecBytes(buf, q), LAMBDA circuit, r :
        Bind(DecMany([x \in 1 .. Len(buf) + 1 |-> DecBytes(buf, x)], buf, r), LAMBDA inputs, s :
          Bind(Word(buf, s), LAMBDA weight, t :
            Read(t, [miner |-> miner, proof |-> proof, circuit |-> circuit, inputs |-> inputs,
                     weight |-> weight]))))))

DecAudit(buf, at) ==
  Bind(DecBytes(buf, at), LAMBDA raw, p : Read(p, [id |-> raw[1], result |-> raw[2]]))

DecShare(buf, at) ==
  Bind(DecBytes(buf, at), LAMBDA miner, p :
    Bind(Word(buf, p), LAMBDA w, q : Read(q, [miner |-> miner, weight |-> w])))

DecEpoch(buf, at) ==
  Bind(Word(buf, at), LAMBDA start, p :
    Bind(DecVarInt(buf, p), LAMBDA index, q :
      Bind(DecMany([x \in 1 .. Len(buf) + 1 |-> DecShare(buf, x)], buf, q), LAMBDA shares, r :
        Bind(DecAmount(buf, r), LAMBDA pool, s :
          Read(s, [start |-> start, index |-> index, shares |-> shares, pool |-> pool])))))

DecHeader(buf, at) ==
  Bind(Raw(buf, 9, at), LAMBDA raw, p :
    IF raw[9] # 0 THEN Fail
    ELSE Read(p, [f \in ToSet(HeaderFields) |->
                    raw[CHOOSE i \in 1 .. 8 : HeaderFields[i] = f]]))

DecodeBlock(buf) ==
  Bind(DecHeader(buf, 1), LAMBDA header, p :
    Bind(DecMany([x \in 1 .. Len(buf) + 1 |-> DecFramedTx(buf, x)], buf, p), LAMBDA txs, q :
      Bind(DecMany([x \in 1 .. Len(buf) + 1 |-> DecContribution(buf, x)], buf, q),
           LAMBDA proofs, r :
        Bind(DecMany([x \in 1 .. Len(buf) + 1 |-> DecAudit(buf, x)], buf, r), LAMBDA audits, s :
          Bind(DecEpoch(buf, s), LAMBDA epoch, t :
            Read(t, [header |-> header, transactions |-> txs, proofs |-> proofs,
                     audits |-> audits, epoch |-> epoch]))))))
------------------------------------------------------------------------------
(* Merkle trees: an odd row repeats its last hash; an empty list has the   *)
(* zero hash as its root.                                                  *)
Padded(row) == IF Len(row) % 2 = 1 /\ Len(row) > 1 THEN Append(row, Last(row)) ELSE row

Above(row) ==
  LET full == Padded(row)
  IN [i \in 1 .. (Len(full) \div 2) |-> <<full[2 * i - 1], full[2 * i]>>]

Layers(leaves) ==
  LET upto[k \in 1 .. Len(leaves) + 1] ==
        IF k = 1 THEN <<leaves>>
        ELSE LET below == upto[k - 1]
             IN IF Len(Last(below)) <= 1 THEN below ELSE Append(below, Above(Last(below)))
  IN upto[Len(leaves) + 1]

Zero == <<>>

MerkleRoot(leaves) == IF leaves = <<>> THEN Zero ELSE Last(Layers(leaves))[1]

(* The sibling of each level and the side it is on. *)
MerkleProof(leaves, index) ==
  LET layers == Layers(leaves)
      at[k \in 1 .. Len(layers)] == IF k = 1 THEN index ELSE (at[k - 1] + 1) \div 2
  IN [k \in 1 .. Len(layers) - 1 |->
        [left |-> at[k] % 2 = 0,
         hash |-> Padded(layers[k])[IF at[k] % 2 = 0 THEN at[k] - 1 ELSE at[k] + 1]]]

MerkleVerify(leaf, proof, root) ==
  LET up[k \in 0 .. Len(proof)] ==
        IF k = 0 THEN leaf
        ELSE IF proof[k].left THEN <<proof[k].hash, up[k - 1]>> ELSE <<up[k - 1], proof[k].hash>>
  IN up[Len(proof)] = root
------------------------------------------------------------------------------
(* Frames.  The checksum covers the payload, the signature also the type,  *)
(* the network and the time.                                               *)
SignatureOfPayload(m, magic) == <<magic, m.payload, m.timestamp>>

SignatureOf(m, magic) == <<magic, m.type, m.payload, m.timestamp>>

Sealed(m, magic) == [m EXCEPT !.signature = SignatureOf(m, magic)]

FrameOf(m, magic) ==
  [magic |-> magic, version |-> 1, code |-> m.type, reserved |-> 0,
   length |-> Len(m.payload), sum |-> m.payload, payload |-> m.payload,
   timestamp |-> m.timestamp, signature |-> m.signature]

Decodes(f, magic) ==
  /\ f.magic = magic
  /\ f.version = 1
  /\ f.reserved = 0
  /\ f.code \in 1 .. Types
  /\ f.length <= MaxPayload
  /\ f.length = Len(f.payload)
  /\ f.sum = f.payload
  /\ f.timestamp >= 0

DecodedMessage(f) ==
  [type |-> f.code, payload |-> f.payload, timestamp |-> f.timestamp, signature |-> f.signature]

Authentic(m, magic, now) ==
  /\ m.signature = SignatureOf(m, magic)
  /\ m.timestamp >= now - Fresh[1]
  /\ m.timestamp <= now + Fresh[2]
------------------------------------------------------------------------------
(* A list in the order of its items' keys, of which no two are equal. *)
ByKey(s, key) ==
  LET order == CHOOSE p \in SetToSeqs(DOMAIN s) :
                 \A i, j \in DOMAIN p : i < j => key[p[i]] < key[p[j]]
  IN [i \in DOMAIN s |-> s[order[i]]]

SortedAudits(audits) == ByKey(audits, [i \in DOMAIN audits |-> audits[i].id])

SortedShares(shares) == ByKey(shares, [i \in DOMAIN shares |-> shares[i].miner[1]])

(* hashComputeProof: the fields run together, their lengths are not hashed. *)
ProofHash(c) == <<c.proof \o c.circuit \o <<c.weight>>>>

ProofLeaves(proofs) == [i \in DOMAIN proofs |-> ProofHash(proofs[i])]

ComputeRoot(proofs) == MerkleRoot(ProofLeaves(proofs))

(* verifyComputeProofInclusion, at the first leaf that is this proof's. *)
VerifyInclusion(c, root, proofs) ==
  LET places == {i \in DOMAIN proofs : ProofHash(proofs[i]) = ProofHash(c)}
      first == CHOOSE i \in places : \A j \in places : i <= j
  IN /\ places # {}
     /\ MerkleVerify(ProofHash(c), MerkleProof(ProofLeaves(proofs), first), root)

(* computeEpochRoot: the shares sorted by address. *)
EpochRoot(e) == EncEpoch([e EXCEPT !.shares = SortedShares(@)])

TxRoot(txs) == MerkleRoot([i \in DOMAIN txs |-> <<EncTx(txs[i])>>])

AuditRoot(audits) ==
  MerkleRoot([i \in DOMAIN audits |-> <<EncAudit(SortedAudits(audits)[i])>>])

(* assembleBlock: the verdicts are put in order, the roots are taken over  *)
(* the body.                                                               *)
AssembleBlock(prev, txs, proofs, audits, epoch, timestamp) ==
  [header |-> [version |-> 3, prevHash |-> EncHeader(prev), height |-> prev.height + 1,
               timestamp |-> timestamp, merkleRoot |-> TxRoot(txs),
               computeRoot |-> ComputeRoot(proofs), epochRoot |-> EpochRoot(epoch),
               auditRoot |-> AuditRoot(audits)],
   transactions |-> txs, proofs |-> proofs, audits |-> SortedAudits(audits), epoch |-> epoch]

Shares(proofs) == [i \in DOMAIN proofs |-> [miner |-> proofs[i].miner, weight |-> proofs[i].weight]]

Sent(p, type) ==
  Sealed([type |-> type, payload |-> p, timestamp |-> 1, signature |-> Zero], Head(Magics))

Epoch(prev, proofs) ==
  [start |-> 0, index |-> prev.height, shares |-> Shares(proofs), pool |-> Half + Len(proofs)]

AnyBlock(prev, txs, proofs, audits) ==
  AssembleBlock(prev, txs, proofs, audits, Epoch(prev, proofs), prev.timestamp + 1)

(* One subject varies at a time. *)
EncodingInit ==
  \/ /\ \E prev \in Previous, txs \in TxLists, proofs \in ProofLists, audits \in AuditLists :
          block = AnyBlock(prev, txs, proofs, audits)
     /\ trees = <<<<>>, <<>>>>
     /\ message = Sent(<<>>, 1)
     /\ buffer = EncodeBlock(block)
     /\ frame = FrameOf(message, Head(Magics))
  \/ /\ block = AnyBlock(CHOOSE h \in Previous : TRUE, <<>>, <<>>, <<>>)
     /\ \/ trees \in Leaves \X Leaves /\ message = Sent(<<>>, 1)
        \/ trees = <<<<>>, <<>>>> /\ \E p \in Payloads, type \in 1 .. Types : message = Sent(p, type)
     /\ buffer = EncodeBlock(block)
     /\ frame = FrameOf(message, Head(Magics))

Whole == buffer = EncodeBlock(block) /\ frame = FrameOf(message, Head(Magics))

(* The buffer is cut short, as the last record of a torn file is. *)
Truncate ==
  /\ Whole
  /\ \E n \in 0 .. Len(buffer) - 1 : buffer' = SubSeq(buffer, 1, n)
  /\ UNCHANGED <<block, trees, message, frame>>

(* One field of the frame arrives changed, or from another network. *)
Alter ==
  /\ Whole
  /\ \/ \E i \in DOMAIN Magics : frame' = [frame EXCEPT !.magic = Magics[i]]
     \/ \E v \in 0 .. Types + 1 : frame' = [frame EXCEPT !.code = v]
     \/ \E p \in Payloads : frame' = [frame EXCEPT !.payload = p]
     \/ \E n \in 0 .. MaxPayload + 1 : frame' = [frame EXCEPT !.length = n]
     \/ \E t \in {-1, 0, 1, 2} : frame' = [frame EXCEPT !.timestamp = t]
  /\ UNCHANGED <<block, buffer, trees, message>>

EncodingNext == Truncate \/ Alter

EncodingSpec == EncodingInit /\ [][EncodingNext]_encodingVars
------------------------------------------------------------------------------
(* Decoding a complete block gives the block back, with a body that still  *)
(* hashes to its header's roots, the epoch's in whatever order its map     *)
(* lists the shares, and every proper prefix of it is refused              *)
(* (persistence.ts:184, block.ts:489, epoch.ts:284).                       *)
CodecInv ==
  LET r == DecodeBlock(buffer)
  IN IF buffer = EncodeBlock(block)
     THEN /\ r.ok
          /\ r.at = Len(buffer) + 1
          /\ r.val = block
          /\ block.header.auditRoot = AuditRoot(r.val.audits)
          /\ \A shares \in {r.val.epoch.shares, Reverse(r.val.epoch.shares)} :
               block.header.epochRoot = EpochRoot([r.val.epoch EXCEPT !.shares = shares])
     ELSE ~ r.ok

(* A contribution is shown to be in a block, from a list of contributions  *)
(* and the header's root, exactly when the list has the block's root and   *)
(* a contribution with the same leaf (validation.ts:961): the same bytes,  *)
(* wherever one field ends and the next begins (merkle.ts:264).            *)
InclusionInv ==
  LET root == block.header.computeRoot
  IN \A proofs \in ProofLists : \A c \in UNION {ToSet(l) : l \in ProofLists} :
       VerifyInclusion(c, root, proofs) <=>
         /\ ComputeRoot(proofs) = root
         /\ \E i \in DOMAIN proofs : ProofHash(proofs[i]) = ProofHash(c)

NoRepeat(s) == IsInjective(s)

(* Every leaf has a proof that verifies, and for no other leaf; two lists  *)
(* without a repeat have one root only when they are the same list: the    *)
(* padding of odd rows makes the root of a list with repeats ambiguous     *)
(* (merkle.ts:108, 164, 215).                                              *)
MerkleInv ==
  /\ \A i \in DOMAIN trees[1] : \A leaf \in ToSet(trees[1]) :
       MerkleVerify(leaf, MerkleProof(trees[1], i), MerkleRoot(trees[1])) <=> leaf = trees[1][i]
  /\ (NoRepeat(trees[1]) /\ NoRepeat(trees[2]) /\ MerkleRoot(trees[1]) = MerkleRoot(trees[2]))
       => trees[1] = trees[2]

(* Whatever one altered field leaves decodable and authentic is the        *)
(* message that was signed, and an untouched frame always is (wire.ts:197).*)
FrameInv ==
  LET f == Decodes(frame, Head(Magics))
      a == f /\ Authentic(DecodedMessage(frame), Head(Magics), 1)
  IN /\ a => DecodedMessage(frame) = message
     /\ frame = FrameOf(message, Head(Magics)) => a

EncodingInv == CodecInv /\ InclusionInv /\ MerkleInv /\ FrameInv
==============================================================================
