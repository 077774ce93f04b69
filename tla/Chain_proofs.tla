----------------------------- MODULE Chain_proofs -----------------------------
(***************************************************************************)
(* Proofs about ChainNode, for every block tree, every set of peers and    *)
(* every snapshot interval; and about ChainArrival: the tip of a node at   *)
(* rest does not depend on the order in which blocks came.  The liveness   *)
(* of the same specification stays with TLC.  And about Encodings: what is *)
(* encoded decodes to itself, whole or not at all, and a Merkle root, an   *)
(* inclusion proof and a frame commit to what they are made of.            *)
(***************************************************************************)
EXTENDS ChainArrival, Encodings, Sums, SequenceTheorems, WellFoundedInduction, TLAPS
(* The block tree *)

\* A block's ancestry is a non-empty sequence that ends in the block.
LEMMA AncestryEnds ==
  ASSUME NEW b \in Block
  PROVE  /\ Ancestry[b] \in Seq(Block)
         /\ Len(Ancestry[b]) \in Nat \ {0}
         /\ Ancestry[b] # <<>>
         /\ Ancestry[b][1] \in Root /\ Ancestry[b][1] \in Block
         /\ Ancestry[b][Len(Ancestry[b])] = b
<1>1. Ancestry[b] \in Seq(Block) /\ Ancestry[b] # <<>>
      /\ Ancestry[b][1] \in Root /\ Ancestry[b][1] \in Block
  BY AncestryAssumption, TreeAssumption
<1>2. Len(Ancestry[b]) \in Nat \ {0}
  BY <1>1, EmptySeq
<1>3. CASE b \in Root
  <2>1. Ancestry[b] = <<b>>
    BY <1>3, AncestryAssumption
  <2> QED BY <1>1, <1>2, <1>3, <2>1
<1>4. CASE b \notin Root
  <2>1. /\ Ancestry[b] = Append(Ancestry[Parent[b]], b)
        /\ Parent[b] \in Block /\ Ancestry[Parent[b]] \in Seq(Block)
    BY <1>4, AncestryAssumption, TreeAssumption
  <2>2. Ancestry[b][Len(Ancestry[b])] = b
    BY <2>1, AppendProperties, LenProperties
  <2> QED BY <1>1, <1>2, <2>2
<1> QED BY <1>3, <1>4

\* A block of height 0 is its own chain, whatever parent it names.
LEMMA RootEnds ==
  ASSUME NEW b \in Root
  PROVE  /\ b \in Block /\ Ancestry[b] = <<b>> /\ Len(Ancestry[b]) = 1
         /\ Origin(b) = b /\ Tail(Ancestry[b]) = <<>>
         /\ Effects(Ancestry[b]) = <<Genesis>>
<1>1. b \in Block /\ Ancestry[b] = <<b>>
  BY AncestryAssumption, TreeAssumption
<1>2. Len(<<b>>) = 1 /\ <<b>>[1] = b /\ Tail(<<b>>) = <<>>
  OBVIOUS
<1>3. <<Genesis>> \o <<>> = <<Genesis>>
  BY TreeAssumption, ConcatEmptySeq
<1> QED BY <1>1, <1>2, <1>3 DEF Origin, Effects

\* A block extends its parent's ancestry, and so does its part of the log.
LEMMA AncestryExtends ==
  ASSUME NEW b \in Block \ Root
  PROVE  /\ Parent[b] \in Block
         /\ Ancestry[b] = Append(Ancestry[Parent[b]], b)
         /\ Tail(Ancestry[b]) = Append(Tail(Ancestry[Parent[b]]), b)
         /\ Len(Ancestry[b]) = Len(Ancestry[Parent[b]]) + 1
         /\ Origin(b) = Origin(Parent[b])
<1>1. Parent[b] \in Block /\ Ancestry[b] = Append(Ancestry[Parent[b]], b)
  BY AncestryAssumption, TreeAssumption
<1>2. /\ Ancestry[Parent[b]] \in Seq(Block) /\ Ancestry[Parent[b]] # <<>>
      /\ Len(Ancestry[Parent[b]]) \in Nat \ {0}
  BY <1>1, AncestryEnds
<1>3. Tail(Append(Ancestry[Parent[b]], b)) = Append(Tail(Ancestry[Parent[b]]), b)
  BY <1>2, HeadTailAppend
<1>4. /\ Len(Append(Ancestry[Parent[b]], b)) = Len(Ancestry[Parent[b]]) + 1
      /\ Append(Ancestry[Parent[b]], b)[1] = Ancestry[Parent[b]][1]
  BY <1>2, AppendProperties
<1> QED BY <1>1, <1>3, <1>4 DEF Origin

\* The blocks above the first.
LEMMA AncestryTail ==
  ASSUME NEW b \in Block
  PROVE  /\ Tail(Ancestry[b]) \in Seq(Block)
         /\ Len(Tail(Ancestry[b])) = Len(Ancestry[b]) - 1
         /\ \A i \in 1 .. Len(Tail(Ancestry[b])) :
               Tail(Ancestry[b])[i] = Ancestry[b][i + 1]
<1> DEFINE s == Ancestry[b]
<1>1. s \in Seq(Block) /\ s # <<>>
  BY AncestryEnds
<1> QED BY <1>1, HeadTailProperties

\* The state of a chain, as a sequence: genesis, and the blocks above the first.
LEMMA EffectsOf ==
  ASSUME NEW b \in Block
  PROVE  /\ Effects(Ancestry[b]) \in Seq(Block)
         /\ Len(Effects(Ancestry[b])) = Len(Ancestry[b])
         /\ Effects(Ancestry[b])[1] = Genesis
         /\ \A i \in 2 .. Len(Ancestry[b]) :
               Effects(Ancestry[b])[i] = Ancestry[b][i]
         /\ Tail(Effects(Ancestry[b])) = Tail(Ancestry[b])
         /\ Effects(Effects(Ancestry[b])) = Effects(Ancestry[b])
         /\ FromGenesis(b) => Effects(Ancestry[b]) = Ancestry[b]
<1> DEFINE s == Ancestry[b]
           t == Tail(s)
           e == <<Genesis>> \o t
<1>1. s \in Seq(Block) /\ Len(s) \in Nat \ {0}
  BY AncestryEnds
<1>2. /\ t \in Seq(Block) /\ Len(t) = Len(s) - 1
      /\ \A i \in 1 .. Len(t) : t[i] = s[i + 1]
  BY AncestryTail
<1>3. <<Genesis>> \in Seq(Block) /\ Len(<<Genesis>>) = 1 /\ <<Genesis>>[1] = Genesis
  BY TreeAssumption
<1>4. e = Effects(s)
  BY DEF Effects
<1>5. FromGenesis(b) => s[1] = Genesis
  BY DEF FromGenesis, Origin
<1> HIDE DEF s, t
<1>6. /\ e \in Seq(Block) /\ Len(e) = Len(s)
      /\ \A i \in 1 .. Len(s) :
            e[i] = IF i <= 1 THEN <<Genesis>>[i] ELSE t[i - 1]
  BY <1>1, <1>2, <1>3, ConcatProperties
<1> HIDE DEF e
<1>7. e[1] = Genesis /\ \A i \in 2 .. Len(s) : e[i] = s[i]
  BY <1>1, <1>2, <1>3, <1>6
<1>8. Tail(e) = t
  <2>1. e # <<>>
    BY <1>1, <1>6
  <2>2. /\ Tail(e) \in Seq(Block) /\ Len(Tail(e)) = Len(e) - 1
        /\ \A i \in 1 .. Len(Tail(e)) : Tail(e)[i] = e[i + 1]
    BY <1>6, <2>1, HeadTailProperties
  <2>3. \A i \in 1 .. Len(t) : Tail(e)[i] = t[i]
    BY <1>1, <1>2, <1>6, <1>7, <2>2
  <2> QED BY <1>1, <1>2, <1>6, <2>2, <2>3, SeqEqual
<1>9. Effects(e) = e
  BY <1>8 DEF Effects, e
<1>10. ASSUME FromGenesis(b)
       PROVE  e = s
  <2>1. \A i \in 1 .. Len(s) : e[i] = s[i]
    BY <1>1, <1>5, <1>7, <1>10
  <2> QED BY <1>1, <1>6, <2>1, SeqEqual
<1> QED BY <1>4, <1>6, <1>7, <1>8, <1>9, <1>10 DEF s, t

\* Applying a block to the state of its parent's chain.
LEMMA EffectsGrow ==
  ASSUME NEW b \in Block \ Root
  PROVE  Effects(Ancestry[b]) = Append(Effects(Ancestry[Parent[b]]), b)
<1> DEFINE t == Tail(Ancestry[Parent[b]])
<1>1. t \in Seq(Block) /\ Tail(Ancestry[b]) = Append(t, b)
  BY AncestryExtends, AncestryTail
<1>2. <<Genesis>> \in Seq(Block)
  BY TreeAssumption
<1> HIDE DEF t
<1>3. <<Genesis>> \o Append(t, b) = Append(<<Genesis>> \o t, b)
  <2>1. Append(t, b) = t \o <<b>> /\ <<b>> \in Seq(Block)
    BY <1>1, AppendIsConcat
  <2>2. (<<Genesis>> \o t) \o <<b>> = <<Genesis>> \o (t \o <<b>>)
    BY <1>1, <1>2, <2>1, ConcatAssociative
  <2>3. <<Genesis>> \o t \in Seq(Block)
    BY <1>1, <1>2, ConcatProperties
  <2>4. Append(<<Genesis>> \o t, b) = (<<Genesis>> \o t) \o <<b>>
    BY <2>3, AppendIsConcat
  <2> QED BY <2>1, <2>2, <2>4
<1> QED BY <1>1, <1>3 DEF Effects, t

\* A sequence without its first element ends as the sequence does.
LEMMA TailEnds ==
  ASSUME NEW S, NEW s, NEW l \in Seq(S),
         Len(s) \in Nat \ {0}, Len(l) = Len(s) - 1,
         \A i \in 1 .. Len(l) : l[i] = s[i + 1]
  PROVE  l # <<>> => l[Len(l)] = s[Len(s)]
<1> SUFFICES ASSUME l # <<>>
             PROVE  l[Len(l)] = s[Len(s)]
  OBVIOUS
<1>1. Len(l) \in Nat \ {0}
  BY EmptySeq
<1>2. l[Len(l)] = s[Len(l) + 1] /\ Len(l) + 1 = Len(s)
  BY <1>1
<1> QED BY <1>2, Zenon

\* A log that holds a chain without its first block ends in the chain's last
\* block, or is empty.
LogTip(l) == IF l = <<>> THEN Genesis ELSE l[Len(l)]
LEMMA LogEnds ==
  ASSUME NEW b \in Block
  PROVE  /\ LogTip(Tail(Ancestry[b])) = IF b \in Root THEN Genesis ELSE b
         /\ Tail(Ancestry[b]) = Tail(Ancestry[LogTip(Tail(Ancestry[b]))])
<1> DEFINE l == Tail(Ancestry[b])
<1>1. CASE b \in Root
  <2>1. l = <<>> /\ Tail(Ancestry[Genesis]) = <<>>
    BY <1>1, RootEnds, TreeAssumption
  <2> QED BY <1>1, <2>1 DEF LogTip
<1>2. CASE b \notin Root
  <2>1. /\ Len(Ancestry[b]) \in Nat \ {0}
        /\ Ancestry[b][Len(Ancestry[b])] = b
    BY AncestryEnds
  <2>2. /\ l \in Seq(Block)
        /\ Len(l) = Len(Ancestry[b]) - 1
        /\ \A i \in 1 .. Len(l) : l[i] = Ancestry[b][i + 1]
    BY AncestryTail
  <2>3. l # <<>>
    <3> DEFINE t == Tail(Ancestry[Parent[b]])
    <3>1. t \in Seq(Block) /\ l = Append(t, b)
      BY <1>2, AncestryExtends, AncestryTail
    <3> HIDE DEF l, t
    <3> QED BY <3>1, AppendProperties
  <2> HIDE DEF l
  <2>4. l[Len(l)] = b
    BY <2>1, <2>2, <2>3, TailEnds
  <2> QED BY <1>2, <2>3, <2>4 DEF LogTip, l
<1> QED BY <1>1, <1>2

\* The chain of a block on a path is that path up to the block.
LEMMA PathOfPath ==
  ASSUME NEW b \in Block, NEW i \in 1 .. Len(Ancestry[b])
  PROVE  /\ Ancestry[b][i] \in Block
         /\ SubSeq(Ancestry[b], 1, i) = Ancestry[Ancestry[b][i]]
         /\ Len(Ancestry[Ancestry[b][i]]) = i
         /\ \A k \in 1 .. i : Ancestry[Ancestry[b][i]][k] = Ancestry[b][k]
         /\ Origin(Ancestry[b][i]) = Origin(b)
<1> DEFINE s == Ancestry[b]
           c == Ancestry[b][i]
<1>1. s \in Seq(Block) /\ Len(s) \in Nat
  BY AncestryEnds
<1>2. \A k \in 1 .. i : s[k] \in Block
  BY <1>1, ElementOfSeq
<1>3. c \in Block /\ SubSeq(s, 1, i) = Ancestry[c]
  <2>1. i \in 1 .. i
    BY <1>1
  <2>2. c \in Block
    BY <1>2, <2>1
  <2> QED BY <2>2, AncestryAssumption
<1> HIDE DEF s
<1>4. /\ Len(SubSeq(s, 1, i)) = IF 1 <= i THEN i - 1 + 1 ELSE 0
      /\ \A k \in 1 .. i - 1 + 1 : SubSeq(s, 1, i)[k] = s[1 + k - 1]
  BY <1>1, <1>2, SubSeqProperties
<1>5. Len(Ancestry[c]) = i /\ \A k \in 1 .. i : Ancestry[c][k] = s[k]
  BY <1>1, <1>3, <1>4
<1>6. 1 \in 1 .. i
  BY <1>1
<1> QED BY <1>3, <1>5, <1>6 DEF s, Origin

LEMMA PathDomain ==
  ASSUME NEW b \in Block
  PROVE  DOMAIN Ancestry[b] = 1 .. Len(Ancestry[b])
BY AncestryEnds, LenProperties

\* Two neighbours on a path are child and parent, and the state between them is
\* that of the parent's chain.
LEMMA AncestrySteps ==
  ASSUME NEW b \in Block, NEW i \in 2 .. Len(Ancestry[b])
  PROVE  /\ Ancestry[b][i] \in Block \ Root
         /\ Parent[Ancestry[b][i]] = Ancestry[b][i - 1]
         /\ Ancestry[b][i - 1] \in Block
         /\ SubSeq(Ancestry[b], 1, i - 1) = Ancestry[Parent[Ancestry[b][i]]]
<1> DEFINE c == Ancestry[b][i]
<1>1. /\ i \in 1 .. Len(Ancestry[b]) /\ i - 1 \in 1 .. Len(Ancestry[b])
      /\ i - 1 \in 1 .. i /\ Len(Ancestry[b]) \in Nat
  BY AncestryEnds
<1>2. /\ c \in Block /\ Len(Ancestry[c]) = i
      /\ \A k \in 1 .. i : Ancestry[c][k] = Ancestry[b][k]
  BY <1>1, PathOfPath
<1>3. SubSeq(Ancestry[b], 1, i - 1) = Ancestry[Ancestry[b][i - 1]]
      /\ Ancestry[b][i - 1] \in Block
  BY <1>1, PathOfPath
<1> HIDE DEF c
<1>4. c \notin Root
  BY <1>1, <1>2, RootEnds
<1>5. /\ Parent[c] \in Block
      /\ Ancestry[c] = Append(Ancestry[Parent[c]], c)
      /\ Len(Ancestry[c]) = Len(Ancestry[Parent[c]]) + 1
  BY <1>2, <1>4, AncestryExtends
<1>6. Len(Ancestry[Parent[c]]) \in Nat /\ Len(Ancestry[Parent[c]]) = i - 1
  BY <1>2, <1>5, AncestryEnds
<1>7. Parent[c] = Ancestry[b][i - 1]
  <2>1. Ancestry[Parent[c]][i - 1] = Parent[c] /\ Ancestry[Parent[c]] \in Seq(Block)
    BY <1>5, <1>6, AncestryEnds
  <2>2. Append(Ancestry[Parent[c]], c)[i - 1] = Ancestry[Parent[c]][i - 1]
    BY <1>1, <1>2, <1>6, <2>1, AppendProperties
  <2>3. Ancestry[c][i - 1] = Ancestry[b][i - 1]
    BY <1>1, <1>2
  <2> QED BY <1>5, <2>1, <2>2, <2>3
<1> QED BY <1>2, <1>3, <1>4, <1>7 DEF c

\* The path to a block is the path to its parent and the block.
LEMMA PathGrows ==
  ASSUME NEW b \in Block \ Root, NEW i \in DOMAIN Ancestry[b]
  PROVE  \/ Ancestry[b][i] = b
         \/ /\ i \in DOMAIN Ancestry[Parent[b]]
            /\ Ancestry[b][i] = Ancestry[Parent[b]][i]
<1> DEFINE s == Ancestry[Parent[b]]
<1>1. /\ Parent[b] \in Block /\ Ancestry[b] = Append(s, b)
      /\ s \in Seq(Block) /\ Len(s) \in Nat
  BY AncestryExtends, AncestryEnds
<1>2. DOMAIN s = 1 .. Len(s)
  BY <1>1, LenProperties
<1> HIDE DEF s
<1>3. /\ DOMAIN Append(s, b) = 1 .. Len(s) + 1
      /\ \A k \in 1 .. Len(s) : Append(s, b)[k] = s[k]
      /\ Append(s, b)[Len(s) + 1] = b
  BY <1>1, AppendProperties, LenProperties
<1>4. CASE i = Len(s) + 1
  BY <1>1, <1>3, <1>4
<1>5. CASE i # Len(s) + 1
  <2>1. i \in 1 .. Len(s)
    BY <1>1, <1>3, <1>5
  <2> QED BY <1>1, <1>2, <1>3, <2>1 DEF s
<1> QED BY <1>4, <1>5

\* The state of a part of a chain is that part of the state.
LEMMA EffectsPrefix ==
  ASSUME NEW b \in Block, NEW i \in 1 .. Len(Ancestry[b])
  PROVE  SubSeq(Effects(Ancestry[b]), 1, i) = Effects(Ancestry[Ancestry[b][i]])
<1> DEFINE c == Ancestry[b][i]
           e == Effects(Ancestry[b])
           f == Effects(Ancestry[c])
<1>1. /\ c \in Block /\ Len(Ancestry[c]) = i
      /\ \A k \in 1 .. i : Ancestry[c][k] = Ancestry[b][k]
      /\ Len(Ancestry[b]) \in Nat \ {0}
  BY PathOfPath, AncestryEnds
<1>2. /\ e \in Seq(Block) /\ Len(e) = Len(Ancestry[b]) /\ e[1] = Genesis
      /\ \A k \in 2 .. Len(Ancestry[b]) : e[k] = Ancestry[b][k]
  BY EffectsOf
<1>3. /\ f \in Seq(Block) /\ Len(f) = i /\ f[1] = Genesis
      /\ \A k \in 2 .. i : f[k] = Ancestry[c][k]
  BY <1>1, EffectsOf
<1> HIDE DEF c, e, f
<1>4. \A k \in 1 .. i : e[k] = f[k]
  <2> SUFFICES ASSUME NEW k \in 1 .. i PROVE e[k] = f[k]
    OBVIOUS
  <2>1. CASE k = 1
    BY <1>2, <1>3, <2>1
  <2>2. CASE k # 1
    <3>1. k \in 2 .. i /\ k \in 2 .. Len(Ancestry[b])
      BY <1>1, <2>2
    <3> QED BY <1>1, <1>2, <1>3, <3>1
  <2> QED BY <2>1, <2>2
<1>5. \A k \in 1 .. i : e[k] \in Block
  BY <1>1, <1>2, ElementOfSeq
<1>6. /\ SubSeq(e, 1, i) \in Seq(Block)
      /\ Len(SubSeq(e, 1, i)) = IF 1 <= i THEN i - 1 + 1 ELSE 0
      /\ \A k \in 1 .. i - 1 + 1 : SubSeq(e, 1, i)[k] = e[1 + k - 1]
  BY <1>1, <1>5, SubSeqProperties
<1>7. Len(SubSeq(e, 1, i)) = i /\ \A k \in 1 .. i : SubSeq(e, 1, i)[k] = f[k]
  BY <1>1, <1>4, <1>6
<1>8. SubSeq(e, 1, i) = f
  BY <1>3, <1>6, <1>7, SeqEqual
<1> QED BY <1>8 DEF c, e, f
------------------------------------------------------------------------------
(* A running node *)

AcceptedLog(l) == \A i \in DOMAIN l : l[i] \in Valid \ late

\* The log of a node, up or down, is the chain of its durable tip.
LEMMA DurableChain ==
  ASSUME CoreInv
  PROVE  /\ DurableTip \in Block
         /\ log = Tail(Ancestry[DurableTip])
         /\ log \in Seq(Block)
         /\ AcceptedLog(log)
         /\ Len(log) \in Nat
         /\ DOMAIN log = 1 .. Len(log)
         /\ Len(Ancestry[DurableTip]) = Len(log) + 1
         /\ \A h \in 1 .. Len(log) : log[h] = Ancestry[DurableTip][h + 1]
<1>1. /\ log = Tail(Ancestry[DurableTip])
      /\ log \in Seq(Block)
      /\ AcceptedLog(log)
  BY DEF CoreInv, ChainTypeOK, LogIsChain, AcceptedLog
<1>2. Len(log) \in Nat /\ DOMAIN log = 1 .. Len(log)
  BY <1>1, LenProperties
<1>3. DurableTip \in Block
  <2>1. CASE log = <<>>
    BY <2>1, TreeAssumption DEF DurableTip
  <2>2. CASE log # <<>>
    <3>1. Len(log) \in 1 .. Len(log)
      BY <1>1, <1>2, <2>2, EmptySeq
    <3>2. log[Len(log)] \in Block
      BY <1>1, <3>1, ElementOfSeq
    <3> QED BY <2>2, <3>2 DEF DurableTip
  <2> QED BY <2>1, <2>2
<1>4. /\ Len(log) = Len(Ancestry[DurableTip]) - 1
      /\ Len(Ancestry[DurableTip]) \in Nat
      /\ \A h \in 1 .. Len(log) : log[h] = Ancestry[DurableTip][h + 1]
  <2> DEFINE t == Tail(Ancestry[DurableTip])
  <2>1. /\ Len(t) = Len(Ancestry[DurableTip]) - 1
        /\ Len(Ancestry[DurableTip]) \in Nat
        /\ \A h \in 1 .. Len(t) : t[h] = Ancestry[DurableTip][h + 1]
    BY <1>3, AncestryTail, AncestryEnds
  <2>2. log = t
    BY <1>1
  <2> HIDE DEF t
  <2> QED BY <2>1, <2>2, Zenon
<1> QED BY <1>1, <1>2, <1>3, <1>4

\* Every block above the first is on an accepted log.
LEMMA AcceptedChain ==
  ASSUME NEW b \in Block
  PROVE  Accepted(b) <=> AcceptedLog(Tail(Ancestry[b]))
<1> DEFINE s == Ancestry[b]
           l == Tail(Ancestry[b])
<1>1. /\ l \in Seq(Block)
      /\ Len(l) = Len(s) - 1
      /\ \A i \in 1 .. Len(l) : l[i] = s[i + 1]
      /\ Len(s) \in Nat \ {0}
  BY AncestryTail, AncestryEnds
<1>2. DOMAIN l = 1 .. Len(l)
  BY <1>1, LenProperties
<1> HIDE DEF s, l
<1>3. (\A i \in 2 .. Len(s) : s[i] \in Valid \ late) <=> AcceptedLog(l)
  <2>1. ASSUME \A i \in 2 .. Len(s) : s[i] \in Valid \ late
        PROVE  AcceptedLog(l)
    BY <1>1, <1>2, <2>1 DEF AcceptedLog
  <2>2. ASSUME AcceptedLog(l), NEW i \in 2 .. Len(s)
        PROVE  s[i] \in Valid \ late
    <3>1. i - 1 \in 1 .. Len(l) /\ i - 1 + 1 = i
      BY <1>1
    <3>2. l[i - 1] = s[i]
      BY <1>1, <3>1
    <3> QED BY <1>2, <2>2, <3>1, <3>2 DEF AcceptedLog
  <2> QED BY <2>1, <2>2
<1> QED BY <1>3 DEF Accepted, s, l

\* What the invariant says of a node that is up, in the form the steps use.
LEMMA Running ==
  ASSUME CoreInv, up
  PROVE  /\ Known \subseteq Block /\ Genesis \in Known
         /\ Tip \in Known /\ Tip \in Block /\ Tip \notin Unworkable
         /\ active = Ancestry[Tip] \/ (grafted /\ active = Effects(Ancestry[Tip]))
         /\ active \in Seq(Block) /\ Len(active) = Len(Ancestry[Tip])
         /\ \A i \in 2 .. Len(active) : active[i] = Ancestry[Tip][i]
         /\ applied = Effects(Ancestry[Tip])
         /\ log = Tail(Ancestry[Tip])
         /\ DurableTip = IF Tip \in Root THEN Genesis ELSE Tip
         /\ Accepted(Tip)
         /\ \A x \in Known : chainWork[x] \in Nat
         /\ chainWork[Tip] \in Nat \ {0}
<1>1. /\ Known \subseteq Block /\ Genesis \in Known
      /\ Tip \in Known /\ Tip \in Block /\ Tip \notin Unworkable
      /\ active = Ancestry[Tip] \/ (grafted /\ active = Effects(Ancestry[Tip]))
      /\ applied = Effects(Ancestry[Tip])
      /\ log = Tail(Ancestry[Tip])
      /\ active \in Seq(Block)
  BY DEF CoreInv, ChainTypeOK, MemoryMatchesDisk, WorkIsExact
<1>2. \A x \in Known : chainWork[x] \in Nat
  BY DEF CoreInv, ChainTypeOK
<1>3. chainWork[Tip] \in Nat \ {0}
  <2>1. chainWork[Tip] >= BlockWork[Tip] /\ BlockWork[Tip] \in Nat \ {0}
    BY <1>1, TreeAssumption DEF CoreInv, WorkIsExact
  <2> QED BY <1>1, <1>2, <2>1
<1>4. /\ Len(active) = Len(Ancestry[Tip])
      /\ \A i \in 2 .. Len(active) : active[i] = Ancestry[Tip][i]
  BY <1>1, EffectsOf
<1>5. DurableTip = IF Tip \in Root THEN Genesis ELSE Tip
  <2>1. DurableTip = LogTip(log)
    BY DEF DurableTip, LogTip
  <2> QED BY <1>1, <2>1, LogEnds
<1>6. Accepted(Tip)
  <2>1. AcceptedLog(log)
    BY DurableChain
  <2>2. AcceptedLog(Tail(Ancestry[Tip]))
    BY <1>1, <2>1, Zenon
  <2> QED BY <1>1, <2>2, AcceptedChain
<1> QED BY <1>1, <1>2, <1>3, <1>4, <1>5, <1>6

\* The fork-choice order is a strict order on blocks with a work.
LEMMA PreferenceIsStrict ==
  ASSUME NEW a \in Block, NEW b \in Block, NEW c \in Block,
         NEW u \in Nat, NEW v \in Nat, NEW w \in Nat
  PROVE  /\ ~PrefersChainTip(u, a, u, a)
         /\ (/\ PrefersChainTip(v, b, u, a)
             /\ PrefersChainTip(w, c, v, b))
            => PrefersChainTip(w, c, u, a)
<1>1. /\ HashRank[a] \in Nat /\ HashRank[b] \in Nat /\ HashRank[c] \in Nat
      /\ Mainnet \in BOOLEAN
  BY TreeAssumption
<1> QED BY <1>1 DEF PrefersChainTip

\* What ingestBlock may be called with: a block of height 0 that is new, or one
\* whose parent is known, and which has the work it would be given again if it
\* is known itself.
Ingestible(b) ==
  /\ b \in Block \ {Genesis}
  /\ b \in Root => b \notin Known
  /\ b \notin Root => Parent[b] \in Known
  /\ b \in Known \ Unworkable => chainWork[b] = WorkOf(b)

\* Learning a block puts one block among the known ones, and changes no work.
LEMMA Learned ==
  ASSUME CoreInv, up, NEW b, Ingestible(b), Learn(b)
  PROVE  /\ Known' = Known \cup {b}
         /\ Known' \subseteq Block
         /\ chainWork' \in [Known' -> Nat]
         /\ \A x \in Known : chainWork'[x] = chainWork[x]
         /\ chainWork'[b] = IF b \in Unworkable THEN 0 ELSE WorkOf(b)
         /\ WorkOf(b) \in Nat /\ WorkOf(b) >= BlockWork[b]
<1>1. b \in Block /\ Known \subseteq Block /\ \A x \in Known : chainWork[x] \in Nat
  BY Running DEF Ingestible
<1>2. Known' = Known \cup {b}
  BY DEF Learn, Known
<1>3. WorkOf(b) \in Nat /\ WorkOf(b) >= BlockWork[b]
  <2>1. BlockWork[b] \in Nat
    BY <1>1, TreeAssumption
  <2> QED BY <1>1, <2>1 DEF WorkOf
<1>4. chainWork'[b] = IF b \in Unworkable THEN 0 ELSE WorkOf(b)
  BY DEF Learn
<1>5. \A x \in Known : chainWork'[x] = chainWork[x]
  <2>1. b \in Known => chainWork'[b] = chainWork[b]
    BY <1>4 DEF Ingestible, CoreInv, WorkIsExact
  <2> QED BY <2>1 DEF Learn
<1>6. chainWork' \in [Known' -> Nat]
  <2>1. chainWork' = [x \in Known' |-> chainWork'[x]]
    BY <1>2 DEF Learn
  <2>2. \A x \in Known' : chainWork'[x] \in Nat
    BY <1>1, <1>2, <1>3, <1>4, <1>5
  <2> QED BY <2>1, <2>2
<1> QED BY <1>1, <1>2, <1>3, <1>4, <1>5, <1>6

\* A valid path on genesis holds no block whose work is not a number.
LEMMA AcceptedIsWorkable ==
  ASSUME NEW b \in Block, \A i \in 2 .. Len(Ancestry[b]) : Ancestry[b][i] \in Valid,
         FromGenesis(b)
  PROVE  Workable(b)
<1> SUFFICES ASSUME NEW i \in 1 .. Len(Ancestry[b])
             PROVE  Ancestry[b][i] \notin Unworkable
  BY PathDomain DEF Workable
<1>1. CASE i = 1
  BY <1>1, TreeAssumption DEF FromGenesis, Origin
<1>2. CASE i # 1
  <2>1. i \in 2 .. Len(Ancestry[b])
    BY <1>2
  <2> QED BY <2>1, TreeAssumption
<1> QED BY <1>1, <1>2

LEMMA WorkableParent ==
  ASSUME NEW b \in Block \ Root, Workable(b)
  PROVE  Workable(Parent[b]) /\ b \notin Unworkable
<1> DEFINE s == Ancestry[Parent[b]]
           t == Ancestry[b]
<1>1. /\ s \in Seq(Block) /\ t = Append(s, b) /\ Len(s) \in Nat
      /\ DOMAIN s = 1 .. Len(s) /\ \A i \in DOMAIN t : t[i] \notin Unworkable
  BY AncestryExtends, AncestryEnds, PathDomain DEF Workable
<1> HIDE DEF s, t
<1>2. /\ DOMAIN Append(s, b) = 1 .. Len(s) + 1
      /\ \A k \in 1 .. Len(s) : Append(s, b)[k] = s[k]
      /\ Append(s, b)[Len(s) + 1] = b
  BY <1>1, AppendProperties, LenProperties
<1>3. Len(s) + 1 \in DOMAIN t /\ \A k \in DOMAIN s : k \in DOMAIN t /\ t[k] = s[k]
  BY <1>1, <1>2
<1> QED BY <1>1, <1>2, <1>3 DEF Workable, s

\* Learning keeps the known paths whole and the known work exact.
LEMMA LearnKeeps ==
  ASSUME CoreInv, up, up' = up, grafted' = grafted, NEW b, Ingestible(b), Learn(b)
  PROVE  KnownIsPath' /\ WorkIsExact'
<1>1. /\ Known' = Known \cup {b}
      /\ \A x \in Known : chainWork'[x] = chainWork[x]
      /\ chainWork'[b] = IF b \in Unworkable THEN 0 ELSE WorkOf(b)
      /\ WorkOf(b) \in Nat /\ WorkOf(b) >= BlockWork[b]
      /\ b \in Block /\ b # Genesis /\ Genesis \in Known /\ Known \subseteq Block
  BY Learned, Running DEF Ingestible
<1>2. /\ \A x \in Known : \A i \in DOMAIN Ancestry[x] :
           \/ Ancestry[x][i] \in Known
           \/ grafted /\ i = 1 /\ ~FromGenesis(x)
      /\ \A x \in Known :
             /\ x \in Unworkable => chainWork[x] = 0
             /\ x \notin Unworkable => chainWork[x] >= BlockWork[x]
             /\ FromGenesis(x) /\ Workable(x) => chainWork[x] = TotalWork[x]
  BY DEF CoreInv, KnownIsPath, WorkIsExact
<1>3. KnownIsPath'
  <2> SUFFICES ASSUME NEW x \in Known', NEW i \in DOMAIN Ancestry[x]
               PROVE  \/ Ancestry[x][i] \in Known'
                      \/ grafted /\ i = 1 /\ ~FromGenesis(x)
    BY DEF KnownIsPath, FromGenesis, Origin
  <2>1. CASE x \in Known
    BY <1>1, <1>2, <2>1
  <2>2. CASE x = b /\ b \in Root
    <3>1. Ancestry[b] = <<b>> /\ DOMAIN <<b>> = {1} /\ <<b>>[1] = b
      BY <2>2, RootEnds
    <3> QED BY <1>1, <2>2, <3>1
  <2>3. CASE x = b /\ b \notin Root
    <3>1. Parent[b] \in Known /\ Origin(b) = Origin(Parent[b])
      BY <1>1, <2>3, AncestryExtends DEF Ingestible
    <3>2. \/ Ancestry[b][i] = b
          \/ /\ i \in DOMAIN Ancestry[Parent[b]]
             /\ Ancestry[b][i] = Ancestry[Parent[b]][i]
      BY <1>1, <2>3, PathGrows
    <3> QED BY <1>1, <1>2, <2>3, <3>1, <3>2 DEF FromGenesis
  <2> QED BY <1>1, <2>1, <2>2, <2>3
<1>4. ASSUME FromGenesis(b), Workable(b)
      PROVE  chainWork'[b] = TotalWork[b]
  <2>1. b \notin Root
    BY <1>1, <1>4, RootEnds DEF FromGenesis
  <2>2. /\ Parent[b] \in Known /\ FromGenesis(Parent[b])
        /\ Workable(Parent[b]) /\ b \notin Unworkable
    BY <1>1, <1>4, <2>1, AncestryExtends, WorkableParent DEF Ingestible, FromGenesis
  <2>3. /\ chainWork[Parent[b]] = TotalWork[Parent[b]]
        /\ TotalWork[b] = TotalWork[Parent[b]] + BlockWork[b]
        /\ TotalWork[Parent[b]] \in Nat /\ BlockWork[b] \in Nat
    BY <1>1, <1>2, <2>1, <2>2, TotalWorkAssumption, TreeAssumption
  <2> QED BY <1>1, <2>2, <2>3 DEF WorkOf
<1>5. WorkIsExact'
  <2> SUFFICES ASSUME NEW x \in Known'
               PROVE  /\ x \in Unworkable => chainWork'[x] = 0
                      /\ x \notin Unworkable => chainWork'[x] >= BlockWork[x]
                      /\ FromGenesis(x) /\ Workable(x) => chainWork'[x] = TotalWork[x]
    BY <1>1 DEF WorkIsExact, FromGenesis, Origin, Workable
  <2>1. CASE x \in Known
    BY <1>1, <1>2, <2>1
  <2>2. CASE x = b
    BY <1>1, <1>4, <2>2
  <2> QED BY <1>1, <2>1, <2>2
<1> QED BY <1>3, <1>5
------------------------------------------------------------------------------
(* What ingestBlock verifies *)

\* A block of a path on the scratch state is checked on its parent's chain.
LEMMA VerifyOnPath ==
  ASSUME NEW b \in Block, NEW i \in 2 .. Len(Ancestry[b])
  PROVE  VerifyOn(Ancestry[b], i) <=> Ancestry[b][i] \in Valid \ late
<1>1. /\ Parent[Ancestry[b][i]] = Ancestry[b][i - 1]
      /\ SubSeq(Ancestry[b], 1, i - 1) = Ancestry[Parent[Ancestry[b][i]]]
  BY AncestrySteps
<1> QED BY <1>1 DEF VerifyOn, Verify

\* A branch that verifies is accepted: the blocks it shares with the active chain
\* were accepted before, the others are checked now.  And the other way round.
LEMMA BranchAccepted ==
  ASSUME CoreInv, up, NEW b \in Block
  PROVE  BranchVerifies(Ancestry[b]) <=> Accepted(b)
<1> DEFINE s == Ancestry[b]
<1>1. Len(s) \in Nat
  BY AncestryEnds
<1>2. ASSUME BranchVerifies(s), NEW i \in 2 .. Len(s)
      PROVE  s[i] \in Valid \ late
  <2>1. CASE VerifyOn(s, i)
    BY <2>1, <1>2, VerifyOnPath
  <2>2. CASE OnActiveChain(s, i)
    <3>1. /\ active \in Seq(Block) /\ Len(active) = Len(Ancestry[Tip])
          /\ \A k \in 2 .. Len(active) : active[k] = Ancestry[Tip][k]
          /\ Accepted(Tip)
      BY Running
    <3>2. i \in 1 .. Len(active) /\ active[i] = s[i]
      BY <2>2, <3>1, LenProperties DEF OnActiveChain
    <3>3. i \in 2 .. Len(active)
      BY <1>1, <3>2
    <3> QED BY <3>1, <3>2, <3>3 DEF Accepted
  <2> QED BY <1>2, <2>1, <2>2 DEF BranchVerifies
<1>3. ASSUME Accepted(b), NEW i \in 2 .. Len(s)
      PROVE  VerifyOn(s, i)
  BY <1>3, VerifyOnPath DEF Accepted
<1> QED BY <1>2, <1>3 DEF BranchVerifies, Accepted

\* A block that extends the tip and passes is accepted with all of its chain.
LEMMA ExtensionAccepted ==
  ASSUME CoreInv, up, NEW b, CanExtend(b)
  PROVE  /\ b \in Block \ (Root \cup Unworkable \cup {Genesis})
         /\ Parent[b] = Tip /\ Accepted(b)
         /\ Append(active, b) = Ancestry[b]
              \/ (grafted /\ Append(active, b) = Effects(Ancestry[b]))
         /\ Append(applied, b) = Effects(Ancestry[b])
         /\ Append(log, b) = Tail(Ancestry[b])
<1>1. /\ b \in Valid \ late /\ Parent[b] = Tip
      /\ b \in Block \ (Root \cup Unworkable \cup {Genesis})
  BY TreeAssumption DEF CanExtend, Verify, ExtendsTip
<1>2. /\ active = Ancestry[Tip] \/ (grafted /\ active = Effects(Ancestry[Tip]))
      /\ applied = Effects(Ancestry[Tip])
      /\ log = Tail(Ancestry[Tip])
      /\ Accepted(Tip)
  BY Running
<1>3. /\ Ancestry[b] = Append(Ancestry[Tip], b)
      /\ Tail(Ancestry[b]) = Append(Tail(Ancestry[Tip]), b)
      /\ Effects(Ancestry[b]) = Append(Effects(Ancestry[Tip]), b)
  BY <1>1, AncestryExtends, EffectsGrow
<1>4. Accepted(b)
  <2> SUFFICES ASSUME NEW i \in 2 .. Len(Ancestry[b])
               PROVE  Ancestry[b][i] \in Valid \ late
    BY DEF Accepted
  <2>1. /\ i \in DOMAIN Ancestry[b] /\ Tip \in Block
        /\ DOMAIN Ancestry[Tip] = 1 .. Len(Ancestry[Tip])
    BY <1>1, PathDomain, Running
  <2>2. \/ Ancestry[b][i] = b
        \/ i \in 1 .. Len(Ancestry[Tip]) /\ Ancestry[b][i] = Ancestry[Tip][i]
    BY <1>1, <2>1, PathGrows
  <2>3. i \in Nat /\ i >= 2 /\ Len(Ancestry[Tip]) \in Nat
    BY <2>1, AncestryEnds
  <2> QED BY <1>1, <1>2, <2>2, <2>3 DEF Accepted
<1> QED BY <1>1, <1>2, <1>3, <1>4

\* The work of a block on the tip is more than the tip's.
LEMMA ExtensionPreferred ==
  ASSUME CoreInv, up, NEW b \in Block, Parent[b] = Tip
  PROVE  PrefersChainTip(WorkOf(b), b, chainWork[Tip], Tip)
<1>1. Tip \in Known /\ chainWork[Tip] \in Nat /\ BlockWork[b] \in Nat \ {0}
  BY Running, TreeAssumption
<1>2. WorkOf(b) > chainWork[Tip]
  BY <1>1 DEF WorkOf
<1> QED BY <1>2 DEF PrefersChainTip
------------------------------------------------------------------------------
(* The outcomes of one call of ingestBlock *)

\* A new tip, however it was reached: the log and the snapshot are those of its
\* chain, and no known block is preferred to it.
LEMMA NewTipKeepsCore ==
  ASSUME CoreInv, up, up' = up, late' = late, torn' = torn, grafted' = grafted,
         NEW b, Ingestible(b), b \notin Unworkable, Learn(b),
         PrefersChainTip(WorkOf(b), b, chainWork[Tip], Tip),
         active' = Ancestry[b] \/ (grafted /\ active' = Effects(Ancestry[b])),
         active' # <<>>, Tip' = b,
         applied' = Effects(Ancestry[b]),
         log' = Tail(Ancestry[b]), Accepted(b),
         \/ snap' = snap \/ snap' = NoBlock
         \/ snap' = [tip |-> b, applied |-> Effects(Ancestry[b])]
  PROVE  CoreInv'
<1>1. /\ b \in Block
      /\ Ancestry[b] \in Seq(Block) /\ Effects(Ancestry[b]) \in Seq(Block)
      /\ Tail(Ancestry[b]) \in Seq(Block)
  BY AncestryEnds, AncestryTail, EffectsOf DEF Ingestible
<1>2. DurableTip' = LogTip(Tail(Ancestry[b]))
  BY DEF DurableTip, LogTip
<1>3. /\ Known' = Known \cup {b} /\ Known' \subseteq Block
      /\ chainWork' \in [Known' -> Nat]
      /\ \A x \in Known : chainWork'[x] = chainWork[x]
      /\ chainWork'[b] = WorkOf(b) /\ WorkOf(b) \in Nat
  BY Learned
<1>4. snap' = NoBlock \/ snap' \in Snapshots
  BY <1>1 DEF CoreInv, ChainTypeOK, Snapshots
<1>5. ChainTypeOK'
  BY <1>1, <1>3, <1>4 DEF CoreInv, ChainTypeOK
<1>6. SnapshotSound'
  <2>1. ASSUME snap' = [tip |-> b, applied |-> Effects(Ancestry[b])]
        PROVE  snap'.applied = Effects(Ancestry[snap'.tip])
    BY <2>1
  <2>3. CASE snap' = snap
    BY <2>3 DEF CoreInv, SnapshotSound, Effects
  <2>4. CASE snap' = [tip |-> b, applied |-> Effects(Ancestry[b])]
    BY <2>1, <2>4 DEF SnapshotSound, Effects
  <2> QED BY <2>3, <2>4 DEF SnapshotSound
<1>7. LogIsChain'
  <2>1. log' = Tail(Ancestry[DurableTip'])
    BY <1>1, <1>2, LogEnds
  <2>2. AcceptedLog(Tail(Ancestry[b]))
    BY <1>1, AcceptedChain
  <2> QED BY <2>1, <2>2 DEF LogIsChain, AcceptedLog
<1>8. MemoryMatchesDisk'
  <2>1. ~torn
    BY DEF CoreInv, MemoryMatchesDisk
  <2> QED BY <1>3, <2>1 DEF MemoryMatchesDisk, Effects
<1>9. KnownIsPath' /\ WorkIsExact'
  BY LearnKeeps
<1>10. PreferredIsAccepted'
  <2> SUFFICES ASSUME NEW x \in Known',
                      PrefersChainTip(chainWork'[x], x, WorkOf(b), b)
               PROVE  grafted /\ Accepted(x)
    BY <1>3 DEF PreferredIsAccepted, Accepted
  <2>1. /\ Tip \in Block /\ x \in Block /\ chainWork'[x] \in Nat
        /\ chainWork[Tip] \in Nat
    BY <1>3, Running
  <2>2. x # b
    BY <1>1, <1>3, PreferenceIsStrict
  <2>3. x \in Known /\ chainWork'[x] = chainWork[x]
    BY <1>3, <2>2
  <2>4. PrefersChainTip(chainWork[x], x, chainWork[Tip], Tip)
    BY <1>1, <1>3, <2>1, <2>3, PreferenceIsStrict
  <2> QED BY <2>3, <2>4 DEF CoreInv, PreferredIsAccepted
<1>11. BestKnown'
  BY <1>10 DEF PreferredIsAccepted, BestKnown
<1> QED BY <1>5, <1>6, <1>7, <1>8, <1>9, <1>10, <1>11 DEF CoreInv

\* Extending the tip.
LEMMA ExtendKeepsCore ==
  ASSUME CoreInv, up, up' = up, late' = late, grafted' = grafted,
         NEW b, Ingestible(b), ExtendActiveChain(b)
  PROVE  CoreInv'
<1>1. /\ CanExtend(b) /\ Learn(b) /\ torn' = torn
      /\ active' = Append(active, b) /\ applied' = Append(applied, b)
      /\ log' = Append(log, b)
      /\ snap' = snap \/ snap' = [tip |-> b, applied |-> Append(applied, b)]
  BY DEF ExtendActiveChain
<1>2. /\ b \in Block \ (Root \cup Unworkable \cup {Genesis})
      /\ Parent[b] = Tip /\ Accepted(b)
      /\ Append(active, b) = Ancestry[b]
           \/ (grafted /\ Append(active, b) = Effects(Ancestry[b]))
      /\ Append(applied, b) = Effects(Ancestry[b])
      /\ Append(log, b) = Tail(Ancestry[b])
  BY <1>1, ExtensionAccepted
<1>3. PrefersChainTip(WorkOf(b), b, chainWork[Tip], Tip)
  BY <1>2, ExtensionPreferred
<1>4. active' # <<>> /\ Tip' = b
  <2>1. active \in Seq(Block)
    BY Running
  <2>2. Len(Append(active, b)) = Len(active) + 1 /\ Len(active) \in Nat
        /\ Append(active, b)[Len(active) + 1] = b /\ Append(active, b) # <<>>
    BY <1>2, <2>1, AppendProperties, LenProperties
  <2> QED BY <1>1, <2>2 DEF Tip
<1>5. /\ active' = Ancestry[b] \/ (grafted /\ active' = Effects(Ancestry[b]))
      /\ applied' = Effects(Ancestry[b]) /\ log' = Tail(Ancestry[b])
      /\ snap' = snap \/ snap' = [tip |-> b, applied |-> Effects(Ancestry[b])]
  BY <1>1, <1>2
<1> QED BY <1>1, <1>2, <1>3, <1>4, <1>5, NewTipKeepsCore

\* Switching to another branch.
LEMMA ReorgKeepsCore ==
  ASSUME CoreInv, up, up' = up, late' = late, grafted' = grafted,
         NEW b, Ingestible(b), ReorgToBlock(b)
  PROVE  CoreInv'
<1>1. /\ b \notin Unworkable /\ Preferred(b) /\ BranchVerifies(Ancestry[b])
      /\ Learn(b) /\ torn' = torn /\ snap' = NoBlock
      /\ active' = Ancestry[b] /\ applied' = Effects(Ancestry[b])
      /\ log' = Tail(Ancestry[b]) /\ b \in Block
  BY DEF ReorgToBlock, CanReorg, Outranks, Ingestible
<1>2. Accepted(b)
  BY <1>1, BranchAccepted
<1>3. active' # <<>> /\ Tip' = b
  BY <1>1, AncestryEnds DEF Tip
<1>4. PrefersChainTip(WorkOf(b), b, chainWork[Tip], Tip)
  BY <1>1 DEF Preferred
<1> QED BY <1>1, <1>2, <1>3, <1>4, NewTipKeepsCore

\* Learning a block without following it, because it is not preferred or because
\* the node cannot.
LEMMA LearnKeepsCore ==
  ASSUME CoreInv, up, up' = up, late' = late, grafted' = grafted,
         UNCHANGED <<active, applied, log, torn, snap>>,
         NEW b, Ingestible(b), Learn(b),
         PrefersChainTip(chainWork'[b], b, chainWork[Tip], Tip)
           => grafted /\ Accepted(b)
  PROVE  CoreInv'
<1>1. /\ Known' = Known \cup {b} /\ Known' \subseteq Block
      /\ chainWork' \in [Known' -> Nat]
      /\ \A x \in Known : chainWork'[x] = chainWork[x]
  BY Learned
<1>2. Tip' = Tip /\ Tip \in Known
  BY Running DEF Tip
<1>3. ChainTypeOK'
  BY <1>1 DEF CoreInv, ChainTypeOK
<1>4. SnapshotSound' /\ LogIsChain'
  BY DEF CoreInv, SnapshotSound, LogIsChain, DurableTip, Effects
<1>5. MemoryMatchesDisk'
  BY <1>1, <1>2 DEF CoreInv, MemoryMatchesDisk, Effects
<1>6. KnownIsPath' /\ WorkIsExact'
  BY LearnKeeps
<1>7. PreferredIsAccepted'
  <2> SUFFICES ASSUME NEW x \in Known',
                      PrefersChainTip(chainWork'[x], x, chainWork[Tip], Tip)
               PROVE  grafted /\ Accepted(x)
    BY <1>1, <1>2 DEF PreferredIsAccepted, Accepted
  <2>1. CASE x = b
    BY <2>1
  <2>2. CASE x \in Known
    BY <1>1, <2>2 DEF CoreInv, PreferredIsAccepted
  <2> QED BY <1>1, <2>1, <2>2
<1>8. BestKnown'
  BY <1>7 DEF PreferredIsAccepted, BestKnown
<1> QED BY <1>3, <1>4, <1>5, <1>6, <1>7, <1>8 DEF CoreInv

LEMMA KeepKeepsCore ==
  ASSUME CoreInv, up, up' = up, late' = late, grafted' = grafted,
         NEW b, Ingestible(b), b \notin Unworkable, KeepBranch(b)
  PROVE  CoreInv'
<1>1. /\ Learn(b) /\ ~Preferred(b)
      /\ UNCHANGED <<active, applied, log, torn, snap>>
  BY DEF KeepBranch
<1>2. chainWork'[b] = WorkOf(b)
  BY <1>1, Learned
<1>3. ~PrefersChainTip(chainWork'[b], b, chainWork[Tip], Tip)
  BY <1>1, <1>2 DEF Preferred
<1> QED BY <1>1, <1>3, LearnKeepsCore

\* A call that throws has the block known, and does not change anything else: the
\* chain that it cannot follow is one whose first block the node lacks.
LEMMA ThrowKeepsCore ==
  ASSUME CoreInv, up, up' = up, late' = late, grafted' = grafted,
         NEW b, Ingestible(b), Throw(b)
  PROVE  CoreInv' /\ (b \notin Unworkable => grafted)
<1>1. /\ Throws(b) /\ Learn(b) /\ b \in Block
      /\ UNCHANGED <<active, applied, log, torn, snap>>
  BY DEF Throw, Ingestible
<1>2. chainWork'[b] = IF b \in Unworkable THEN 0 ELSE WorkOf(b)
  BY <1>1, Learned
<1>3. CASE b \in Unworkable
  <2>1. chainWork'[b] = 0 /\ chainWork[Tip] \in Nat \ {0}
    BY <1>2, <1>3, Running
  <2>2. ~PrefersChainTip(chainWork'[b], b, chainWork[Tip], Tip)
    BY <2>1 DEF PrefersChainTip
  <2> QED BY <1>1, <1>3, <2>2, LearnKeepsCore
<1>4. CASE b \notin Unworkable
  <2>1. Outranks(b) /\ ~RootKnown(b)
    BY <1>1, <1>4 DEF Throws
  <2>2. Accepted(b)
    BY <1>1, <2>1, BranchAccepted DEF Outranks
  <2>3. b \notin Root /\ Parent[b] \in Known
    BY <1>1, <2>1, RootEnds DEF RootKnown, Ingestible
  <2>4. Parent[b] \in Block /\ Origin(b) = Ancestry[Parent[b]][1]
    BY <1>1, <2>3, AncestryExtends DEF Origin
  <2>5. 1 \in DOMAIN Ancestry[Parent[b]]
    <3>1. Len(Ancestry[Parent[b]]) \in Nat \ {0}
      BY <2>4, AncestryEnds
    <3> QED BY <2>4, <3>1, PathDomain
  <2>6. grafted
    BY <2>1, <2>3, <2>4, <2>5 DEF CoreInv, KnownIsPath, RootKnown
  <2> QED BY <1>1, <2>2, <2>6, LearnKeepsCore
<1> QED BY <1>3, <1>4

\* A rejected block was not known before, and forgetting it changes nothing.
LEMMA RejectKeepsCore ==
  ASSUME CoreInv, up, up' = up, late' = late, grafted' = grafted,
         NEW b, Ingestible(b), b \notin Unworkable, RejectBlock(b)
  PROVE  CoreInv' /\ chainWork' = chainWork /\ b \notin Known
<1>1. /\ Forget(b) /\ b \in Block
      /\ ExtendsTip(b) \/ Preferred(b)
      /\ ~CanExtend(b) /\ ~Outranks(b)
      /\ UNCHANGED <<active, applied, log, torn, snap>>
  BY DEF RejectBlock, Ingestible
<1>2. ASSUME b \in Known
      PROVE  FALSE
  <2>1. b \notin Root /\ Parent[b] \in Known /\ chainWork[b] = WorkOf(b)
    BY <1>2 DEF Ingestible
  <2>2. PrefersChainTip(WorkOf(b), b, chainWork[Tip], Tip)
    BY <1>1, ExtensionPreferred DEF ExtendsTip, Preferred
  <2>3. Accepted(b)
    BY <1>2, <2>1, <2>2 DEF CoreInv, PreferredIsAccepted
  <2>4. BranchVerifies(Ancestry[b])
    BY <1>1, <2>3, BranchAccepted
  <2>5. ExtendsTip(b)
    BY <1>1, <2>2, <2>4 DEF Outranks, Preferred
  <2>6. b \in Valid \ late
    <3> DEFINE n == Len(Ancestry[b])
    <3>1. n \in Nat \ {0} /\ Ancestry[b][n] = b
      BY <1>1, AncestryEnds
    <3>2. n = Len(Ancestry[Parent[b]]) + 1 /\ Len(Ancestry[Parent[b]]) \in Nat \ {0}
      BY <1>1, <2>1, AncestryExtends, AncestryEnds
    <3>3. n \in 2 .. n
      BY <3>2
    <3> QED BY <2>3, <3>1, <3>3 DEF Accepted
  <2>7. applied = Effects(Ancestry[Tip])
    BY Running
  <2> QED BY <1>1, <2>5, <2>6, <2>7 DEF CanExtend, ExtendsTip, Verify
<1>3. chainWork \in [Known -> Nat]
  BY DEF CoreInv, ChainTypeOK
<1>4. Known \ {b} = Known
  BY <1>2
<1>5. chainWork' = [x \in Known |-> chainWork[x]]
  BY <1>1, <1>4 DEF Forget
<1>6. chainWork' = chainWork /\ Known' = Known /\ Tip' = Tip
  BY <1>1, <1>3, <1>5 DEF Known, Tip
<1>7. ChainTypeOK' /\ SnapshotSound' /\ LogIsChain' /\ MemoryMatchesDisk'
  <2>1. ChainTypeOK'
    BY <1>1, <1>6 DEF CoreInv, ChainTypeOK
  <2>2. SnapshotSound' /\ LogIsChain'
    BY <1>1 DEF CoreInv, SnapshotSound, LogIsChain, DurableTip, Effects
  <2>3. MemoryMatchesDisk'
    BY <1>1, <1>6 DEF CoreInv, MemoryMatchesDisk, Effects
  <2> QED BY <2>1, <2>2, <2>3
<1>8. KnownIsPath' /\ WorkIsExact' /\ BestKnown' /\ PreferredIsAccepted'
  BY <1>1, <1>6 DEF CoreInv, KnownIsPath, WorkIsExact, BestKnown, PreferredIsAccepted,
     FromGenesis, Origin, Workable, Accepted
<1> QED BY <1>2, <1>6, <1>7, <1>8 DEF CoreInv
------------------------------------------------------------------------------
(* Crashes and restarts *)

\* Whatever the crash left in the log, as long as it is one accepted chain
\* without its first block.
LEMMA CrashKeepsCore ==
  ASSUME CoreInv, LoseMemory, NEW b \in Block,
         log' = Tail(Ancestry[b]), Accepted(b),
         torn' \in BOOLEAN, snap' = snap
  PROVE  CoreInv'
<1>1. /\ ~up' /\ up' \in BOOLEAN /\ late' = late
      /\ chainWork' = [x \in {} |-> 0] /\ grafted' \in BOOLEAN
      /\ active' = <<>> /\ applied' = <<>>
  BY DEF LoseMemory
<1>2. Known' = {}
  BY <1>1 DEF Known
<1>3. chainWork' \in [Known' -> Nat]
  BY <1>1, <1>2
<1>4. /\ log' = Tail(Ancestry[DurableTip']) /\ Tail(Ancestry[b]) \in Seq(Block)
  <2>1. DurableTip' = LogTip(Tail(Ancestry[b]))
    BY DEF DurableTip, LogTip
  <2> QED BY <2>1, LogEnds, AncestryTail
<1>5. ChainTypeOK'
  BY <1>1, <1>2, <1>3, <1>4 DEF CoreInv, ChainTypeOK
<1>6. SnapshotSound'
  BY DEF CoreInv, SnapshotSound, Effects
<1>7. LogIsChain'
  <2>1. AcceptedLog(Tail(Ancestry[b]))
    BY AcceptedChain
  <2> QED BY <1>1, <1>4, <2>1 DEF LogIsChain, AcceptedLog
<1> QED BY <1>1, <1>5, <1>6, <1>7 DEF CoreInv, MemoryMatchesDisk, KnownIsPath,
    WorkIsExact, BestKnown, PreferredIsAccepted

\* The state that the durable tip's chain produces, block for block.
DurableState == Effects(Ancestry[DurableTip])

LEMMA DurableStates ==
  ASSUME CoreInv
  PROVE  /\ DurableState \in Seq(Block) /\ Len(DurableState) = Len(log) + 1
         /\ DurableState[1] = Genesis
         /\ \A h \in 1 .. Len(log) : log[h] = DurableState[h + 1]
         /\ DurableState = <<Genesis>> \o log
<1>1. /\ DurableTip \in Block /\ Len(log) \in Nat
      /\ Len(Ancestry[DurableTip]) = Len(log) + 1
      /\ log = Tail(Ancestry[DurableTip])
      /\ \A h \in 1 .. Len(log) : log[h] = Ancestry[DurableTip][h + 1]
  BY DurableChain
<1>2. /\ DurableState \in Seq(Block)
      /\ Len(DurableState) = Len(Ancestry[DurableTip])
      /\ DurableState[1] = Genesis
      /\ \A i \in 2 .. Len(Ancestry[DurableTip]) :
            DurableState[i] = Ancestry[DurableTip][i]
  BY <1>1, EffectsOf DEF DurableState
<1>3. \A h \in 1 .. Len(log) : h + 1 \in 2 .. Len(log) + 1
  BY <1>1
<1>4. DurableState = <<Genesis>> \o log
  BY <1>1, Zenon DEF DurableState, Effects
<1> QED BY <1>1, <1>2, <1>3, <1>4

\* A part of the log is the same part of the state, one place further.
LEMMA LogSlice ==
  ASSUME CoreInv, NEW m \in 1 .. Len(log) + 1, NEW n \in m - 1 .. Len(log)
  PROVE  SubSeq(log, m, n) = SubSeq(DurableState, m + 1, n + 1)
<1> DEFINE a == DurableState
           s == SubSeq(log, m, n)
           t == SubSeq(a, m + 1, n + 1)
<1>1. /\ log \in Seq(Block) /\ a \in Seq(Block)
      /\ Len(log) \in Nat /\ Len(a) = Len(log) + 1
      /\ \A h \in 1 .. Len(log) : log[h] = a[h + 1]
  BY DurableChain, DurableStates
<1>2. /\ \A i \in m .. n : log[i] \in Block
      /\ \A i \in m + 1 .. n + 1 : a[i] \in Block
  BY <1>1, ElementOfSeq
<1>3. m \in Int /\ n \in Int /\ m + 1 \in Int /\ n + 1 \in Int /\ m - 1 <= n
  BY <1>1
<1> HIDE DEF a
<1>4. /\ s \in Seq(Block)
      /\ Len(s) = IF m <= n THEN n - m + 1 ELSE 0
      /\ \A i \in 1 .. n - m + 1 : s[i] = log[m + i - 1]
  BY <1>2, <1>3, SubSeqProperties
<1>5. /\ t \in Seq(Block)
      /\ Len(t) = IF m + 1 <= n + 1 THEN n + 1 - (m + 1) + 1 ELSE 0
      /\ \A i \in 1 .. n + 1 - (m + 1) + 1 : t[i] = a[m + 1 + i - 1]
  BY <1>2, <1>3, SubSeqProperties
<1> HIDE DEF s, t
<1>6. Len(s) = Len(t)
  BY <1>3, <1>4, <1>5
<1>7. \A i \in 1 .. Len(s) : s[i] = t[i]
  <2> SUFFICES ASSUME NEW i \in 1 .. Len(s)
               PROVE  s[i] = t[i]
    OBVIOUS
  <2>1. i \in 1 .. n - m + 1 /\ i \in 1 .. n + 1 - (m + 1) + 1
    BY <1>3, <1>4
  <2>2. s[i] = log[m + i - 1] /\ t[i] = a[m + 1 + i - 1]
    BY <1>4, <1>5, <2>1
  <2>3. m + i - 1 \in 1 .. Len(log) /\ m + 1 + i - 1 = (m + i - 1) + 1
    BY <1>1, <1>3, <2>1
  <2> QED BY <1>1, <2>2, <2>3
<1>8. s = t
  BY <1>4, <1>5, <1>6, <1>7, SeqEqual
<1> QED BY <1>8 DEF s, t, a

\* A snapshot that fits holds the state of a prefix of the durable chain.
LEMMA ReplayStart ==
  ASSUME CoreInv
  PROVE  /\ ReplayFrom \in 0 .. Len(log)
         /\ ReplayBase = SubSeq(DurableState, 1, ReplayFrom + 1)
<1> DEFINE a == Ancestry[DurableTip]
           e == DurableState
<1>1. /\ Len(log) \in Nat /\ Len(a) = Len(log) + 1
      /\ DOMAIN log = 1 .. Len(log) /\ DurableTip \in Block
      /\ \A h \in 1 .. Len(log) : log[h] = a[h + 1]
  BY DurableChain
<1>2. \A i \in 1 .. Len(a) : SubSeq(e, 1, i) = Effects(Ancestry[a[i]])
  BY <1>1, EffectsPrefix DEF DurableState
<1>3. CASE SnapshotFits
  <2> DEFINE h == Height(snap.tip)
  <2>1. h \in 1 .. Len(log) /\ log[h] = snap.tip
    BY <1>1, <1>3 DEF SnapshotFits
  <2>2. snap.applied = Effects(Ancestry[snap.tip])
    BY <1>3 DEF SnapshotFits, CoreInv, SnapshotSound
  <2>3. ReplayFrom = h /\ ReplayBase = snap.applied
    BY <1>3 DEF ReplayFrom, ReplayBase
  <2> HIDE DEF h, a, e
  <2>4. h + 1 \in 1 .. Len(a) /\ a[h + 1] = snap.tip
    BY <1>1, <2>1
  <2>5. SubSeq(e, 1, h + 1) = Effects(Ancestry[snap.tip])
    BY <1>2, <2>4
  <2>6. ReplayBase = SubSeq(e, 1, ReplayFrom + 1)
    BY <2>2, <2>3, <2>5
  <2>7. ReplayFrom \in 0 .. Len(log)
    BY <1>1, <2>1, <2>3
  <2> QED BY <2>6, <2>7 DEF e
<1>4. CASE ~SnapshotFits
  <2>1. ReplayFrom = 0 /\ ReplayBase = <<Genesis>>
    BY <1>4 DEF ReplayFrom, ReplayBase
  <2>2. 1 \in 1 .. Len(a) /\ a[1] \in Root
    BY <1>1, AncestryEnds
  <2>3. SubSeq(e, 1, 1) = <<Genesis>>
    BY <1>2, <2>2, RootEnds
  <2>4. ReplayFrom + 1 = 1 /\ ReplayFrom \in 0 .. Len(log)
    BY <1>1, <2>1
  <2> HIDE DEF e
  <2>5. ReplayBase = SubSeq(e, 1, ReplayFrom + 1)
    BY <2>1, <2>3, <2>4
  <2> QED BY <2>4, <2>5 DEF e
<1> QED BY <1>3, <1>4

\* So the replay up to a height yields the state of the block at that height.
LEMMA ReplayedPrefix ==
  ASSUME CoreInv, NEW h \in ReplayFrom .. Len(log)
  PROVE  Replayed(h) = SubSeq(DurableState, 1, h + 1)
<1> DEFINE a == DurableState
           r == ReplayFrom
<1>1. /\ a \in Seq(Block)
      /\ Len(log) \in Nat /\ Len(a) = Len(log) + 1
  BY DurableChain, DurableStates
<1>2. r \in 0 .. Len(log) /\ ReplayBase = SubSeq(a, 1, r + 1)
  BY ReplayStart
<1>3. SubSeq(log, r + 1, h) = SubSeq(a, r + 1 + 1, h + 1)
  <2> DEFINE m == r + 1
  <2>1. m \in 1 .. Len(log) + 1 /\ h \in m - 1 .. Len(log)
    BY <1>1, <1>2
  <2> HIDE DEF m
  <2>2. SubSeq(log, m, h) = SubSeq(a, m + 1, h + 1)
    BY <2>1, LogSlice
  <2> QED BY <2>2 DEF m
<1>4. SubSeq(a, 1, r + 1) \o SubSeq(a, r + 1 + 1, h + 1) = SubSeq(a, 1, h + 1)
  <2> HIDE DEF a, r
  <2>1. /\ 1 \in 1 .. Len(a) + 1 /\ r + 1 \in 1 - 1 .. Len(a)
        /\ h + 1 \in r + 1 .. Len(a)
    BY <1>1, <1>2 DEF r
  <2> QED BY <1>1, <2>1, ConcatAdjacentSubSeq
<1> HIDE DEF a
<1> QED BY <1>2, <1>3, <1>4 DEF Replayed, a

\* A restart that succeeds rebuilds the durable tip's state.
LEMMA ReplayedState ==
  ASSUME CoreInv
  PROVE  Replayed(Len(log)) = DurableState
<1>1. /\ DurableState \in Seq(Block) /\ Len(log) \in Nat
      /\ Len(DurableState) = Len(log) + 1
  BY DurableChain, DurableStates
<1>2. Len(log) \in ReplayFrom .. Len(log)
  BY <1>1, ReplayStart
<1>3. Replayed(Len(log)) = SubSeq(DurableState, 1, Len(DurableState))
  BY <1>1, <1>2, ReplayedPrefix
<1> QED BY <1>1, <1>3, SubSeqFull

\* Every crash leaves files that load, if their chain starts at the compiled
\* genesis.
LEMMA ReplaySucceeds ==
  ASSUME CoreInv, log # <<>> => FromGenesis(log[1])
  PROVE  ReplayAccepts
<1> DEFINE a == Ancestry[DurableTip]
<1>1. /\ DurableTip \in Block
      /\ Len(log) \in Nat /\ Len(a) = Len(log) + 1
      /\ \A h \in 1 .. Len(log) : log[h] = a[h + 1]
      /\ DOMAIN log = 1 .. Len(log)
      /\ \A i \in DOMAIN log : log[i] \in Valid \ late
      /\ log \in Seq(Block)
  BY DurableChain DEF AcceptedLog
<1>2. ReplayFrom \in 0 .. Len(log)
  BY ReplayStart
<1> SUFFICES ASSUME NEW h \in ReplayFrom + 1 .. Len(log)
             PROVE  /\ Parent[log[h]] = ReplayTip(h - 1)
                    /\ Replayed(h - 1) = Effects(Ancestry[Parent[log[h]]])
                    /\ log[h] \in Valid \ late
  BY DEF ReplayAccepts, Verify
<1> HIDE DEF a
<1>3. /\ h - 1 \in ReplayFrom .. Len(log) /\ h - 1 + 1 = h
      /\ h + 1 \in 2 .. Len(a) /\ h + 1 - 1 = h /\ h \in 1 .. Len(a)
      /\ h \in 1 .. Len(log) /\ log[h] = a[h + 1]
  BY <1>1, <1>2
<1>4. Parent[log[h]] = a[h]
  <2> DEFINE k == h + 1
  <2>1. k \in 2 .. Len(a) /\ k - 1 = h /\ log[h] = a[k]
    BY <1>3
  <2> HIDE DEF k
  <2>2. Parent[a[k]] = a[k - 1]
    BY <1>1, <2>1, AncestrySteps DEF a
  <2> QED BY <2>1, <2>2
<1>5. Replayed(h - 1) = Effects(Ancestry[a[h]])
  <2> DEFINE k == h - 1
  <2>1. k \in ReplayFrom .. Len(log) /\ k + 1 = h
    BY <1>3
  <2> HIDE DEF k
  <2>2. Replayed(k) = SubSeq(DurableState, 1, k + 1)
    BY <2>1, ReplayedPrefix
  <2>3. SubSeq(DurableState, 1, h) = Effects(Ancestry[a[h]])
    BY <1>1, <1>3, EffectsPrefix DEF DurableState, a
  <2> QED BY <2>1, <2>2, <2>3 DEF k
<1>6. ReplayTip(h - 1) = a[h]
  <2>1. CASE h = 1
    <3>1. log # <<>> /\ 2 \in 1 .. Len(a) /\ log[1] = a[2]
      <4>1. 1 \in 1 .. Len(log)
        BY <1>3, <2>1
      <4>2. log # <<>>
        BY <1>1, <4>1, EmptySeq
      <4> QED BY <1>1, <4>1, <4>2
    <3>2. FromGenesis(a[2]) /\ Origin(a[2]) = Origin(DurableTip)
      BY <1>1, <3>1, PathOfPath DEF a
    <3>3. a[1] = Genesis
      BY <3>2 DEF FromGenesis, Origin, a
    <3> QED BY <2>1, <3>3 DEF ReplayTip
  <2>2. CASE h # 1
    <3>1. h - 1 \in 1 .. Len(log) /\ h - 1 # 0 /\ h - 1 + 1 = h
      BY <1>1, <1>3, <2>2
    <3>2. log[h - 1] = a[h]
      BY <1>1, <3>1
    <3> QED BY <3>1, <3>2 DEF ReplayTip
  <2> QED BY <2>1, <2>2
<1> QED BY <1>1, <1>3, <1>4, <1>5, <1>6

\* The blocks that a restart puts into memory: genesis, and the log.
LEMMA RestartKnows ==
  ASSUME CoreInv, Restart
  PROVE  /\ Known' = {Genesis} \cup {log[h] : h \in DOMAIN log}
         /\ Known' \subseteq Block
         /\ \A x \in Known' : x # Genesis =>
               \E i \in 2 .. Len(Ancestry[DurableTip]) : x = Ancestry[DurableTip][i]
         /\ \A i \in 2 .. Len(Ancestry[DurableTip]) :
               Ancestry[DurableTip][i] \in Known'
         /\ chainWork' = [x \in Known' |-> ReplayedWork(x)]
         /\ \A x \in Known' : x # Genesis => x \in Valid /\ Origin(x) = Origin(DurableTip)
         /\ grafted' \in BOOLEAN /\ grafted' = ~FromGenesis(DurableTip)
<1> DEFINE a == Ancestry[DurableTip]
<1>1. /\ DurableTip \in Block
      /\ Len(log) \in Nat /\ Len(a) = Len(log) + 1
      /\ \A h \in 1 .. Len(log) : log[h] = a[h + 1]
      /\ DOMAIN log = 1 .. Len(log) /\ log \in Seq(Block)
      /\ \A i \in DOMAIN log : log[i] \in Valid \ late
  BY DurableChain DEF AcceptedLog
<1>2. /\ chainWork' = [b \in {Genesis} \cup {log[h] : h \in DOMAIN log} |->
                     ReplayedWork(b)]
      /\ grafted' = (log # <<>> /\ ~FromGenesis(log[1]))
  BY DEF Restart, Replay
<1>3. /\ Known' = {Genesis} \cup {log[h] : h \in DOMAIN log}
      /\ chainWork' = [x \in Known' |-> ReplayedWork(x)]
  BY <1>2 DEF Known
<1>4. ASSUME NEW x \in Known', x # Genesis
      PROVE  \E i \in 2 .. Len(a) : x = a[i] /\ x \in Valid
  <2>1. PICK h \in DOMAIN log : x = log[h]
    BY <1>3, <1>4
  <2> HIDE DEF a
  <2>2. h + 1 \in 2 .. Len(a) /\ x = a[h + 1] /\ x \in Valid
    BY <1>1, <2>1
  <2> QED BY <2>2
<1>5. ASSUME NEW i \in 2 .. Len(a)
      PROVE  a[i] \in Known'
  <2> HIDE DEF a
  <2>1. i - 1 \in 1 .. Len(log) /\ i - 1 + 1 = i
    BY <1>1
  <2>2. log[i - 1] = a[i]
    BY <1>1, <2>1
  <2> QED BY <1>1, <1>3, <2>1, <2>2
<1>6. \A i \in 2 .. Len(a) : a[i] \in Block /\ Origin(a[i]) = Origin(DurableTip)
  <2> SUFFICES ASSUME NEW i \in 2 .. Len(a)
               PROVE  a[i] \in Block /\ Origin(a[i]) = Origin(DurableTip)
    OBVIOUS
  <2>1. i \in 1 .. Len(a)
    OBVIOUS
  <2> QED BY <1>1, <2>1, PathOfPath
<1>7. Known' \subseteq Block
  BY <1>4, <1>6, TreeAssumption
<1>8. grafted' \in BOOLEAN /\ grafted' = ~FromGenesis(DurableTip)
  <2>1. CASE log = <<>>
    <3>1. DurableTip = Genesis /\ FromGenesis(Genesis)
      BY <2>1, RootEnds, TreeAssumption DEF DurableTip, FromGenesis
    <3> QED BY <1>2, <2>1, <3>1
  <2>2. CASE log # <<>>
    <3>1. 2 \in 2 .. Len(a) /\ log[1] = a[2]
      <4>1. Len(log) # 0
        BY <1>1, <2>2, EmptySeq
      <4> HIDE DEF a
      <4> QED BY <1>1, <4>1
    <3>2. FromGenesis(log[1]) <=> FromGenesis(DurableTip)
      BY <1>6, <3>1 DEF FromGenesis
    <3> QED BY <1>2, <2>2, <3>2
  <2> QED BY <2>1, <2>2
<1> QED BY <1>3, <1>4, <1>5, <1>6, <1>7, <1>8

\* The work of a block, and what is left of it without its first block's.
LEMMA ReplayedWorks ==
  ASSUME NEW b \in Block
  PROVE  /\ TotalWork[b] \in Nat
         /\ FromGenesis(b) => ReplayedWork(b) = TotalWork[b]
         /\ b \notin Root => ReplayedWork(b) \in Nat /\ ReplayedWork(b) >= BlockWork[b]
         /\ b = Genesis => ReplayedWork(b) = BlockWork[b] /\ BlockWork[b] \in Nat
<1>1. TotalWork[b] \in Nat /\ BlockWork[b] \in Nat
  BY TotalWorkAssumption, TreeAssumption
<1>2. FromGenesis(b) => ReplayedWork(b) = TotalWork[b]
  BY <1>1 DEF ReplayedWork
<1>3. ASSUME b \notin Root
      PROVE  ReplayedWork(b) \in Nat /\ ReplayedWork(b) >= BlockWork[b]
  <2> DEFINE p == Parent[b]
             o == Origin(b)
  <2>1. /\ p \in Block /\ o = Ancestry[p][1] /\ o \in Root /\ o \in Block
        /\ Ancestry[p][Len(Ancestry[p])] = p /\ Len(Ancestry[p]) \in Nat \ {0}
    BY <1>3, AncestryExtends, AncestryEnds DEF Origin
  <2>2. /\ TotalWork[b] = TotalWork[p] + BlockWork[b]
        /\ TotalWork[p] \in Nat /\ TotalWork[o] = BlockWork[o] /\ BlockWork[o] \in Nat
    BY <1>3, <2>1, TotalWorkAssumption, TreeAssumption
  <2>3. TotalWork[o] <= TotalWork[p]
    <3>1. CASE Len(Ancestry[p]) = 1
      BY <2>1, <2>2, <3>1
    <3>2. CASE Len(Ancestry[p]) # 1
      <4>0. Len(Ancestry[p]) \in Nat \ {0}
        BY <2>1
      <4>1. 1 \in 1 .. Len(Ancestry[p]) - 1
        <5> DEFINE n == Len(Ancestry[p])
        <5>1. n \in Nat \ {0} /\ n # 1
          BY <3>2, <4>0
        <5> HIDE DEF n
        <5>2. 1 \in 1 .. n - 1
          BY ONLY <5>1
        <5> QED BY <5>2 DEF n
      <4>2. TotalWork[Ancestry[p][1]] < TotalWork[p]
        BY <2>1, <4>1, TotalWorkAssumption
      <4> QED BY <2>1, <2>2, <4>2
    <3> QED BY <3>1, <3>2
  <2> HIDE DEF p
  <2> QED BY <1>1, <2>2, <2>3 DEF ReplayedWork
<1>4. b = Genesis => ReplayedWork(b) = BlockWork[b]
  <2>1. FromGenesis(Genesis) /\ TotalWork[Genesis] = BlockWork[Genesis]
    BY RootEnds, TreeAssumption, TotalWorkAssumption DEF FromGenesis
  <2> QED BY <1>2, <2>1
<1> QED BY <1>1, <1>2, <1>3, <1>4

\* Blocks further up on one chain have more of the work that is left.
LEMMA ReplayedOrder ==
  ASSUME NEW b \in Block, NEW i \in 1 .. Len(Ancestry[b]) - 1,
         i >= 2 \/ FromGenesis(b)
  PROVE  ReplayedWork(Ancestry[b][i]) < ReplayedWork(b)
<1> DEFINE c == Ancestry[b][i]
<1>1. i \in 1 .. Len(Ancestry[b]) /\ Len(Ancestry[b]) \in Nat
  BY AncestryEnds
<1>2. /\ c \in Block /\ Origin(c) = Origin(b) /\ TotalWork[c] < TotalWork[b]
      /\ TotalWork[c] \in Nat /\ TotalWork[b] \in Nat
  BY <1>1, PathOfPath, TotalWorkAssumption
<1>3. Origin(b) \in Block /\ BlockWork[Origin(b)] \in Nat
  BY AncestryEnds, TreeAssumption DEF Origin
<1> HIDE DEF c
<1>4. ReplayedWork(c) < ReplayedWork(b)
  BY <1>2, <1>3 DEF ReplayedWork, FromGenesis
<1> QED BY <1>4 DEF c

\* A restart rebuilds the node's memory from its files.
LEMMA RestartKeepsCore ==
  ASSUME CoreInv, Restart
  PROVE  CoreInv'
<1> DEFINE d == DurableTip
           a == Ancestry[DurableTip]
<1>1. /\ up' /\ late' = late /\ log' = log /\ torn' = FALSE
      /\ active' = <<Genesis>> \o log
      /\ applied' = Replayed(Len(log))
      /\ snap' = snap \/ snap' = NoBlock
      /\ up' = TRUE
  BY DEF Restart, Replay
<1>2. /\ d \in Block /\ log = Tail(a) /\ log \in Seq(Block)
      /\ Len(log) \in Nat /\ Len(a) = Len(log) + 1
      /\ d = Genesis \/ d \notin Root
  <2>1. d = LogTip(Tail(a))
    BY DurableChain DEF LogTip, DurableTip
  <2> QED BY <2>1, DurableChain, LogEnds
<1>3. a \in Seq(Block) /\ a[Len(a)] = d /\ a[1] \in Root
  BY <1>2, AncestryEnds
<1>4. active' = Effects(a) /\ applied' = Effects(a)
  BY <1>1, <1>2, DurableStates, ReplayedState DEF DurableState
<1>5. active' # <<>> /\ Tip' = d /\ active' \in Seq(Block)
  <2> DEFINE e == Effects(a)
  <2>1. /\ e \in Seq(Block) /\ Len(e) = Len(log) + 1 /\ e[1] = Genesis
        /\ \A i \in 2 .. Len(log) + 1 : e[i] = a[i]
    BY <1>2, EffectsOf
  <2>2. Len(active') = Len(log) + 1 /\ active' = e
    BY <1>4, <2>1
  <2>3. e # <<>>
    BY <1>2, <2>1
  <2>4. e[Len(log) + 1] = d
    <3>1. CASE log = <<>>
      BY <2>1, <3>1 DEF DurableTip
    <3>2. CASE log # <<>>
      <4>1. Len(log) # 0
        BY <1>2, <3>2, EmptySeq
      <4>0. Len(log) \in Nat
        BY <1>2
      <4>2. Len(log) + 1 \in 2 .. Len(log) + 1
        <5> HIDE DEF a, d, e
        <5> QED BY ONLY <4>0, <4>1
      <4> HIDE DEF e, a
      <4> QED BY <1>2, <1>3, <2>1, <4>2
    <3> QED BY <3>1, <3>2
  <2> HIDE DEF e
  <2> QED BY <2>1, <2>2, <2>3, <2>4 DEF Tip
<1>6. DurableTip' = d
  BY <1>1 DEF DurableTip
<1>7. /\ Known' \subseteq Block
      /\ \A x \in Known' : x # Genesis =>
            \E i \in 2 .. Len(a) : x = a[i]
      /\ \A i \in 2 .. Len(a) : a[i] \in Known'
      /\ chainWork' = [x \in Known' |-> ReplayedWork(x)]
      /\ \A x \in Known' : x # Genesis => x \in Valid /\ Origin(x) = Origin(d)
      /\ grafted' \in BOOLEAN /\ grafted' = ~FromGenesis(d)
      /\ Genesis \in Known'
  BY RestartKnows
<1>8. d \in Known' /\ d \notin Unworkable
  <2>1. CASE d = Genesis
    BY <1>7, <2>1, TreeAssumption
  <2>2. CASE d # Genesis
    <3>1. Len(a) # 1
      <4>1. Len(a) = 1 => log = <<>>
        BY <1>2, EmptySeq
      <4> QED BY <2>2, <4>1 DEF DurableTip
    <3>2. Len(a) \in 2 .. Len(a)
      <4> HIDE DEF a
      <4> QED BY <1>2, <3>1
    <3>3. d \in Known'
      BY <1>3, <1>7, <3>2
    <3> QED BY <1>7, <2>2, <3>3, TreeAssumption
  <2> QED BY <2>1, <2>2
<1>9. \A x \in Known' : /\ ReplayedWork(x) \in Nat
                        /\ x \notin Unworkable
                        /\ ReplayedWork(x) >= BlockWork[x]
                        /\ FromGenesis(x) => ReplayedWork(x) = TotalWork[x]
  <2> SUFFICES ASSUME NEW x \in Known'
               PROVE  /\ ReplayedWork(x) \in Nat
                      /\ x \notin Unworkable
                      /\ ReplayedWork(x) >= BlockWork[x]
                      /\ FromGenesis(x) => ReplayedWork(x) = TotalWork[x]
    OBVIOUS
  <2>1. x \in Block
    BY <1>7
  <2>2. CASE x = Genesis
    BY <2>1, <2>2, ReplayedWorks, TreeAssumption
  <2>3. CASE x # Genesis
    <3>1. x \notin Root /\ x \notin Unworkable
      BY <1>7, <2>3, TreeAssumption
    <3> QED BY <2>1, <3>1, ReplayedWorks
  <2> QED BY <2>2, <2>3
<1>10. ChainTypeOK'
  <2>1. chainWork' \in [Known' -> Nat]
    BY <1>7, <1>9
  <2>2. applied' \in Seq(Block)
    BY <1>4, <1>5
  <2>3. snap' = NoBlock \/ snap' \in Snapshots
    BY <1>1 DEF CoreInv, ChainTypeOK
  <2>4. late' \subseteq Block /\ log' \in Seq(Block) /\ torn' \in BOOLEAN
    BY <1>1, <1>2 DEF CoreInv, ChainTypeOK
  <2> QED BY <1>1, <1>5, <1>7, <2>1, <2>2, <2>3, <2>4 DEF ChainTypeOK
<1>11. SnapshotSound'
  BY <1>1 DEF CoreInv, SnapshotSound, Effects
<1>12. LogIsChain'
  BY <1>1, <1>6 DEF CoreInv, LogIsChain
<1>13. MemoryMatchesDisk'
  <2>1. ~grafted' => active' = a
    BY <1>2, <1>4, <1>7, EffectsOf
  <2> QED BY <1>1, <1>2, <1>4, <1>5, <1>7, <1>8, <2>1 DEF MemoryMatchesDisk, Effects
<1>14. KnownIsPath'
  <2> SUFFICES ASSUME NEW x \in Known', NEW j \in DOMAIN Ancestry[x]
               PROVE  \/ Ancestry[x][j] \in Known'
                      \/ grafted' /\ j = 1 /\ ~FromGenesis(x)
    BY DEF KnownIsPath, FromGenesis, Origin
  <2>1. CASE x = Genesis
    <3>1. Ancestry[x] = <<x>> /\ DOMAIN <<x>> = {1} /\ <<x>>[1] = x
      BY <2>1, RootEnds, TreeAssumption
    <3> QED BY <1>7, <2>1, <3>1
  <2>2. CASE x # Genesis
    <3>1. PICK i \in 2 .. Len(a) : x = a[i]
      BY <1>7, <2>2
    <3>2. i \in 1 .. Len(a) /\ i \in Nat /\ i <= Len(a) /\ Len(a) \in Nat
      BY <1>2
    <3>3. Len(Ancestry[x]) = i /\ \A k \in 1 .. i : Ancestry[x][k] = a[k]
      BY <1>2, <3>1, <3>2, PathOfPath
    <3>4. j \in 1 .. i
      BY <1>7, <3>3, PathDomain
    <3>5. CASE j = 1
      <4>1. Ancestry[x][1] = Origin(x)
        BY DEF Origin
      <4> QED BY <1>7, <2>2, <3>5, <4>1 DEF FromGenesis
    <3>6. CASE j # 1
      <4>1. j \in 2 .. Len(a)
        <5> HIDE DEF a
        <5> QED BY <3>2, <3>4, <3>6
      <4> QED BY <1>7, <3>3, <3>4, <4>1
    <3> QED BY <3>5, <3>6
  <2> QED BY <2>1, <2>2
<1>15. WorkIsExact'
  BY <1>7, <1>9 DEF WorkIsExact, FromGenesis, Origin, Workable
<1>16. PreferredIsAccepted'
  <2> SUFFICES ASSUME NEW x \in Known',
                      PrefersChainTip(ReplayedWork(x), x, ReplayedWork(d), d)
               PROVE  grafted' /\ Accepted(x)'
    BY <1>5, <1>7, <1>8 DEF PreferredIsAccepted
  <2>1. /\ x \in Block /\ ReplayedWork(x) \in Nat /\ ReplayedWork(d) \in Nat
        /\ Len(a) \in Nat
    BY <1>2, <1>7, <1>8, <1>9
  <2>2. x # d
    BY <1>2, <2>1, PreferenceIsStrict
  <2>3. ~(ReplayedWork(x) < ReplayedWork(d))
    BY <2>1 DEF PrefersChainTip
  <2>4. ASSUME x # Genesis
        PROVE  FALSE
    <3>1. PICK i \in 2 .. Len(a) : x = a[i]
      BY <1>7, <2>4
    <3>2. i \in 1 .. Len(a) - 1 /\ i >= 2
      <4>1. i # Len(a)
        BY <1>3, <2>2, <3>1
      <4> HIDE DEF a
      <4> QED BY <2>1, <4>1
    <3> QED BY <1>2, <2>3, <3>1, <3>2, ReplayedOrder
  <2>5. ASSUME x = Genesis, FromGenesis(d)
        PROVE  FALSE
    <3>1. a[1] = Genesis
      BY <2>5 DEF FromGenesis, Origin
    <3>2. 1 \in 1 .. Len(a) - 1
      <4>1. Len(a) # 1
        BY <1>3, <2>2, <2>5, <3>1
      <4>2. Len(a) = Len(log) + 1 /\ Len(log) \in Nat
        BY <1>2
      <4> HIDE DEF a
      <4> QED BY <4>1, <4>2
    <3> QED BY <1>2, <2>3, <2>5, <3>1, <3>2, ReplayedOrder
  <2>6. Accepted(Genesis)'
    <3>1. Len(Ancestry[Genesis]) = 1
      BY RootEnds, TreeAssumption
    <3> QED BY <3>1 DEF Accepted
  <2> QED BY <1>7, <2>4, <2>5, <2>6
<1>17. BestKnown'
  BY <1>16 DEF PreferredIsAccepted, BestKnown
<1> QED BY <1>10, <1>11, <1>12, <1>13, <1>14, <1>15, <1>16, <1>17 DEF CoreInv
------------------------------------------------------------------------------
(* Orphans *)

\* Taking a block's orphans off the stash empties it there and leaves every
\* waiting block under a known parent.
LEMMA TakingOrphans ==
  ASSUME HandlersTypeOK, OrphansFiled, Known' = Known,
         NEW h \in Handler, NEW b \in Block, b \in Known,
         orphans' = [orphans EXCEPT ![b] = <<>>],
         waiting' = [waiting EXCEPT ![h] = orphans[b] \o waiting[h]]
  PROVE  /\ orphans' \in [Block -> Seq(Block)]
         /\ waiting' \in [Handler -> Seq(Block)]
         /\ OrphansFiled'
         /\ \A p \in Block :
               orphans'[p] = IF p = b THEN <<>> ELSE orphans[p]
         /\ \A x : Held(x)' => Held(x)
<1> DEFINE o == orphans[b]
           rest == waiting[h]
           w == o \o rest
<1>1. /\ waiting' = [waiting EXCEPT ![h] = w]
      /\ orphans' = [orphans EXCEPT ![b] = <<>>]
  OBVIOUS
<1>2. /\ orphans \in [Block -> Seq(Block)] /\ waiting \in [Handler -> Seq(Block)]
      /\ o \in Seq(Block) /\ rest \in Seq(Block) /\ <<>> \in Seq(Block)
  BY DEF HandlersTypeOK
<1>3. /\ w \in Seq(Block) /\ Len(w) = Len(o) + Len(rest)
      /\ \A i \in 1 .. Len(o) + Len(rest) :
            w[i] = IF i <= Len(o) THEN o[i] ELSE rest[i - Len(o)]
  BY <1>2, ConcatProperties
<1>4. /\ Len(o) \in Nat /\ Len(rest) \in Nat
      /\ DOMAIN o = 1 .. Len(o) /\ DOMAIN rest = 1 .. Len(rest)
      /\ DOMAIN w = 1 .. Len(w)
  BY <1>2, <1>3, LenProperties
<1>5. /\ \A i \in DOMAIN o : o[i] \notin Root /\ Parent[o[i]] = b
      /\ \A i \in DOMAIN rest : rest[i] \notin Root /\ Parent[rest[i]] \in Known
  BY DEF OrphansFiled
<1>6. /\ \A i \in DOMAIN o : Held(o[i])
      /\ \A i \in DOMAIN rest : Held(rest[i])
  BY DEF Held
<1> HIDE DEF o, w, rest
<1>7. \A i \in DOMAIN w : w[i] \notin Root /\ Parent[w[i]] \in Known /\ Held(w[i])
  <2> SUFFICES ASSUME NEW i \in 1 .. Len(o) + Len(rest)
               PROVE  w[i] \notin Root /\ Parent[w[i]] \in Known /\ Held(w[i])
    BY <1>3, <1>4
  <2>1. CASE i <= Len(o)
    <3>1. i \in DOMAIN o /\ w[i] = o[i]
      BY <1>3, <1>4, <2>1
    <3> QED BY <1>5, <1>6, <3>1
  <2>2. CASE ~(i <= Len(o))
    <3>1. i - Len(o) \in DOMAIN rest /\ w[i] = rest[i - Len(o)]
      BY <1>3, <1>4, <2>2
    <3> QED BY <1>5, <1>6, <3>1
  <2> QED BY <2>1, <2>2
<1>8. /\ orphans' \in [Block -> Seq(Block)]
      /\ waiting' \in [Handler -> Seq(Block)]
      /\ \A p \in Block : orphans'[p] = IF p = b THEN <<>> ELSE orphans[p]
      /\ \A k \in Handler : waiting'[k] = IF k = h THEN w ELSE waiting[k]
  <2>1. /\ orphans' \in [Block -> Seq(Block)]
        /\ \A p \in Block : orphans'[p] = IF p = b THEN <<>> ELSE orphans[p]
    BY <1>1, <1>2
  <2>2. /\ waiting' \in [Handler -> Seq(Block)]
        /\ \A k \in Handler : waiting'[k] = IF k = h THEN w ELSE waiting[k]
    BY <1>1, <1>2, <1>3
  <2> QED BY <2>1, <2>2
<1>9. ASSUME NEW p \in Block, NEW i \in DOMAIN orphans'[p]
      PROVE  /\ orphans'[p][i] \notin Root /\ Parent[orphans'[p][i]] = p
             /\ Held(orphans'[p][i])
  <2>1. DOMAIN <<>> = {}
    OBVIOUS
  <2>2. p # b /\ orphans'[p] = orphans[p]
    BY <1>8, <1>9, <2>1, Zenon
  <2>3. i \in DOMAIN orphans[p] /\ orphans'[p][i] = orphans[p][i]
    BY <1>9, <2>2
  <2>4. orphans[p][i] \notin Root /\ Parent[orphans[p][i]] = p
    BY <2>3, Zenon DEF OrphansFiled
  <2>5. Held(orphans[p][i])
    BY <2>3 DEF Held
  <2> QED BY <2>3, <2>4, <2>5, Zenon
<1>10. ASSUME NEW k \in Handler, NEW i \in DOMAIN waiting'[k]
       PROVE  /\ waiting'[k][i] \notin Root /\ Parent[waiting'[k][i]] \in Known
              /\ Held(waiting'[k][i])
  <2>1. CASE k = h
    BY <1>7, <1>8, <1>10, <2>1
  <2>2. CASE k # h
    <3>1. waiting'[k] = waiting[k]
      BY <1>8, <2>2
    <3>2. waiting[k][i] \notin Root /\ Parent[waiting[k][i]] \in Known
      BY <1>10, <3>1 DEF OrphansFiled
    <3>3. Held(waiting[k][i])
      BY <1>10, <3>1 DEF Held
    <3> QED BY <3>1, <3>2, <3>3
  <2> QED BY <2>1, <2>2
<1>11. OrphansFiled'
  <2>1. \A p \in Block : \A i \in DOMAIN orphans'[p] :
          orphans'[p][i] \notin Root /\ Parent[orphans'[p][i]] = p
    BY <1>9
  <2>2. \A k \in Handler : \A i \in DOMAIN waiting'[k] :
          waiting'[k][i] \notin Root /\ Parent[waiting'[k][i]] \in Known'
    BY <1>10
  <2> QED BY <2>1, <2>2 DEF OrphansFiled
<1>12. \A x : Held(x)' => Held(x)
  <2> SUFFICES ASSUME NEW x, Held(x)' PROVE Held(x)
    OBVIOUS
  <2>1. CASE \E p \in Block : \E i \in DOMAIN orphans'[p] : orphans'[p][i] = x
    <3>1. PICK p \in Block : \E i \in DOMAIN orphans'[p] : orphans'[p][i] = x
      BY <2>1
    <3> QED BY <1>9, <3>1
  <2>2. CASE \E k \in Handler : \E i \in DOMAIN waiting'[k] : waiting'[k][i] = x
    <3>1. PICK k \in Handler : \E i \in DOMAIN waiting'[k] : waiting'[k][i] = x
      BY <2>2
    <3> QED BY <1>10, <3>1
  <2> QED BY <2>1, <2>2 DEF Held
<1> QED BY <1>8, <1>11, <1>12

\* With its orphans taken or still to be taken, or with a node that lacks the
\* first block of its chain, a block strands nobody.
LEMMA NobodyStranded ==
  ASSUME NoStrandedOrphan, up, grafted' = grafted, NEW b \in Block,
         \A p \in Known' : p \in Known \/ p = b,
         \A p \in Known' \ {b} : orphans'[p] = orphans[p],
         \/ grafted
         \/ b \in Unworkable
         \/ orphans'[b] = <<>>
         \/ \E h \in Handler : ingested'[h] = b,
         \A h \in Handler : ingested[h] \in Known' \ {b} =>
                              ingested'[h] = ingested[h]
  PROVE  NoStrandedOrphan'
<1> SUFFICES ASSUME ~grafted, NEW p \in Known' \ Unworkable, orphans'[p] # <<>>
             PROVE  \E h \in Handler : ingested'[h] = p
  BY DEF NoStrandedOrphan
<1>1. CASE p = b
  BY <1>1
<1>2. CASE p # b
  BY <1>2 DEF NoStrandedOrphan
<1> QED BY <1>1, <1>2

\* What waits keeps the work it would be given again.
LEMMA HeldStaysExact ==
  ASSUME CoreInv, HeldIsExact, up, NEW b, Ingestible(b),
         Learn(b) \/ chainWork' = chainWork,
         \A x : Held(x)' => Held(x), Held(b) => b \notin Root
  PROVE  HeldIsExact'
<1> SUFFICES ASSUME NEW x \in Known' \ Unworkable, Held(x)'
             PROVE  Parent[x] \in Known' /\ chainWork'[x] = WorkOf(x)'
  BY DEF HeldIsExact
<1>1. Held(x)
  OBVIOUS
<1>2. CASE chainWork' = chainWork
  BY <1>1, <1>2 DEF HeldIsExact, WorkOf, Known
<1>3. CASE Learn(b)
  <2>1. /\ Known' = Known \cup {b}
        /\ \A y \in Known : chainWork'[y] = chainWork[y]
        /\ chainWork'[b] = IF b \in Unworkable THEN 0 ELSE WorkOf(b)
    BY <1>3, Learned
  <2>2. ASSUME Parent[x] \in Known
        PROVE  WorkOf(x)' = WorkOf(x) /\ Parent[x] \in Known'
    BY <2>1, <2>2 DEF WorkOf
  <2>3. CASE x \in Known
    BY <1>1, <2>1, <2>2, <2>3 DEF HeldIsExact
  <2>4. CASE x = b
    <3>1. Parent[b] \in Known
      BY <1>1, <2>4 DEF Ingestible
    <3> QED BY <2>1, <2>2, <2>4, <3>1
  <2> QED BY <2>1, <2>3, <2>4
<1> QED BY <1>2, <1>3
------------------------------------------------------------------------------
(* The actions *)

\* A step that leaves the chain and the files alone.
LEMMA CoreUntouched ==
  ASSUME CoreInv, UNCHANGED <<up, memory, late, disk, grafted>>
  PROVE  CoreInv' /\ Known' = Known
BY DEF CoreInv, ChainTypeOK, SnapshotSound, LogIsChain, DurableTip, memory, disk,
       MemoryMatchesDisk, Tip, KnownIsPath, WorkIsExact, BestKnown,
       PreferredIsAccepted, Known, Effects, FromGenesis, Origin, Workable, Accepted

LEMMA HeldUntouched ==
  ASSUME HeldIsExact, up' = up, chainWork' = chainWork, \A x : Held(x)' => Held(x)
  PROVE  HeldIsExact'
BY DEF HeldIsExact, WorkOf, Known

\* The chain is as before and so are the handlers.
LEMMA HandlersUntouched ==
  ASSUME HandlersInv, up' = up, grafted' = grafted, chainWork' = chainWork,
         UNCHANGED handlers
  PROVE  HandlersInv'
<1>1. Known' = Known /\ UNCHANGED <<orphans, ingested, waiting>>
  BY DEF Known, handlers
<1>2. \A x : Held(x)' => Held(x)
  BY <1>1 DEF Held
<1>3. HeldIsExact'
  BY <1>2, HeldUntouched DEF HandlersInv
<1> QED BY <1>1, <1>3 DEF HandlersInv, HandlersTypeOK, OrphansFiled, IngestedKnown,
    NoStrandedOrphan, MemoryIsLost

LEMMA StashStep ==
  ASSUME ChainInv, NEW h \in Peer, NEW b \in Block \ {Genesis}, StashOrphan(h, b)
  PROVE  ChainInv'
<1> DEFINE p == Parent[b]
<1>1. /\ b \notin Root /\ p \notin Known /\ b \notin Known /\ up
      /\ orphans' = [orphans EXCEPT ![p] = Append(@, b)]
      /\ UNCHANGED <<up, memory, ingested, waiting, late, disk, grafted>>
  BY DEF StashOrphan, Attached
<1>2. p \in Block /\ chainWork' = chainWork
  BY <1>1, TreeAssumption DEF memory
<1>3. CoreInv' /\ Known' = Known
  BY <1>1, CoreUntouched DEF ChainInv
<1>4. /\ HandlersTypeOK /\ OrphansFiled /\ IngestedKnown /\ NoStrandedOrphan
      /\ HeldIsExact
  BY DEF ChainInv, HandlersInv
<1>5. /\ orphans[p] \in Seq(Block)
      /\ orphans' \in [Block -> Seq(Block)]
      /\ \A q \in Block : orphans'[q] = IF q = p THEN Append(orphans[p], b)
                                                 ELSE orphans[q]
  BY <1>1, <1>2, <1>4, AppendProperties DEF HandlersTypeOK
<1>6. HandlersTypeOK' /\ IngestedKnown'
  BY <1>1, <1>3, <1>4, <1>5 DEF HandlersTypeOK, IngestedKnown
<1>7. /\ \A q \in Block : \A i \in DOMAIN orphans'[q] :
             /\ orphans'[q][i] \notin Root /\ Parent[orphans'[q][i]] = q
             /\ orphans'[q][i] = b \/ \E j \in DOMAIN orphans[q] : orphans[q][j] = orphans'[q][i]
  <2> DEFINE s == orphans[p]
             t == Append(s, b)
  <2>1. /\ Len(s) \in Nat
        /\ DOMAIN s = 1 .. Len(s) /\ DOMAIN t = 1 .. Len(s) + 1
        /\ \A i \in 1 .. Len(s) : t[i] = s[i]
        /\ t[Len(s) + 1] = b
    BY <1>5, AppendProperties, LenProperties
  <2>2. \A i \in DOMAIN s : s[i] \notin Root /\ Parent[s[i]] = p
    BY <1>2, <1>4 DEF OrphansFiled
  <2>3. \A q \in Block : orphans'[q] = IF q = p THEN t ELSE orphans[q]
    BY <1>5
  <2> SUFFICES ASSUME NEW q \in Block, NEW i \in DOMAIN orphans'[q]
               PROVE  /\ orphans'[q][i] \notin Root /\ Parent[orphans'[q][i]] = q
                      /\ orphans'[q][i] = b
                           \/ \E j \in DOMAIN orphans[q] : orphans[q][j] = orphans'[q][i]
    OBVIOUS
  <2>4. CASE q = p
    <3> HIDE DEF t
    <3>1. orphans'[q] = t /\ i \in 1 .. Len(s) + 1
      BY <2>1, <2>3, <2>4
    <3>2. CASE i = Len(s) + 1
      BY <1>1, <2>1, <2>4, <3>1, <3>2
    <3>3. CASE i # Len(s) + 1
      <4>1. i \in DOMAIN s /\ t[i] = s[i]
        <5> HIDE DEF s
        <5> QED BY <2>1, <3>1, <3>3
      <4> QED BY <2>2, <2>4, <3>1, <4>1
    <3> QED BY <3>2, <3>3
  <2>5. CASE q # p
    <3>1. orphans'[q] = orphans[q]
      BY <2>3, <2>5
    <3> QED BY <1>4, <3>1 DEF OrphansFiled
  <2> QED BY <2>4, <2>5
<1>8. OrphansFiled'
  BY <1>1, <1>3, <1>4, <1>7 DEF OrphansFiled
<1>9. HeldIsExact'
  <2>1. \A x : Held(x)' => x = b \/ Held(x)
    BY <1>1, <1>7 DEF Held
  <2> QED BY <1>1, <1>2, <1>3, <1>4, <2>1 DEF HeldIsExact, WorkOf
<1>10. NoStrandedOrphan'
  <2>1. Known \subseteq Block
    BY DEF ChainInv, CoreInv, ChainTypeOK
  <2> QED BY <1>1, <1>2, <1>3, <1>4, <1>5, <2>1 DEF NoStrandedOrphan
<1> QED BY <1>1, <1>3, <1>6, <1>8, <1>9, <1>10 DEF ChainInv, HandlersInv, MemoryIsLost

\* What one call of ingestBlock comes to: the block is known and its orphans are
\* drained next; or nothing changes; or it is known, and the handler is through.
LEMMA IngestOutcomes ==
  ASSUME CoreInv, up, NEW h \in Handler, NEW b, Ingestible(b), NEW rest, Ingest(h, b, rest)
  PROVE  /\ CoreInv'
         /\ UNCHANGED <<up, orphans, late, grafted>>
         /\ \A x \in Known : x \in Known' /\ chainWork'[x] = chainWork[x]
         /\ \/ /\ Learn(b) /\ Known' = Known \cup {b}
               /\ ingested' = [ingested EXCEPT ![h] = b]
               /\ waiting' = [waiting EXCEPT ![h] = rest] /\ ~Throws(b)
            \/ /\ RejectBlock(b) /\ chainWork' = chainWork /\ Known' = Known
               /\ b \notin Known /\ b \notin Unworkable
               /\ ingested' = ingested
               /\ waiting' = [waiting EXCEPT ![h] = rest] /\ ~Throws(b)
            \/ /\ Learn(b) /\ Known' = Known \cup {b}
               /\ ingested' = ingested
               /\ waiting' = [waiting EXCEPT ![h] = <<>>] /\ Throws(b)
               /\ b \notin Unworkable => grafted
<1>1. UNCHANGED <<up, orphans, late, grafted>>
  BY DEF Ingest
<1>2. ASSUME Learn(b)
      PROVE  /\ Known' = Known \cup {b}
             /\ \A x \in Known : x \in Known' /\ chainWork'[x] = chainWork[x]
  BY <1>2, Learned
<1>3. CASE /\ b \notin Unworkable
           /\ ExtendActiveChain(b) \/ ReorgToBlock(b) \/ KeepBranch(b)
           /\ ingested' = [ingested EXCEPT ![h] = b]
           /\ waiting' = [waiting EXCEPT ![h] = rest]
  <2>1. Learn(b) /\ ~Throws(b)
    BY <1>3 DEF ExtendActiveChain, ReorgToBlock, KeepBranch, Throws, CanExtend,
                CanReorg, Outranks
  <2>2. CoreInv'
    BY <1>1, <1>3, ExtendKeepsCore, ReorgKeepsCore, KeepKeepsCore
  <2> QED BY <1>1, <1>2, <1>3, <2>1, <2>2
<1>4. CASE /\ b \notin Unworkable /\ RejectBlock(b) /\ ingested' = ingested
           /\ waiting' = [waiting EXCEPT ![h] = rest]
  <2>1. CoreInv' /\ chainWork' = chainWork /\ b \notin Known
    BY <1>1, <1>4, RejectKeepsCore
  <2>2. ~Throws(b)
    BY <1>4 DEF RejectBlock, Throws
  <2> QED BY <1>1, <1>4, <2>1, <2>2 DEF Known
<1>5. CASE /\ Throw(b) /\ ingested' = ingested
           /\ waiting' = [waiting EXCEPT ![h] = <<>>]
  <2>1. Learn(b) /\ Throws(b)
    BY <1>5 DEF Throw
  <2>2. CoreInv' /\ (b \notin Unworkable => grafted)
    BY <1>1, <1>5, ThrowKeepsCore
  <2> QED BY <1>1, <1>2, <1>5, <2>1, <2>2
<1> QED BY <1>3, <1>4, <1>5 DEF Ingest

\* One call of ingestBlock by an idle handler.  The orphans of a block that is
\* now known keep waiting, but not unattended.
LEMMA IngestKeepsInv ==
  ASSUME ChainInv, up, NEW h \in Handler, NEW b, Ingestible(b),
         ingested[h] = NoBlock, NEW rest \in Seq(Block), Ingest(h, b, rest),
         \A i \in DOMAIN rest :
           \E j \in DOMAIN waiting[h] : waiting[h][j] = rest[i]
  PROVE  ChainInv'
<1>1. /\ CoreInv /\ HandlersInv /\ Known \subseteq Block /\ b \in Block
      /\ DOMAIN <<>> = {} /\ <<>> \in Seq(Block)
  BY DEF ChainInv, CoreInv, ChainTypeOK, Ingestible
<1>2. /\ HandlersTypeOK /\ OrphansFiled /\ IngestedKnown /\ NoStrandedOrphan
      /\ HeldIsExact
  BY <1>1 DEF HandlersInv
<1>3. /\ CoreInv'
      /\ UNCHANGED <<up, orphans, late, grafted>>
      /\ \A x \in Known : x \in Known' /\ chainWork'[x] = chainWork[x]
  BY <1>1, IngestOutcomes
<1>4. /\ \/ /\ Learn(b) /\ Known' = Known \cup {b}
            /\ ingested' = [ingested EXCEPT ![h] = b]
         \/ /\ chainWork' = chainWork /\ Known' = Known /\ ingested' = ingested
         \/ /\ Learn(b) /\ Known' = Known \cup {b} /\ ingested' = ingested
            /\ b \notin Unworkable => grafted
      /\ \/ waiting' = [waiting EXCEPT ![h] = rest]
         \/ waiting' = [waiting EXCEPT ![h] = <<>>]
  BY <1>1, IngestOutcomes
<1>5. PICK w \in Seq(Block) :
         /\ waiting' = [waiting EXCEPT ![h] = w]
         /\ \A i \in DOMAIN w : \E j \in DOMAIN waiting[h] : waiting[h][j] = w[i]
  <2>1. \A i \in DOMAIN <<>> : \E j \in DOMAIN waiting[h] : waiting[h][j] = <<>>[i]
    BY <1>1
  <2> QED BY <1>1, <1>4, <2>1
<1>6. /\ waiting' \in [Handler -> Seq(Block)]
      /\ \A k \in Handler : waiting'[k] = IF k = h THEN w ELSE waiting[k]
  BY <1>2, <1>5 DEF HandlersTypeOK
<1>7. \A k \in Handler : \A i \in DOMAIN waiting'[k] :
        \E j \in DOMAIN waiting[k] : waiting[k][j] = waiting'[k][i]
  BY <1>5, <1>6
<1>8. OrphansFiled'
  <2>1. \A k \in Handler : \A i \in DOMAIN waiting'[k] :
          waiting'[k][i] \notin Root /\ Parent[waiting'[k][i]] \in Known
    BY <1>2, <1>7 DEF OrphansFiled
  <2> QED BY <1>2, <1>3, <2>1 DEF OrphansFiled
<1>9. \A x : Held(x)' => Held(x)
  BY <1>3, <1>7 DEF Held
<1>10. HeldIsExact'
  <2>1. Held(b) => b \notin Root
    BY <1>2 DEF Held, OrphansFiled
  <2> QED BY <1>1, <1>2, <1>4, <1>9, <2>1, HeldStaysExact
<1>11. /\ ingested' \in [Handler -> Block \cup {NoBlock}]
       /\ \A k \in Handler : \/ ingested'[k] = ingested[k]
                             \/ k = h /\ ingested'[k] = b /\ b \in Known'
  BY <1>1, <1>2, <1>4 DEF HandlersTypeOK
<1>12. HandlersTypeOK' /\ IngestedKnown'
  BY <1>2, <1>3, <1>6, <1>11 DEF HandlersTypeOK, IngestedKnown
<1>13. NoStrandedOrphan'
  <2>1. CASE Known' = Known /\ ingested' = ingested
    BY <1>2, <1>3, <2>1 DEF NoStrandedOrphan
  <2>2. CASE /\ Known' = Known \cup {b}
             /\ ingested' = [ingested EXCEPT ![h] = b]
    <3>1. /\ ingested'[h] = b
          /\ \A k \in Handler : ingested[k] \in Known' \ {b} =>
                                  ingested'[k] = ingested[k]
      BY <1>1, <1>2, <2>2, NodeAssumption DEF HandlersTypeOK
    <3> QED BY <1>1, <1>2, <1>3, <2>2, <3>1, NobodyStranded
  <2>3. CASE /\ Known' = Known \cup {b} /\ ingested' = ingested
             /\ b \notin Unworkable => grafted
    BY <1>1, <1>2, <1>3, <2>3, NobodyStranded
  <2> QED BY <1>4, <2>1, <2>2, <2>3
<1> QED BY <1>3, <1>8, <1>10, <1>12, <1>13 DEF ChainInv, HandlersInv, MemoryIsLost

\* The blocks that handlers call ingestBlock with.
LEMMA NewIsIngestible ==
  ASSUME NEW b \in Block \ {Genesis}, b \notin Known, Attached(b)
  PROVE  Ingestible(b)
BY DEF Ingestible, Attached

LEMMA WaitingIsIngestible ==
  ASSUME ChainInv, up, NEW h \in Handler, waiting[h] # <<>>
  PROVE  /\ Ingestible(Head(waiting[h])) /\ Head(waiting[h]) \notin Root
         /\ Tail(waiting[h]) \in Seq(Block)
         /\ \A i \in DOMAIN Tail(waiting[h]) :
              /\ i + 1 \in DOMAIN waiting[h]
              /\ waiting[h][i + 1] = Tail(waiting[h])[i]
         /\ \A i \in DOMAIN waiting[h] :
              \/ waiting[h][i] = Head(waiting[h])
              \/ \E j \in DOMAIN Tail(waiting[h]) : Tail(waiting[h])[j] = waiting[h][i]
         /\ 1 \in DOMAIN waiting[h] /\ waiting[h][1] = Head(waiting[h])
<1> DEFINE w == waiting[h]
           b == Head(w)
           rest == Tail(w)
<1>1. /\ w \in Seq(Block) /\ HeldIsExact
      /\ \A i \in DOMAIN w : w[i] \notin Root /\ Parent[w[i]] \in Known
  BY DEF ChainInv, HandlersInv, HandlersTypeOK, OrphansFiled
<1>2. /\ Len(w) \in Nat \ {0} /\ DOMAIN w = 1 .. Len(w)
      /\ b \in Block /\ b = w[1]
      /\ rest \in Seq(Block) /\ Len(rest) = Len(w) - 1
      /\ \A i \in 1 .. Len(rest) : rest[i] = w[i + 1]
      /\ DOMAIN rest = 1 .. Len(rest)
  BY <1>1, HeadTailProperties, LenProperties, EmptySeq
<1>3. 1 \in DOMAIN w => Held(w[1])
  BY DEF Held
<1> HIDE DEF w, b, rest
<1>4. 1 \in DOMAIN w
  BY <1>2
<1>5. \A i \in DOMAIN rest : i + 1 \in DOMAIN w /\ w[i + 1] = rest[i]
  BY <1>2
<1>6. ASSUME NEW i \in DOMAIN w
      PROVE  w[i] = b \/ \E j \in DOMAIN rest : rest[j] = w[i]
  <2>1. CASE i = 1
    BY <1>2, <2>1
  <2>2. CASE i # 1
    <3>1. i - 1 \in DOMAIN rest /\ i - 1 + 1 = i
      BY <1>2, <1>6, <2>2
    <3>2. rest[i - 1] = w[i]
      BY <1>2, <3>1
    <3> QED BY <3>1, <3>2
  <2> QED BY <2>1, <2>2
<1>7. Ingestible(b) /\ b \notin Root
  <2>1. b \in Block /\ b \notin Root /\ Parent[b] \in Known /\ Held(b)
    BY <1>1, <1>2, <1>3, <1>4
  <2> QED BY <1>1, <2>1, TreeAssumption DEF Ingestible, HeldIsExact
<1> QED BY <1>2, <1>4, <1>5, <1>6, <1>7 DEF w, b, rest

LEMMA HandleStep ==
  ASSUME ChainInv, NEW h \in Peer, NEW b \in Block \ {Genesis}, HandleBlock(h, b)
  PROVE  ChainInv'
<1>1. /\ up /\ h \in Handler /\ Ingestible(b) /\ ingested[h] = NoBlock
      /\ Ingest(h, b, <<>>)
  BY NewIsIngestible DEF HandleBlock, Idle, Handler
<1>2. <<>> \in Seq(Block) /\ DOMAIN <<>> = {}
  OBVIOUS
<1>3. \A i \in DOMAIN <<>> : \E j \in DOMAIN waiting[h] : waiting[h][j] = <<>>[i]
  BY <1>2
<1> QED BY <1>1, <1>2, <1>3, IngestKeepsInv

\* The producer's block names the tip, which is known.
LEMMA SubmitIsIngestible ==
  ASSUME ChainInv, NEW b \in Block \ {Genesis}, SubmitBlock(b)
  PROVE  up /\ Local \in Handler /\ Attached(b) /\ Ingestible(b) /\ Idle(Local) /\ b \notin Known
<1>1. up /\ Parent[b] \in Known /\ b \notin Known /\ Idle(Local)
  BY Running DEF SubmitBlock, ExtendsTip, ChainInv
<1>2. Attached(b)
  BY <1>1 DEF Attached
<1> QED BY <1>1, <1>2, NewIsIngestible DEF Handler

LEMMA SubmitStep ==
  ASSUME ChainInv, NEW b \in Block \ {Genesis}, SubmitBlock(b)
  PROVE  ChainInv'
<1>1. /\ up /\ Local \in Handler /\ Ingestible(b) /\ ingested[Local] = NoBlock
      /\ Ingest(Local, b, <<>>)
  BY SubmitIsIngestible DEF SubmitBlock, Idle
<1>2. <<>> \in Seq(Block) /\ DOMAIN <<>> = {}
  OBVIOUS
<1>3. \A i \in DOMAIN <<>> :
        \E j \in DOMAIN waiting[Local] : waiting[Local][j] = <<>>[i]
  BY <1>2
<1> QED BY <1>1, <1>2, <1>3, IngestKeepsInv

LEMMA TakeOrphansStep ==
  ASSUME ChainInv, NEW h \in Handler, TakeOrphans(h)
  PROVE  ChainInv'
<1> DEFINE b == ingested[h]
<1>1. /\ up /\ b # NoBlock /\ UNCHANGED <<up, memory, late, disk, grafted>>
      /\ ingested' = [ingested EXCEPT ![h] = NoBlock]
  BY DEF TakeOrphans
<1>2. CoreInv /\ HandlersInv /\ Known \subseteq Block
  BY DEF ChainInv, CoreInv, ChainTypeOK
<1>3. /\ HandlersTypeOK /\ OrphansFiled /\ IngestedKnown /\ NoStrandedOrphan
      /\ HeldIsExact
  BY <1>2 DEF HandlersInv
<1>4. CoreInv' /\ Known' = Known /\ chainWork' = chainWork
  BY <1>1, <1>2, CoreUntouched DEF memory
<1>5. b \in Known /\ b \in Block
  BY <1>1, <1>2, <1>3 DEF IngestedKnown
<1>6. /\ waiting' = [waiting EXCEPT ![h] = orphans[b] \o waiting[h]]
      /\ orphans' = [orphans EXCEPT ![b] = <<>>]
  BY <1>3, <1>5 DEF TakeOrphans, HandlersTypeOK
<1>7. /\ ingested' \in [Handler -> Block \cup {NoBlock}]
      /\ \A k \in Handler : ingested'[k] = IF k = h THEN NoBlock ELSE ingested[k]
  BY <1>1, <1>3 DEF HandlersTypeOK
<1>8. \A k \in Handler : ingested[k] \in Known' \ {b} => ingested'[k] = ingested[k]
  BY <1>7
<1> HIDE DEF b
<1>9. /\ orphans' \in [Block -> Seq(Block)]
      /\ waiting' \in [Handler -> Seq(Block)]
      /\ OrphansFiled'
      /\ \A p \in Block : orphans'[p] = IF p = b THEN <<>> ELSE orphans[p]
      /\ \A x : Held(x)' => Held(x)
  BY <1>3, <1>4, <1>5, <1>6, TakingOrphans
<1>10. HandlersTypeOK' /\ IngestedKnown'
  BY <1>1, <1>3, <1>4, <1>7, <1>9 DEF HandlersTypeOK, IngestedKnown
<1>11. HeldIsExact'
  BY <1>1, <1>3, <1>4, <1>9, HeldUntouched
<1>12. NoStrandedOrphan'
  <2>1. orphans'[b] = <<>> /\ \A p \in Known' \ {b} : orphans'[p] = orphans[p]
    BY <1>2, <1>4, <1>5, <1>9
  <2> QED BY <1>1, <1>3, <1>4, <1>5, <1>8, <2>1, NobodyStranded
<1> QED BY <1>1, <1>4, <1>9, <1>10, <1>11, <1>12 DEF ChainInv, HandlersInv, MemoryIsLost

LEMMA DrainNextStep ==
  ASSUME ChainInv, NEW h \in Handler, DrainNext(h)
  PROVE  ChainInv'
<1>1. /\ up /\ ingested[h] = NoBlock /\ waiting[h] # <<>>
      /\ Ingest(h, Head(waiting[h]), Tail(waiting[h]))
  BY DEF DrainNext
<1>2. /\ Ingestible(Head(waiting[h])) /\ Tail(waiting[h]) \in Seq(Block)
      /\ \A i \in DOMAIN Tail(waiting[h]) :
           \E j \in DOMAIN waiting[h] : waiting[h][j] = Tail(waiting[h])[i]
  BY <1>1, WaitingIsIngestible
<1> QED BY <1>1, <1>2, IngestKeepsInv

\* With time, fewer blocks are too early; accepted ones stay acceptable.
LEMMA ClockStep ==
  ASSUME ChainInv, ClockAdvances
  PROVE  ChainInv'
<1>1. /\ late' \subseteq late
      /\ UNCHANGED <<up, chainWork, active, applied, log, torn, snap, grafted>>
      /\ UNCHANGED <<orphans, ingested, waiting>>
  BY DEF ClockAdvances, memory, handlers, disk
<1>2. CoreInv /\ HandlersInv
  BY DEF ChainInv
<1>3. Known' = Known /\ Tip' = Tip /\ DurableTip' = DurableTip
  BY <1>1 DEF Known, Tip, DurableTip
<1>4. ChainTypeOK' /\ SnapshotSound' /\ LogIsChain'
  BY <1>1, <1>2, <1>3 DEF CoreInv, ChainTypeOK, SnapshotSound, LogIsChain, Effects
<1>5. MemoryMatchesDisk' /\ KnownIsPath' /\ WorkIsExact' /\ BestKnown'
  BY <1>1, <1>2, <1>3 DEF CoreInv, MemoryMatchesDisk, KnownIsPath, WorkIsExact,
     BestKnown, Effects, FromGenesis, Origin, Workable
<1>6. PreferredIsAccepted'
  <2>1. \A x : Accepted(x) => Accepted(x)'
    BY <1>1 DEF Accepted
  <2> QED BY <1>1, <1>2, <1>3, <2>1 DEF CoreInv, PreferredIsAccepted
<1>7. HandlersInv'
  BY <1>1, <1>2, HandlersUntouched DEF handlers
<1> QED BY <1>4, <1>5, <1>6, <1>7 DEF ChainInv, CoreInv

\* A process that is gone, or has just started, handles nothing.
LEMMA NothingHandled ==
  ASSUME Known' \subseteq Block, orphans' = NoOrphans,
         ingested' = [h \in Handler |-> NoBlock],
         waiting' = [h \in Handler |-> <<>>]
  PROVE  HandlersInv'
<1>1. <<>> \in Seq(Block) /\ DOMAIN <<>> = {}
  OBVIOUS
<1>2. \A p \in Block : orphans'[p] = <<>>
  BY DEF NoOrphans
<1>3. \A h \in Handler : waiting'[h] = <<>>
  OBVIOUS
<1>4. HandlersTypeOK'
  BY <1>1 DEF HandlersTypeOK, NoOrphans
<1>5. OrphansFiled'
  BY <1>1, <1>2, <1>3 DEF OrphansFiled
<1>6. \A x : ~Held(x)'
  BY <1>1, <1>2, <1>3 DEF Held
<1>7. IngestedKnown' /\ MemoryIsLost'
  BY DEF IngestedKnown, MemoryIsLost, NoOrphans
<1>8. HeldIsExact'
  BY <1>6 DEF HeldIsExact
<1>9. NoStrandedOrphan'
  BY <1>2 DEF NoStrandedOrphan
<1> QED BY <1>4, <1>5, <1>7, <1>8, <1>9 DEF HandlersInv

LEMMA CrashStep ==
  ASSUME ChainInv, LoseMemory, NEW b \in Block,
         log' = Tail(Ancestry[b]), Accepted(b),
         torn' \in BOOLEAN, snap' = snap
  PROVE  ChainInv'
<1>1. CoreInv'
  BY CrashKeepsCore DEF ChainInv
<1>2. Known' \subseteq Block
  BY <1>1 DEF CoreInv, ChainTypeOK
<1>3. HandlersInv'
  BY <1>2, NothingHandled DEF LoseMemory
<1> QED BY <1>1, <1>3 DEF ChainInv

LEMMA CrashSteps ==
  ASSUME ChainInv,
         \/ Crash
         \/ \E b \in Block \ {Genesis} : CrashInAppend(b) \/ CrashInReorg(b)
  PROVE  ChainInv'
<1>1. CoreInv /\ torn \in BOOLEAN
  BY DEF ChainInv, CoreInv, ChainTypeOK
<1>2. /\ DurableTip \in Block /\ log = Tail(Ancestry[DurableTip])
      /\ AcceptedLog(log)
  BY <1>1, DurableChain
<1>3. Accepted(DurableTip)
  BY <1>2, AcceptedChain
<1>4. CASE Crash
  <2>1. LoseMemory /\ log' = log /\ torn' = torn /\ snap' = snap
    BY <1>4 DEF Crash, disk
  <2> QED BY <1>1, <1>2, <1>3, <2>1, CrashStep
<1>5. ASSUME NEW b \in Block \ {Genesis}, CrashInAppend(b)
      PROVE  ChainInv'
  <2>1. LoseMemory /\ snap' = snap /\ torn' \in BOOLEAN /\ up /\ CanExtend(b)
    BY <1>1, <1>5 DEF CrashInAppend
  <2>2. CASE log' = log
    BY <1>2, <1>3, <2>1, <2>2, CrashStep
  <2>3. CASE log' = Append(log, b)
    <3>1. Append(log, b) = Tail(Ancestry[b]) /\ Accepted(b)
      BY <1>1, <2>1, ExtensionAccepted
    <3> QED BY <2>1, <2>3, <3>1, CrashStep
  <2> QED BY <1>5, <2>2, <2>3 DEF CrashInAppend
<1>6. ASSUME NEW b \in Block \ {Genesis}, CrashInReorg(b)
      PROVE  ChainInv'
  <2>1. /\ LoseMemory /\ snap' = snap /\ torn' = torn /\ up /\ CanReorg(b)
        /\ log' = Tail(Ancestry[b])
    BY <1>6 DEF CrashInReorg
  <2>2. Accepted(b)
    BY <1>1, <2>1, BranchAccepted DEF CanReorg, Outranks
  <2> QED BY <1>1, <2>1, <2>2, CrashStep
<1> QED BY <1>4, <1>5, <1>6

LEMMA RestartStep ==
  ASSUME ChainInv, Restart
  PROVE  ChainInv'
<1>1. ~up /\ UNCHANGED <<orphans, ingested, waiting>>
  BY DEF Restart, Replay
<1>2. CoreInv'
  BY RestartKeepsCore DEF ChainInv
<1>3. Known' \subseteq Block
  BY <1>2 DEF CoreInv, ChainTypeOK
<1>4. /\ orphans' = NoOrphans
      /\ ingested' = [h \in Handler |-> NoBlock]
      /\ waiting' = [h \in Handler |-> <<>>]
  BY <1>1 DEF ChainInv, HandlersInv, MemoryIsLost
<1>5. HandlersInv'
  BY <1>3, <1>4, NothingHandled
<1> QED BY <1>2, <1>5 DEF ChainInv
------------------------------------------------------------------------------
(* The theorems *)

LEMMA InitialInv == Init => ChainInv
<1> SUFFICES ASSUME Init
             PROVE  ChainInv
  OBVIOUS
<1>1. /\ up = TRUE /\ active = <<Genesis>> /\ applied = <<Genesis>>
      /\ chainWork = [b \in {Genesis} |-> BlockWork[b]]
      /\ orphans = NoOrphans
      /\ ingested = [h \in Handler |-> NoBlock]
      /\ waiting = [h \in Handler |-> <<>>]
      /\ late = Early /\ log = <<>> /\ torn = FALSE /\ snap = NoBlock
      /\ grafted = FALSE
  BY DEF Init
<1>2. /\ Genesis \in Block /\ Genesis \in Root /\ Genesis \notin Unworkable
      /\ BlockWork[Genesis] \in Nat
      /\ TotalWork[Genesis] = BlockWork[Genesis]
      /\ Early \subseteq Block
  BY TreeAssumption, TotalWorkAssumption, NodeAssumption
<1>3. /\ Ancestry[Genesis] = <<Genesis>> /\ Tail(Ancestry[Genesis]) = <<>>
      /\ Effects(Ancestry[Genesis]) = <<Genesis>>
      /\ Len(Ancestry[Genesis]) = 1 /\ DOMAIN Ancestry[Genesis] = {1}
  <2>1. DOMAIN Ancestry[Genesis] = 1 .. Len(Ancestry[Genesis])
    BY <1>2, PathDomain
  <2>2. 1 .. 1 = {1}
    OBVIOUS
  <2> QED BY <1>2, <2>1, <2>2, RootEnds
<1>4. /\ Known = {Genesis} /\ chainWork[Genesis] = BlockWork[Genesis]
      /\ chainWork \in [Known -> Nat]
  BY <1>1, <1>2 DEF Known
<1>5. Tip = Genesis /\ DurableTip = Genesis
  BY <1>1 DEF Tip, DurableTip
<1>6. /\ <<Genesis>> \in Seq(Block) /\ <<>> \in Seq(Block)
      /\ DOMAIN <<>> = {} /\ <<Genesis>> # <<>>
  BY <1>2
<1>7. ChainTypeOK
  BY <1>1, <1>2, <1>4, <1>6 DEF ChainTypeOK
<1>8. SnapshotSound /\ LogIsChain /\ MemoryMatchesDisk
  BY <1>1, <1>2, <1>3, <1>4, <1>5, <1>6 DEF SnapshotSound, LogIsChain,
     MemoryMatchesDisk
<1>9. KnownIsPath
  BY <1>3, <1>4 DEF KnownIsPath
<1>10. WorkIsExact
  BY <1>2, <1>4 DEF WorkIsExact
<1>11. BestKnown /\ PreferredIsAccepted
  BY <1>2, <1>4, <1>5, PreferenceIsStrict DEF BestKnown, PreferredIsAccepted
<1>12. HandlersInv
  <2>1. /\ \A p \in Block : orphans[p] = <<>>
        /\ \A h \in Handler : waiting[h] = <<>>
        /\ \A h \in Handler : ingested[h] = NoBlock
    BY <1>1 DEF NoOrphans
  <2>2. HandlersTypeOK
    BY <1>1, <1>6 DEF HandlersTypeOK, NoOrphans
  <2>3. OrphansFiled /\ IngestedKnown /\ MemoryIsLost
    BY <1>1, <1>6, <2>1 DEF OrphansFiled, IngestedKnown, MemoryIsLost
  <2>4. HeldIsExact
    BY <1>6, <2>1 DEF HeldIsExact, Held
  <2>5. NoStrandedOrphan
    BY <1>2, <1>4, <2>1 DEF NoStrandedOrphan
  <2> QED BY <2>2, <2>3, <2>4, <2>5 DEF HandlersInv
<1> QED BY <1>7, <1>8, <1>9, <1>10, <1>11, <1>12 DEF ChainInv, CoreInv

LEMMA StepInv == ChainInv /\ [Next]_vars => ChainInv'
<1> SUFFICES ASSUME ChainInv, [Next]_vars
             PROVE  ChainInv'
  OBVIOUS
<1>1. ASSUME NEW h \in Peer, NEW b \in Block \ {Genesis}, StashOrphan(h, b)
      PROVE  ChainInv'
  BY <1>1, StashStep
<1>2. ASSUME NEW h \in Peer, NEW b \in Block \ {Genesis}, HandleBlock(h, b)
      PROVE  ChainInv'
  BY <1>2, HandleStep
<1>3. ASSUME NEW b \in Block \ {Genesis}, SubmitBlock(b)
      PROVE  ChainInv'
  BY <1>3, SubmitStep
<1>4. ASSUME NEW h \in Handler, TakeOrphans(h)
      PROVE  ChainInv'
  BY <1>4, TakeOrphansStep
<1>5. ASSUME NEW h \in Handler, DrainNext(h)
      PROVE  ChainInv'
  BY <1>5, DrainNextStep
<1>6. CASE ClockAdvances
  BY <1>6, ClockStep
<1>7. CASE \/ Crash
           \/ \E b \in Block \ {Genesis} : CrashInAppend(b) \/ CrashInReorg(b)
  BY <1>7, CrashSteps
<1>8. CASE Restart
  BY <1>8, RestartStep
<1>9. CASE UNCHANGED vars
  <2>1. /\ UNCHANGED <<up, memory, late, disk, grafted>> /\ UNCHANGED handlers
        /\ up' = up /\ grafted' = grafted /\ chainWork' = chainWork
    BY <1>9 DEF vars, memory, disk, handlers
  <2> QED BY <2>1, CoreUntouched, HandlersUntouched DEF ChainInv
<1> QED BY <1>1, <1>2, <1>3, <1>4, <1>5, <1>6, <1>7, <1>8, <1>9 DEF Next

\* The inductive invariant holds in every reachable state.
THEOREM InvariantHolds == Spec => []ChainInv
BY InitialInv, StepInv, PTL DEF Spec

\* Every variable keeps its type.
THEOREM TypesHold == Spec => []TypeOK
<1>1. ChainInv => TypeOK
  BY DEF ChainInv, CoreInv, HandlersInv, TypeOK
<1> QED BY InvariantHolds, <1>1, PTL

\* No known block ranks above the tip, however blocks arrived, unless the node
\* started above a first block that its files lack.
THEOREM TipIsBestKnown == Spec => []BestKnown
<1>1. ChainInv => BestKnown
  BY DEF ChainInv, CoreInv
<1> QED BY InvariantHolds, <1>1, PTL

\* The UTXO set and epoch state hold the effects of the compiled genesis and of
\* the active chain above its first block.
THEOREM StateFollowsChain == Spec => []StateIsReplay
<1>1. ChainInv => StateIsReplay
  <2> SUFFICES ASSUME ChainInv, up
               PROVE  applied = Effects(active)
    BY DEF StateIsReplay
  <2>1. /\ Tip \in Block /\ applied = Effects(Ancestry[Tip])
        /\ active = Ancestry[Tip] \/ active = Effects(Ancestry[Tip])
    BY Running DEF ChainInv
  <2> QED BY <2>1, EffectsOf
<1> QED BY InvariantHolds, <1>1, PTL

\* The active chain is complete, and valid from just above its first block, which
\* is one of height 0, to the tip.
THEOREM ChainIsValid == Spec => []ActiveChainValid
<1>1. ChainInv => ActiveChainValid
  <2> SUFFICES ASSUME ChainInv, up
               PROVE  /\ Tail(active) = Tail(Ancestry[Tip])
                      /\ active[1] = Origin(Tip) \/ (grafted /\ active[1] = Genesis)
                      /\ \A i \in 2 .. Len(active) : active[i] \in Valid \ late
    BY DEF ActiveChainValid
  <2>1. /\ Tip \in Block /\ Accepted(Tip)
        /\ active = Ancestry[Tip] \/ (grafted /\ active = Effects(Ancestry[Tip]))
        /\ Len(active) = Len(Ancestry[Tip])
        /\ \A i \in 2 .. Len(active) : active[i] = Ancestry[Tip][i]
    BY Running DEF ChainInv
  <2>2. /\ Tail(Effects(Ancestry[Tip])) = Tail(Ancestry[Tip])
        /\ Effects(Ancestry[Tip])[1] = Genesis
    BY <2>1, EffectsOf
  <2>3. \A i \in 2 .. Len(active) : active[i] \in Valid \ late
    BY <2>1 DEF Accepted
  <2> QED BY <2>1, <2>2, <2>3 DEF Origin
<1> QED BY InvariantHolds, <1>1, PTL

\* However a write is interrupted, the files of a chain on genesis load.
THEOREM FilesLoad == Spec => []RestartAccepted
<1>1. ChainInv => RestartAccepted
  BY ReplaySucceeds DEF ChainInv, RestartAccepted
<1> QED BY InvariantHolds, <1>1, PTL

\* No call of ingestBlock, in whatever order handlers make them, takes away a
\* block that was known before it.
THEOREM KnownStaysKnown == Spec => KnownStays
<1>1. ChainInv /\ [Next]_vars => [up /\ up' => Known \subseteq Known']_vars
  <2> SUFFICES ASSUME ChainInv, [Next]_vars, up, up'
               PROVE  Known \subseteq Known'
    OBVIOUS
  <2>1. ASSUME NEW h \in Handler, NEW b, NEW rest, Ingestible(b), Ingest(h, b, rest)
        PROVE  Known \subseteq Known'
    BY <2>1, IngestOutcomes DEF ChainInv
  <2>2. ASSUME NEW h \in Peer, NEW b \in Block \ {Genesis}, HandleBlock(h, b)
        PROVE  Known \subseteq Known'
    <3>1. h \in Handler /\ Ingestible(b) /\ Ingest(h, b, <<>>)
      BY <2>2, NewIsIngestible DEF HandleBlock, Handler
    <3> QED BY <2>1, <3>1
  <2>3. ASSUME NEW b \in Block \ {Genesis}, SubmitBlock(b)
        PROVE  Known \subseteq Known'
    <3>1. Local \in Handler /\ Ingestible(b) /\ Ingest(Local, b, <<>>)
      BY <2>3, SubmitIsIngestible DEF SubmitBlock
    <3> QED BY <2>1, <3>1
  <2>4. ASSUME NEW h \in Handler, DrainNext(h)
        PROVE  Known \subseteq Known'
    <3>1. /\ Ingestible(Head(waiting[h]))
          /\ Ingest(h, Head(waiting[h]), Tail(waiting[h]))
      BY <2>4, WaitingIsIngestible DEF DrainNext
    <3> QED BY <2>1, <3>1
  <2>5. CASE chainWork' = chainWork
    BY <2>5 DEF Known
  <2>6. ASSUME \/ \E h \in Peer, b \in Block \ {Genesis} : StashOrphan(h, b)
               \/ \E h \in Handler : TakeOrphans(h)
               \/ ClockAdvances \/ UNCHANGED vars
        PROVE  chainWork' = chainWork
    BY <2>6 DEF StashOrphan, TakeOrphans, ClockAdvances, memory, vars
  <2>7. ~Crash /\ ~Restart
    BY DEF Crash, LoseMemory, Restart
  <2>8. ~ \E b \in Block \ {Genesis} : CrashInAppend(b) \/ CrashInReorg(b)
    BY DEF CrashInAppend, CrashInReorg, LoseMemory
  <2> QED BY <2>2, <2>3, <2>4, <2>5, <2>6, <2>7, <2>8 DEF Next
<1> QED BY InvariantHolds, <1>1, PTL DEF Spec, KnownStays

\* A preferred and accepted branch is one that the fork choice may switch to, and
\* a foreign block of height 0 takes it back to genesis.
LEMMA AcceptedIsSwitch ==
  ASSUME CoreInv, up, NEW b \in Block \ {Genesis}, b \notin Root => Parent[b] \in Known,
         PrefersChainTip(WorkOf(b), b, chainWork[Tip], Tip), Accepted(b),
         log' = Tail(Ancestry[b])
  PROVE  Chosen!Next
<1>1. /\ b \in Block \ {Genesis} /\ (b \notin Root => Parent[b] \in Known)
      /\ Tip \in Known /\ Tip \in Block /\ Genesis \in Block
      /\ DurableTip = IF Tip \in Root THEN Genesis ELSE Tip
      /\ Accepted(Tip)
  BY Running, TreeAssumption
<1>2. DurableTip' = IF b \in Root THEN Genesis ELSE b
  BY <1>1, LogEnds DEF DurableTip, LogTip
<1>3. ASSUME NEW x \in Known, x \in Block, Accepted(x), FromGenesis(x)
      PROVE  chainWork[x] = TotalWork[x]
  <2>1. Workable(x)
    BY <1>3, AcceptedIsWorkable DEF Accepted
  <2> QED BY <1>3, <2>1 DEF CoreInv, WorkIsExact
<1>4. CASE b \in Root
  <2>1. Chosen!Reset
    BY <1>1, <1>2, <1>4 DEF Chosen!Reset
  <2> QED BY <2>1 DEF Chosen!Next
<1>5. CASE b \notin Root
  <2>1. Chosen!ValidChain(b)
    BY DEF Chosen!ValidChain, Accepted
  <2>2. ASSUME FromGenesis(b), FromGenesis(DurableTip)
        PROVE  PrefersChainTip(TotalWork[b], b, TotalWork[DurableTip], DurableTip)
    <3>1. WorkOf(b) = TotalWork[b]
      <4>1. Workable(Parent[b])
        BY <1>1, <1>5, <2>2, AcceptedIsWorkable, WorkableParent DEF Accepted
      <4>2. FromGenesis(Parent[b]) /\ Parent[b] \in Known
        BY <1>1, <1>5, <2>2, AncestryExtends DEF FromGenesis
      <4>3. chainWork[Parent[b]] = TotalWork[Parent[b]]
        BY <4>1, <4>2 DEF CoreInv, WorkIsExact
      <4>4. TotalWork[b] = TotalWork[Parent[b]] + BlockWork[b]
        BY <1>1, <1>5, TotalWorkAssumption
      <4>5. /\ TotalWork[Parent[b]] \in Nat /\ BlockWork[b] \in Nat
        BY <1>1, <1>5, AncestryExtends, TotalWorkAssumption, TreeAssumption
      <4> QED BY <4>2, <4>3, <4>4, <4>5 DEF WorkOf
    <3>2. CASE Tip \in Root /\ Tip # Genesis
      <4>1. Ancestry[b][1] = Genesis /\ 1 \in 1 .. Len(Ancestry[b]) - 1
        <5>1. /\ Ancestry[b][1] = Genesis /\ Len(Ancestry[b]) \in Nat \ {0}
              /\ Ancestry[b][Len(Ancestry[b])] = b
          BY <1>1, <2>2, AncestryEnds DEF FromGenesis, Origin
        <5>2. Len(Ancestry[b]) # 1
          BY <1>1, <5>1
        <5> DEFINE n == Len(Ancestry[b])
        <5>3. n \in Nat \ {0} /\ n # 1
          BY <5>1, <5>2
        <5> HIDE DEF n
        <5>4. 1 \in 1 .. n - 1
          BY ONLY <5>3
        <5> QED BY <5>1, <5>4 DEF n
      <4>2. TotalWork[Genesis] < TotalWork[b]
        BY <1>1, <4>1, TotalWorkAssumption
      <4>3. DurableTip = Genesis
        BY <1>1, <3>2
      <4>4. TotalWork[Genesis] \in Nat /\ TotalWork[b] \in Nat
        BY <1>1, TotalWorkAssumption
      <4> QED BY <4>2, <4>3, <4>4 DEF PrefersChainTip
    <3>3. CASE ~(Tip \in Root /\ Tip # Genesis)
      <4>1. DurableTip = Tip /\ chainWork[Tip] = TotalWork[Tip]
        BY <1>1, <1>3, <2>2, <3>3
      <4> QED BY <3>1, <4>1
    <3> QED BY <3>2, <3>3
  <2>3. Chosen!Switch(b)
    BY <1>2, <1>5, <2>1, <2>2
       DEF Chosen!Switch, Chosen!PrefersChainTip, PrefersChainTip,
           Chosen!FromGenesis, Chosen!Origin, FromGenesis, Origin
  <2> QED BY <1>1, <1>5, <2>3 DEF Chosen!Next
<1> QED BY <1>4, <1>5

LEMMA ExtensionSwitches ==
  ASSUME CoreInv, up, NEW b, CanExtend(b), log' = Append(log, b)
  PROVE  Chosen!Next
<1>1. /\ b \in Block \ (Root \cup Unworkable \cup {Genesis})
      /\ Parent[b] = Tip /\ Accepted(b)
      /\ Append(log, b) = Tail(Ancestry[b])
  BY ExtensionAccepted
<1>2. PrefersChainTip(WorkOf(b), b, chainWork[Tip], Tip)
  BY <1>1, ExtensionPreferred
<1> QED BY <1>1, <1>2, Running, AcceptedIsSwitch

\* Ingesting a block changes the durable tip only by extending or reorganizing.
LEMMA IngestionSwitches ==
  ASSUME CoreInv, up, NEW h, NEW b, Ingestible(b), NEW rest, Ingest(h, b, rest)
  PROVE  Chosen!Next \/ DurableTip' = DurableTip
<1>1. CASE ExtendActiveChain(b)
  <2>1. CanExtend(b) /\ log' = Append(log, b)
    BY <1>1 DEF ExtendActiveChain
  <2> QED BY <2>1, ExtensionSwitches
<1>2. CASE ReorgToBlock(b)
  <2>1. CanReorg(b) /\ log' = Tail(Ancestry[b]) /\ b \in Block
    BY <1>2 DEF ReorgToBlock, Ingestible
  <2>2. /\ PrefersChainTip(WorkOf(b), b, chainWork[Tip], Tip)
        /\ Accepted(b)
    BY <2>1, BranchAccepted DEF CanReorg, Outranks, Preferred
  <2> QED BY <2>1, <2>2, AcceptedIsSwitch DEF Ingestible
<1>3. CASE KeepBranch(b) \/ RejectBlock(b) \/ Throw(b)
  BY <1>3 DEF KeepBranch, RejectBlock, Throw, DurableTip
<1> QED BY <1>1, <1>2, <1>3 DEF Ingest

\* The durable tip starts at genesis and every step either leaves it alone or
\* switches it as the fork choice allows: no crash, torn record, snapshot or
\* restart can move it otherwise.
THEOREM Refinement == Spec => ImplementsForkChoice
<1>1. Init => Chosen!Init
  BY DEF Init, Chosen!Init, DurableTip
<1>2. ChainInv /\ [Next]_vars => [Chosen!Next]_DurableTip
  <2> SUFFICES ASSUME ChainInv, [Next]_vars
               PROVE  Chosen!Next \/ DurableTip' = DurableTip
    OBVIOUS
  <2>1. CoreInv
    BY DEF ChainInv
  <2>2. ASSUME NEW h \in Peer, NEW b \in Block \ {Genesis}, HandleBlock(h, b)
        PROVE  Chosen!Next \/ DurableTip' = DurableTip
    <3>1. up /\ Ingestible(b) /\ Ingest(h, b, <<>>)
      BY <2>2, NewIsIngestible DEF HandleBlock
    <3> QED BY <2>1, <3>1, IngestionSwitches
  <2>3. ASSUME NEW b \in Block \ {Genesis}, SubmitBlock(b)
        PROVE  Chosen!Next \/ DurableTip' = DurableTip
    <3>1. up /\ Ingestible(b) /\ Ingest(Local, b, <<>>)
      BY <2>3, SubmitIsIngestible DEF SubmitBlock
    <3> QED BY <2>1, <3>1, IngestionSwitches
  <2>4. ASSUME NEW h \in Handler, DrainNext(h)
        PROVE  Chosen!Next \/ DurableTip' = DurableTip
    <3>1. /\ up /\ Ingestible(Head(waiting[h]))
          /\ Ingest(h, Head(waiting[h]), Tail(waiting[h]))
      BY <2>4, WaitingIsIngestible DEF DrainNext
    <3> QED BY <2>1, <3>1, IngestionSwitches
  <2>5. ASSUME NEW b \in Block \ {Genesis}, CrashInAppend(b)
        PROVE  Chosen!Next \/ DurableTip' = DurableTip
    <3>1. CASE log' = log
      BY <3>1 DEF DurableTip
    <3>2. CASE log' = Append(log, b)
      BY <2>1, <2>5, <3>2, ExtensionSwitches DEF CrashInAppend
    <3> QED BY <2>5, <3>1, <3>2 DEF CrashInAppend
  <2>6. ASSUME NEW b \in Block \ {Genesis}, CrashInReorg(b)
        PROVE  Chosen!Next \/ DurableTip' = DurableTip
    <3>1. /\ up /\ log' = Tail(Ancestry[b]) /\ BranchVerifies(Ancestry[b])
          /\ PrefersChainTip(WorkOf(b), b, chainWork[Tip], Tip)
      BY <2>6 DEF CrashInReorg, CanReorg, Outranks, Preferred
    <3>2. b \notin Root => Parent[b] \in Known
      <4>1. CASE \E h \in Handler : waiting[h] # <<>> /\ Head(waiting[h]) = b
        BY <3>1, <4>1, WaitingIsIngestible DEF Ingestible
      <4> QED BY <2>6, <4>1 DEF CrashInReorg, Ingesting, Attached
    <3>3. Accepted(b)
      BY <2>1, <3>1, BranchAccepted
    <3> QED BY <2>1, <3>1, <3>2, <3>3, AcceptedIsSwitch
  <2>7. CASE \/ \E h \in Peer, b \in Block \ {Genesis} : StashOrphan(h, b)
             \/ \E h \in Handler : TakeOrphans(h)
             \/ ClockAdvances \/ Crash \/ Restart
             \/ UNCHANGED vars
    <3>1. log' = log
      BY <2>7 DEF StashOrphan, TakeOrphans, ClockAdvances, Crash, Restart,
         Replay, vars, disk
    <3> QED BY <3>1 DEF DurableTip
  <2> QED BY <2>2, <2>3, <2>4, <2>5, <2>6, <2>7 DEF Next
<1> QED BY <1>1, <1>2, InvariantHolds, PTL DEF Spec, ImplementsForkChoice, Chosen!Spec
------------------------------------------------------------------------------
(* What was delivered *)

\* A chain that passes whenever it is ingested has only such chains below it.
LEMMA FollowablePath ==
  ASSUME NEW b \in Block, Followable(b), NEW i \in 1 .. Len(Ancestry[b])
  PROVE  Followable(Ancestry[b][i])
<1>1. /\ Len(Ancestry[Ancestry[b][i]]) = i
      /\ \A k \in 1 .. i : Ancestry[Ancestry[b][i]][k] = Ancestry[b][k]
      /\ Len(Ancestry[b]) \in Nat
  BY PathOfPath, AncestryEnds
<1> QED BY <1>1 DEF Followable

\* A followable block with a known parent is never rejected.
LEMMA FollowableIsKept ==
  ASSUME CoreInv, up, late \subseteq Early, NEW b \in Block \ Root, Followable(b)
  PROVE  ~RejectBlock(b)
<1>1. Accepted(b)
  BY DEF Accepted, Followable
<1>2. BranchVerifies(Ancestry[b])
  BY <1>1, BranchAccepted
<1>3. b \in Valid \ late
  <2>1. /\ Len(Ancestry[b]) = Len(Ancestry[Parent[b]]) + 1
        /\ Len(Ancestry[Parent[b]]) \in Nat \ {0}
        /\ Ancestry[b][Len(Ancestry[b])] = b
    BY AncestryEnds, AncestryExtends
  <2>2. Len(Ancestry[b]) \in 2 .. Len(Ancestry[b])
    BY <2>1
  <2> QED BY <1>1, <2>1, <2>2 DEF Accepted
<1>4. ExtendsTip(b) => CanExtend(b)
  BY <1>3, Running DEF CanExtend, ExtendsTip, Verify
<1> QED BY <1>2, <1>4 DEF RejectBlock, Outranks

\* One call of ingestBlock, for a block that is delivered now or was before: the
\* history loses exactly what the node drops.
LEMMA IngestKeepsHistory ==
  ASSUME ArrivalInv, ChainInv', up, NEW h \in Handler, NEW b, Ingestible(b),
         NEW rest, Ingest(h, b, rest),
         NEW w \in Seq(Block), waiting' = [waiting EXCEPT ![h] = w],
         \A i \in DOMAIN w : \E j \in DOMAIN waiting[h] : waiting[h][j] = w[i],
         \A x \in delivered' :
           x \in delivered \/ (x = b /\ (b \notin Root \/ b \in Known')),
         \A x \in delivered \ delivered' : ~Retained(x)',
         b \in Known' => b \in delivered',
         \A x : \A i \in DOMAIN waiting[h] : waiting[h][i] = x =>
           (x = b /\ b \notin Root) \/ x \notin delivered' \/ Retained(x)'
  PROVE  ArrivalInv'
<1>1. /\ CoreInv /\ late \subseteq Early /\ HeldWasDelivered /\ NothingIsLost
      /\ OrphansFiled
      /\ waiting \in [Handler -> Seq(Block)] /\ b \in Block
  BY DEF ArrivalInv, ChainInv, HandlersInv, HandlersTypeOK, Ingestible
<1>2. /\ up' = up /\ orphans' = orphans /\ late' = late
      /\ \A x \in Known : x \in Known'
      /\ \A x \in Known' : x \in Known \/ x = b
      /\ b \in Known' \/ RejectBlock(b)
  <2>1. /\ UNCHANGED <<up, orphans, late, grafted>>
        /\ \A x \in Known : x \in Known' /\ chainWork'[x] = chainWork[x]
    BY <1>1, IngestOutcomes
  <2>2. Known' = Known \cup {b} \/ (RejectBlock(b) /\ Known' = Known)
    BY <1>1, IngestOutcomes
  <2> QED BY <2>1, <2>2
<1>3. \A k \in Handler : waiting'[k] = IF k = h THEN w ELSE waiting[k]
  BY <1>1
<1>4. \A x : IsStashed(x)' <=> IsStashed(x)
  BY <1>2 DEF IsStashed
<1>5. HeldWasDelivered'
  <2>1. delivered' \subseteq Block
    BY <1>1 DEF HeldWasDelivered
  <2>2. ASSUME NEW x \in Known'
        PROVE  x \in delivered'
    <3>1. CASE x = b
      BY <2>2, <3>1
    <3>2. CASE x # b
      <4>1. x \in delivered
        BY <1>1, <1>2, <2>2, <3>2 DEF HeldWasDelivered
      <4> QED BY <2>2, <4>1 DEF Retained
    <3> QED BY <3>1, <3>2
  <2>3. ASSUME NEW p \in Block, NEW i \in DOMAIN orphans'[p]
        PROVE  orphans'[p][i] \in delivered'
    <3> DEFINE x == orphans[p][i]
    <3>1. /\ orphans'[p][i] = x /\ i \in DOMAIN orphans[p] /\ x \in delivered
          /\ x \notin Root /\ Parent[x] = p
      BY <1>1, <1>2, <2>3 DEF HeldWasDelivered, OrphansFiled
    <3>2. Retained(x)'
      BY <1>2, <1>4, <3>1 DEF Retained, Stashed, IsStashed
    <3> QED BY <3>1, <3>2
  <2>4. ASSUME NEW x, NEW k \in Handler, \E i \in DOMAIN waiting'[k] : waiting'[k][i] = x
        PROVE  x \in delivered'
    <3>1. Retained(x)'
      BY <2>4 DEF Retained, Waits
    <3>2. \E j \in DOMAIN waiting[k] : waiting[k][j] = x
      <4>1. CASE k = h
        BY <1>3, <2>4, <4>1
      <4>2. CASE k # h
        BY <1>3, <2>4, <4>2
      <4> QED BY <4>1, <4>2
    <3>3. x \in delivered
      BY <1>1, <3>2 DEF HeldWasDelivered
    <3> QED BY <3>1, <3>3
  <2> QED BY <2>1, <2>2, <2>3, <2>4 DEF HeldWasDelivered
<1>6. ASSUME NEW x \in delivered', Followable(x)
      PROVE  Retained(x)'
  <2>1. CASE x = b /\ b \notin Root
    <3>1. b \in Known'
      BY <1>1, <1>2, <1>6, <2>1, FollowableIsKept
    <3> QED BY <2>1, <3>1 DEF Retained
  <2>2. CASE ~(x = b /\ b \notin Root) /\ x \in delivered
    <3>1. x \in Known \/ Waits(x) \/ Stashed(x)
      BY <1>1, <1>6, <2>2 DEF NothingIsLost, Retained
    <3>2. CASE x \in Known
      BY <1>2, <3>2 DEF Retained
    <3>3. CASE Waits(x)
      <4>1. PICK k \in Handler : \E i \in DOMAIN waiting[k] : waiting[k][i] = x
        BY <3>3 DEF Waits
      <4>2. PICK i \in DOMAIN waiting[k] : waiting[k][i] = x
        BY <4>1
      <4>3. CASE k = h
        BY <1>6, <2>2, <4>2, <4>3
      <4>4. CASE k # h
        <5>1. waiting'[k] = waiting[k]
          BY <1>3, <4>4
        <5> QED BY <4>2, <5>1 DEF Waits, Retained
      <4> QED BY <4>3, <4>4
    <3>4. CASE Stashed(x)
      BY <1>4, <3>4 DEF Stashed, Retained
    <3> QED BY <3>1, <3>2, <3>3, <3>4
  <2>3. CASE ~(x = b /\ b \notin Root) /\ x \notin delivered
    <3>1. x = b /\ b \in Known'
      BY <1>6, <2>3
    <3> QED BY <3>1 DEF Retained
  <2> QED BY <2>1, <2>2, <2>3
<1>7. NothingIsLost'
  BY <1>6 DEF NothingIsLost, Followable
<1> QED BY <1>1, <1>2, <1>5, <1>7 DEF ArrivalInv

\* An orphan that is stashed stays, and so does what was there.
LEMMA StashKeepsHistory ==
  ASSUME ArrivalInv, NEW h \in Peer, NEW b \in Block \ {Genesis}, StashOrphan(h, b),
         delivered' = delivered \cup {b}, ChainInv'
  PROVE  ArrivalInv'
<1> DEFINE p == Parent[b]
           s == orphans[p]
           t == Append(s, b)
<1>1. /\ ChainInv /\ late \subseteq Early /\ HeldWasDelivered /\ NothingIsLost
      /\ orphans \in [Block -> Seq(Block)]
  BY DEF ArrivalInv, ChainInv, HandlersInv, HandlersTypeOK
<1>2. /\ p \in Block /\ up /\ b \notin Root
      /\ orphans' = [orphans EXCEPT ![p] = t]
      /\ up' = up /\ waiting' = waiting /\ late' = late /\ Known' = Known
  BY TreeAssumption DEF StashOrphan, Attached, memory, Known
<1>3. s \in Seq(Block) /\ Len(s) \in Nat /\ DOMAIN s = 1 .. Len(s)
  BY <1>1, <1>2, LenProperties
<1> HIDE DEF p, s
<1>4. /\ DOMAIN t = 1 .. Len(s) + 1
      /\ \A i \in 1 .. Len(s) : t[i] = s[i]
      /\ t[Len(s) + 1] = b
  BY <1>3, AppendProperties, LenProperties
<1> HIDE DEF t
<1>5. \A q \in Block : orphans'[q] = IF q = p THEN t ELSE orphans[q]
  BY <1>1, <1>2
<1>6. HeldWasDelivered'
  <2>1. ASSUME NEW q \in Block, NEW i \in DOMAIN orphans'[q]
        PROVE  orphans'[q][i] \in delivered'
    <3>1. CASE q = p
      <4>1. \A j \in DOMAIN s : s[j] \in delivered
        BY <1>1, <1>2 DEF HeldWasDelivered, s
      <4>2. orphans'[q] = t
        BY <1>5, <3>1
      <4>3. i = Len(s) + 1 \/ i \in 1 .. Len(s)
        BY <1>3, <1>4, <2>1, <4>2
      <4> QED BY <1>3, <1>4, <4>1, <4>2, <4>3
    <3>2. CASE q # p
      <4>1. orphans'[q] = orphans[q]
        BY <1>5, <3>2
      <4> QED BY <1>1, <2>1, <4>1 DEF HeldWasDelivered
    <3> QED BY <3>1, <3>2
  <2> QED BY <1>1, <1>2, <2>1 DEF HeldWasDelivered
<1>7. ASSUME NEW x \in delivered', Followable(x)
      PROVE  Retained(x)'
  <2>1. CASE x = b
    <3>1. orphans'[p] = t /\ Len(s) + 1 \in DOMAIN t
      BY <1>2, <1>3, <1>4, <1>5
    <3>2. IsStashed(b)'
      BY <1>4, <3>1 DEF IsStashed, p
    <3> QED BY <1>2, <2>1, <3>2 DEF Retained, Stashed
  <2>2. CASE x # b
    <3>1. x \in Known \/ Waits(x) \/ Stashed(x)
      BY <1>1, <1>2, <1>7, <2>2 DEF NothingIsLost, Retained
    <3>2. ASSUME Stashed(x)
          PROVE  Stashed(x)'
      <4>1. PICK i \in DOMAIN orphans[Parent[x]] : orphans[Parent[x]][i] = x
        BY <3>2 DEF Stashed, IsStashed
      <4>2. x \notin Root /\ Parent[x] \in Block
        BY <1>1, <1>2, <1>7, <2>2, <3>2, TreeAssumption DEF Stashed, HeldWasDelivered
      <4>3. CASE Parent[x] = p
        <5>1. orphans'[Parent[x]] = t /\ i \in DOMAIN s /\ s[i] = x
          BY <1>5, <4>1, <4>2, <4>3 DEF s
        <5>2. i \in DOMAIN t /\ t[i] = x
          BY <1>3, <1>4, <5>1
        <5> QED BY <4>2, <5>1, <5>2 DEF Stashed, IsStashed
      <4>4. CASE Parent[x] # p
        BY <1>5, <4>1, <4>2, <4>4 DEF Stashed, IsStashed
      <4> QED BY <4>3, <4>4
    <3> QED BY <1>2, <3>1, <3>2 DEF Retained, Waits
  <2> QED BY <2>1, <2>2
<1>8. NothingIsLost'
  BY <1>7 DEF NothingIsLost, Followable
<1> QED BY <1>1, <1>2, <1>6, <1>8 DEF ArrivalInv

\* Orphans taken off the stash wait for the handler that took them.
LEMMA TakingKeepsHistory ==
  ASSUME ArrivalInv, NEW h \in Handler, TakeOrphans(h), delivered' = delivered, ChainInv'
  PROVE  ArrivalInv'
<1> DEFINE b == ingested[h]
           o == orphans[b]
           rest == waiting[h]
           w == o \o rest
<1>1. /\ ChainInv /\ late \subseteq Early /\ HeldWasDelivered /\ NothingIsLost
      /\ orphans \in [Block -> Seq(Block)] /\ waiting \in [Handler -> Seq(Block)]
      /\ IngestedKnown /\ Known \subseteq Block
  BY DEF ArrivalInv, ChainInv, HandlersInv, HandlersTypeOK, CoreInv, ChainTypeOK
<1>2. /\ up /\ up' = up /\ late' = late /\ Known' = Known /\ b \in Known
      /\ waiting' = [waiting EXCEPT ![h] = w]
      /\ orphans' = [orphans EXCEPT ![b] = <<>>]
  BY <1>1 DEF TakeOrphans, IngestedKnown, memory, Known
<1>3. /\ b \in Block /\ o \in Seq(Block) /\ rest \in Seq(Block)
      /\ \A i \in DOMAIN o : o[i] \in delivered
      /\ \A i \in DOMAIN rest : rest[i] \in delivered
  BY <1>1, <1>2 DEF HeldWasDelivered
<1>4. \A x : IsStashed(x) /\ Parent[x] = b => \E i \in DOMAIN o : o[i] = x
  BY DEF IsStashed
<1>5. \A x : (\E i \in DOMAIN waiting[h] : waiting[h][i] = x) => \E i \in DOMAIN rest : rest[i] = x
  OBVIOUS
<1> HIDE DEF b, o, rest
<1>6. /\ w \in Seq(Block) /\ Len(w) = Len(o) + Len(rest)
      /\ \A i \in 1 .. Len(o) + Len(rest) :
            w[i] = IF i <= Len(o) THEN o[i] ELSE rest[i - Len(o)]
  BY <1>3, ConcatProperties
<1> HIDE DEF w
<1>7. /\ Len(o) \in Nat /\ Len(rest) \in Nat
      /\ DOMAIN o = 1 .. Len(o) /\ DOMAIN rest = 1 .. Len(rest)
      /\ DOMAIN w = 1 .. Len(o) + Len(rest)
  BY <1>3, <1>6, LenProperties
<1>8. /\ \A i \in DOMAIN o : i \in DOMAIN w /\ w[i] = o[i]
      /\ \A i \in DOMAIN rest : i + Len(o) \in DOMAIN w /\ w[i + Len(o)] = rest[i]
      /\ \A i \in DOMAIN w : w[i] \in delivered
  <2>1. \A i \in DOMAIN o : i \in DOMAIN w /\ w[i] = o[i]
    BY <1>6, <1>7
  <2>2. ASSUME NEW i \in DOMAIN rest
        PROVE  i + Len(o) \in DOMAIN w /\ w[i + Len(o)] = rest[i]
    <3>1. /\ i + Len(o) \in 1 .. Len(o) + Len(rest) /\ ~(i + Len(o) <= Len(o))
          /\ (i + Len(o)) - Len(o) = i
      BY <1>7, <2>2
    <3> QED BY <1>6, <1>7, <3>1
  <2>3. ASSUME NEW i \in DOMAIN w
        PROVE  w[i] \in delivered
    <3>1. CASE i <= Len(o)
      BY <1>3, <1>6, <1>7, <2>3, <3>1
    <3>2. CASE ~(i <= Len(o))
      <4>1. i - Len(o) \in DOMAIN rest /\ w[i] = rest[i - Len(o)]
        BY <1>6, <1>7, <2>3, <3>2
      <4> QED BY <1>3, <4>1
    <3> QED BY <3>1, <3>2
  <2> QED BY <2>1, <2>2, <2>3
<1>9. /\ \A p \in Block : orphans'[p] = IF p = b THEN <<>> ELSE orphans[p]
      /\ \A k \in Handler : waiting'[k] = IF k = h THEN w ELSE waiting[k]
  <2>1. \A p \in Block : orphans'[p] = IF p = b THEN <<>> ELSE orphans[p]
    BY <1>1, <1>2
  <2>2. \A k \in Handler : waiting'[k] = IF k = h THEN w ELSE waiting[k]
    BY <1>1, <1>2
  <2> QED BY <2>1, <2>2
<1>10. HeldWasDelivered'
  <2>1. ASSUME NEW p \in Block, NEW i \in DOMAIN orphans'[p]
        PROVE  orphans'[p][i] \in delivered
    <3>1. DOMAIN <<>> = {}
      OBVIOUS
    <3>2. p # b /\ orphans'[p] = orphans[p]
      BY <1>9, <2>1, <3>1, Zenon
    <3> QED BY <1>1, <2>1, <3>2, Zenon DEF HeldWasDelivered
  <2>2. ASSUME NEW k \in Handler, NEW i \in DOMAIN waiting'[k]
        PROVE  waiting'[k][i] \in delivered
    <3>1. CASE k = h
      BY <1>8, <1>9, <2>2, <3>1
    <3>2. CASE k # h
      <4>1. waiting'[k] = waiting[k]
        BY <1>9, <3>2
      <4> QED BY <1>1, <2>2, <4>1 DEF HeldWasDelivered
    <3> QED BY <3>1, <3>2
  <2> QED BY <1>1, <1>2, <2>1, <2>2 DEF HeldWasDelivered
<1>11. ASSUME NEW x \in delivered, Followable(x)
       PROVE  Retained(x)'
  <2>1. x \in Known \/ Waits(x) \/ Stashed(x)
    BY <1>1, <1>2, <1>11 DEF NothingIsLost, Retained
  <2>2. ASSUME Waits(x)
        PROVE  Waits(x)'
    <3>1. PICK k \in Handler : \E i \in DOMAIN waiting[k] : waiting[k][i] = x
      BY <2>2 DEF Waits
    <3>2. CASE k = h
      <4>1. PICK i \in DOMAIN rest : rest[i] = x
        BY <1>5, <3>1, <3>2
      <4>2. i + Len(o) \in DOMAIN waiting'[h] /\ waiting'[h][i + Len(o)] = x
        BY <1>8, <1>9, <4>1
      <4> QED BY <4>2 DEF Waits
    <3>3. CASE k # h
      <4>1. waiting'[k] = waiting[k]
        BY <1>9, <3>3
      <4> QED BY <3>1, <4>1 DEF Waits
    <3> QED BY <3>2, <3>3
  <2>3. ASSUME Stashed(x)
        PROVE  Waits(x)' \/ Stashed(x)'
    <3>1. x \notin Root /\ Parent[x] \in Block /\ IsStashed(x)
      BY <1>1, <1>11, <2>3, TreeAssumption DEF HeldWasDelivered, Stashed
    <3>2. CASE Parent[x] = b
      <4>1. PICK i \in DOMAIN o : o[i] = x
        BY <1>4, <3>1, <3>2
      <4>2. i \in DOMAIN waiting'[h] /\ waiting'[h][i] = x
        BY <1>8, <1>9, <4>1
      <4> QED BY <4>2 DEF Waits
    <3>3. CASE Parent[x] # b
      <4>1. orphans'[Parent[x]] = orphans[Parent[x]]
        BY <1>9, <3>1, <3>3
      <4> QED BY <3>1, <4>1 DEF Stashed, IsStashed
    <3> QED BY <3>2, <3>3
  <2> QED BY <1>2, <2>1, <2>2, <2>3 DEF Retained
<1>12. NothingIsLost'
  BY <1>11 DEF NothingIsLost, Followable
<1> QED BY <1>1, <1>2, <1>10, <1>12 DEF ArrivalInv

\* The next waiting block is ingested.  The others keep waiting, or are dropped
\* with an exception.
LEMMA DrainKeepsHistory ==
  ASSUME ArrivalInv, NEW h \in Handler, DrainNext(h), ChainInv',
         delivered' = IF Throws(Head(waiting[h])) THEN delivered \ Dropped(h)
                                                  ELSE delivered
  PROVE  ArrivalInv'
<1> DEFINE b == Head(waiting[h])
           rest == Tail(waiting[h])
<1>1. /\ up /\ waiting[h] # <<>> /\ ingested[h] = NoBlock /\ Ingest(h, b, rest)
      /\ CoreInv /\ HeldWasDelivered /\ waiting \in [Handler -> Seq(Block)]
  BY DEF DrainNext, ArrivalInv, ChainInv, HandlersInv, HandlersTypeOK
<1>2. /\ Ingestible(b) /\ b \notin Root /\ rest \in Seq(Block)
      /\ \A i \in DOMAIN rest : \E j \in DOMAIN waiting[h] : waiting[h][j] = rest[i]
      /\ \A i \in DOMAIN waiting[h] :
           waiting[h][i] = b \/ \E j \in DOMAIN rest : rest[j] = waiting[h][i]
      /\ 1 \in DOMAIN waiting[h] /\ waiting[h][1] = b
  BY <1>1, WaitingIsIngestible DEF ArrivalInv
<1>3. b \in delivered
  BY <1>1, <1>2 DEF HeldWasDelivered
<1>4. Dropped(h) = {x \in Range(rest) : ~Retained(x)'}
  BY DEF Dropped
<1> HIDE DEF b, rest
<1>5. \/ waiting' = [waiting EXCEPT ![h] = rest] /\ ~Throws(b)
      \/ waiting' = [waiting EXCEPT ![h] = <<>>] /\ Throws(b)
  <2>1. /\ CoreInv /\ up /\ h \in Handler /\ Ingestible(b) /\ Ingest(h, b, rest)
    BY <1>1, <1>2
  <2> QED BY ONLY <2>1, IngestOutcomes
<1>6. /\ delivered' \subseteq delivered
      /\ \A x \in delivered \ delivered' : ~Retained(x)'
  BY <1>4
<1>7. b \in Known' => b \in delivered'
  BY <1>3, <1>6 DEF Retained
<1>8. CASE waiting' = [waiting EXCEPT ![h] = rest] /\ ~Throws(b)
  <2>1. waiting'[h] = rest
    BY <1>1, <1>8
  <2>2. ASSUME NEW x, NEW i \in DOMAIN waiting[h], waiting[h][i] = x
        PROVE  (x = b /\ b \notin Root) \/ x \notin delivered' \/ Retained(x)'
    <3>1. CASE x = b
      BY <1>2, <3>1
    <3>2. CASE x # b
      <4>1. \E j \in DOMAIN rest : rest[j] = x
        BY <1>2, <2>2, <3>2
      <4>2. Waits(x)'
        BY <2>1, <4>1 DEF Waits
      <4> QED BY <4>2 DEF Retained
    <3> QED BY <3>1, <3>2
  <2>3. /\ ArrivalInv /\ ChainInv' /\ up /\ h \in Handler
        /\ Ingestible(b) /\ Ingest(h, b, rest)
        /\ rest \in Seq(Block) /\ waiting' = [waiting EXCEPT ![h] = rest]
        /\ \A i \in DOMAIN rest : \E j \in DOMAIN waiting[h] : waiting[h][j] = rest[i]
        /\ \A x \in delivered' : x \in delivered
        /\ \A x \in delivered \ delivered' : ~Retained(x)'
        /\ b \in Known' => b \in delivered'
    BY <1>1, <1>2, <1>6, <1>7, <1>8
  <2>4. \A x : \A i \in DOMAIN waiting[h] : waiting[h][i] = x =>
          (x = b /\ b \notin Root) \/ x \notin delivered' \/ Retained(x)'
    BY <2>2
  <2> QED BY ONLY <2>3, <2>4, IngestKeepsHistory
<1>9. CASE waiting' = [waiting EXCEPT ![h] = <<>>] /\ Throws(b)
  <2>1. <<>> \in Seq(Block) /\ DOMAIN <<>> = {}
    OBVIOUS
  <2>2. delivered' = delivered \ Dropped(h)
    BY <1>9 DEF b
  <2>3. ASSUME NEW x, NEW i \in DOMAIN waiting[h], waiting[h][i] = x
        PROVE  (x = b /\ b \notin Root) \/ x \notin delivered' \/ Retained(x)'
    <3>1. CASE x = b
      BY <1>2, <3>1
    <3>2. CASE x # b
      <4>1. x \in Range(rest)
        BY <1>2, <2>3, <3>2 DEF Range
      <4> QED BY <1>4, <2>2, <4>1
    <3> QED BY <3>1, <3>2
  <2>4. \A i \in DOMAIN <<>> : \E j \in DOMAIN waiting[h] : waiting[h][j] = <<>>[i]
    BY <2>1
  <2>5. /\ ArrivalInv /\ ChainInv' /\ up /\ h \in Handler
        /\ Ingestible(b) /\ Ingest(h, b, rest)
        /\ <<>> \in Seq(Block) /\ waiting' = [waiting EXCEPT ![h] = <<>>]
        /\ \A x \in delivered' : x \in delivered
        /\ \A x \in delivered \ delivered' : ~Retained(x)'
        /\ b \in Known' => b \in delivered'
    BY <1>1, <1>2, <1>6, <1>7, <1>9, <2>1
  <2>6. \A x : \A i \in DOMAIN waiting[h] : waiting[h][i] = x =>
          (x = b /\ b \notin Root) \/ x \notin delivered' \/ Retained(x)'
    BY <2>3
  <2> QED BY ONLY <2>4, <2>5, <2>6, IngestKeepsHistory
<1> QED BY <1>5, <1>8, <1>9

\* A block that is delivered is ingested at once or stashed.
LEMMA DeliverKeepsHistory ==
  ASSUME ArrivalInv, NEW b \in Block \ {Genesis}, Deliver(b), ChainInv'
  PROVE  ArrivalInv'
<1>1. delivered' = delivered \cup ({b} \ (Root \ Known')) /\ ChainInv /\ CoreInv
  BY DEF Deliver, ArrivalInv, ChainInv
<1>2. ASSUME NEW h \in Peer, StashOrphan(h, b)
      PROVE  ArrivalInv'
  <2>1. delivered' = delivered \cup {b}
    BY <1>1, <1>2 DEF StashOrphan, Attached
  <2> QED BY <1>2, <2>1, StashKeepsHistory
<1>3. ASSUME NEW h \in Handler, up, Idle(h), Ingestible(b), Ingest(h, b, <<>>)
      PROVE  ArrivalInv'
  <2>1. waiting[h] = <<>> /\ <<>> \in Seq(Block) /\ DOMAIN <<>> = {}
    BY <1>3 DEF Idle
  <2>2. waiting' = [waiting EXCEPT ![h] = <<>>]
    BY <1>1, <1>3, IngestOutcomes
  <2>3. \A i \in DOMAIN <<>> : \E j \in DOMAIN waiting[h] : waiting[h][j] = <<>>[i]
    BY <2>1
  <2>4. \A x : \A i \in DOMAIN waiting[h] : waiting[h][i] = x =>
          (x = b /\ b \notin Root) \/ x \notin delivered' \/ Retained(x)'
    BY <2>1
  <2>5. /\ \A x \in delivered' :
             x \in delivered \/ (x = b /\ (b \notin Root \/ b \in Known'))
        /\ \A x \in delivered \ delivered' : ~Retained(x)'
        /\ b \in Known' => b \in delivered'
    BY <1>1
  <2> QED BY <1>3, <2>1, <2>2, <2>3, <2>4, <2>5, IngestKeepsHistory
<1>4. ASSUME NEW h \in Peer, HandleBlock(h, b)
      PROVE  ArrivalInv'
  BY <1>3, <1>4, NewIsIngestible DEF HandleBlock, Handler
<1>5. CASE SubmitBlock(b)
  BY <1>1, <1>3, <1>5, SubmitIsIngestible DEF SubmitBlock
<1> QED BY <1>2, <1>4, <1>5 DEF Deliver

\* A process that dies forgets what it was given.
LEMMA DieKeepsHistory ==
  ASSUME ArrivalInv, LoseMemory, delivered' = {}, ChainInv'
  PROVE  ArrivalInv'
<1>1. ~up' /\ late' = late /\ late \subseteq Early /\ MemoryIsLost'
  BY DEF LoseMemory, ArrivalInv, ChainInv, HandlersInv
<1>2. /\ \A p \in Block : orphans'[p] = <<>>
      /\ \A h \in Handler : waiting'[h] = <<>>
      /\ DOMAIN <<>> = {}
  BY <1>1 DEF MemoryIsLost, NoOrphans
<1>3. HeldWasDelivered'
  BY <1>1, <1>2 DEF HeldWasDelivered
<1> QED BY <1>1, <1>3 DEF ArrivalInv, NothingIsLost

\* A process that starts knows what it replayed.
LEMMA BootKeepsHistory ==
  ASSUME ArrivalInv, Boot, ChainInv'
  PROVE  ArrivalInv'
<1>1. /\ ~up /\ late' = late /\ orphans' = orphans /\ waiting' = waiting
      /\ delivered' = {Genesis} \cup {log[h] : h \in DOMAIN log}
  BY DEF Boot, Restart, Replay
<1>2. /\ CoreInv /\ MemoryIsLost /\ late \subseteq Early
      /\ Known' = {Genesis} \cup {log[h] : h \in DOMAIN log} /\ Known' \subseteq Block
  BY RestartKnows DEF Boot, ArrivalInv, ChainInv, HandlersInv
<1>3. /\ \A p \in Block : orphans'[p] = <<>>
      /\ \A h \in Handler : waiting'[h] = <<>>
      /\ DOMAIN <<>> = {}
  BY <1>1, <1>2 DEF MemoryIsLost, NoOrphans
<1>4. HeldWasDelivered'
  BY <1>1, <1>2, <1>3 DEF HeldWasDelivered
<1>5. NothingIsLost'
  BY <1>1, <1>2 DEF NothingIsLost, Retained
<1> QED BY <1>1, <1>2, <1>4, <1>5 DEF ArrivalInv
------------------------------------------------------------------------------
(* The theorems *)

\* Every step of the arrival specification is one of the node's.
LEMMA ArrivalStep == [ArrivalNext]_arrivalVars => [Next]_vars
<1> SUFFICES ASSUME [ArrivalNext]_arrivalVars
             PROVE  [Next]_vars
  OBVIOUS
<1>1. ASSUME NEW b \in Block \ {Genesis}, Deliver(b)
      PROVE  Next
  BY <1>1 DEF Deliver, Next
<1>2. ASSUME NEW h \in Handler, Work(h)
      PROVE  Next
  BY <1>2 DEF Work, Next
<1>3. CASE ClockAdvances
  BY <1>3 DEF Next
<1>4. CASE Die
  BY <1>4 DEF Die, Next
<1>5. CASE Boot
  BY <1>5 DEF Boot, Next
<1>6. CASE UNCHANGED arrivalVars
  BY <1>6 DEF arrivalVars
<1> QED BY <1>1, <1>2, <1>3, <1>4, <1>5, <1>6 DEF ArrivalNext

LEMMA ArrivalInitial == ArrivalInit => ArrivalInv
<1> SUFFICES ASSUME ArrivalInit
             PROVE  ArrivalInv
  OBVIOUS
<1>1. ChainInv
  BY InitialInv DEF ArrivalInit
<1>2. /\ up = TRUE /\ late = Early /\ delivered = {Genesis} /\ Known = {Genesis}
      /\ orphans = NoOrphans /\ waiting = [h \in Handler |-> <<>>]
  BY DEF ArrivalInit, Init, Known
<1>3. Genesis \in Block /\ DOMAIN <<>> = {}
  BY TreeAssumption
<1>4. HeldWasDelivered
  BY <1>2, <1>3 DEF HeldWasDelivered, NoOrphans
<1>5. NothingIsLost
  BY <1>2 DEF NothingIsLost, Retained
<1> QED BY <1>1, <1>2, <1>4, <1>5 DEF ArrivalInv

LEMMA ArrivalKept == ArrivalInv /\ [ArrivalNext]_arrivalVars => ArrivalInv'
<1> SUFFICES ASSUME ArrivalInv, [ArrivalNext]_arrivalVars
             PROVE  ArrivalInv'
  OBVIOUS
<1>1. ChainInv'
  BY ArrivalStep, StepInv DEF ArrivalInv
<1>2. ASSUME NEW b \in Block \ {Genesis}, Deliver(b)
      PROVE  ArrivalInv'
  BY <1>1, <1>2, DeliverKeepsHistory
<1>3. ASSUME NEW h \in Handler, Work(h)
      PROVE  ArrivalInv'
  BY <1>1, <1>3, TakingKeepsHistory, DrainKeepsHistory DEF Work
<1>4. ASSUME UNCHANGED <<up, memory, handlers>>, late' \subseteq late, delivered' = delivered
      PROVE  ArrivalInv'
  <2>1. /\ late' \subseteq Early /\ Known' = Known
        /\ UNCHANGED <<up, orphans, waiting, delivered>>
    BY <1>4 DEF ArrivalInv, memory, handlers, Known
  <2>2. HeldWasDelivered'
    BY <2>1 DEF ArrivalInv, HeldWasDelivered
  <2>3. NothingIsLost'
    BY <2>1 DEF ArrivalInv, NothingIsLost, Followable, Retained, Waits, Stashed, IsStashed
  <2> QED BY <1>1, <2>1, <2>2, <2>3 DEF ArrivalInv
<1>5. CASE ClockAdvances /\ delivered' = delivered
  <2>1. UNCHANGED <<up, memory, handlers>> /\ late' \subseteq late
    BY <1>5 DEF ClockAdvances
  <2> QED BY <1>4, <1>5, <2>1
<1>6. CASE Die
  <2>1. LoseMemory /\ delivered' = {}
    BY <1>6 DEF Die, Crash, CrashInAppend, CrashInReorg
  <2> QED BY <1>1, <2>1, DieKeepsHistory
<1>7. CASE Boot
  BY <1>1, <1>7, BootKeepsHistory
<1>8. CASE UNCHANGED arrivalVars
  BY <1>4, <1>8 DEF arrivalVars, vars, memory, handlers
<1> QED BY <1>2, <1>3, <1>5, <1>6, <1>7, <1>8 DEF ArrivalNext

\* With the handlers at rest, a delivered followable chain is known: its first
\* unknown block would still be stashed under a known parent.
LEMMA RestKnows ==
  ASSUME ArrivalInv, up, ~grafted, \A h \in Handler : Idle(h),
         NEW b \in Block, Followable(b), Workable(b),
         \A i \in DOMAIN Ancestry[b] : Ancestry[b][i] \in delivered
  PROVE  b \in Known
<1> DEFINE s == Ancestry[b]
           Unknown == {i \in 1 .. Len(s) : s[i] \notin Known}
<1>1. /\ Len(s) \in Nat \ {0} /\ s[1] \in Root /\ s[Len(s)] = b
      /\ \A i \in 1 .. Len(s) : s[i] \in delivered /\ s[i] \notin Unworkable
  BY AncestryEnds, PathDomain DEF Workable
<1>2. /\ Known \subseteq Block /\ NothingIsLost /\ NoStrandedOrphan
      /\ \A x : ~Waits(x)
  <2>1. \A x : ~Waits(x)
    BY DEF Idle, Waits
  <2> QED BY <2>1 DEF ArrivalInv, ChainInv, CoreInv, HandlersInv, ChainTypeOK
<1>3. ASSUME Unknown # {}
      PROVE  FALSE
  <2>1. IsWellFoundedOn(OpToRel(<, Nat), Nat)
    BY NatLessThanWellFounded
  <2>2. Unknown \subseteq Nat
    BY <1>1
  <2>3. PICK i \in Unknown : \A j \in Unknown : ~(<<j, i>> \in OpToRel(<, Nat))
    <3> HIDE DEF Unknown
    <3> QED BY <1>3, <2>1, <2>2, WFMin
  <2>4. \A j \in Unknown : ~(j < i)
    BY <2>2, <2>3 DEF OpToRel
  <2> DEFINE c == s[i]
  <2>5. /\ i \in 1 .. Len(s) /\ c \in delivered /\ c \notin Known /\ Followable(c)
    BY <1>1, <2>3, FollowablePath
  <2>6. Stashed(c)
    BY <1>2, <2>5 DEF NothingIsLost, Retained
  <2>7. i # 1
    BY <1>1, <2>6 DEF Stashed
  <2>8. i \in 2 .. Len(s)
    BY <1>1, <2>5, <2>7
  <2>9. /\ i - 1 \in 1 .. Len(s) /\ i - 1 \notin Unknown
    BY <1>1, <2>4, <2>8
  <2>10. /\ Parent[c] = s[i - 1] /\ s[i - 1] \in Known \ Unworkable
    BY <1>1, <2>8, <2>9, AncestrySteps
  <2> HIDE DEF c
  <2>11. orphans[Parent[c]] # <<>>
    BY <2>6 DEF Stashed, IsStashed
  <2>12. PICK h \in Handler : ingested[h] = Parent[c]
    BY <1>2, <2>10, <2>11 DEF NoStrandedOrphan
  <2> QED BY <1>2, <2>10, <2>12, NodeAssumption DEF Idle
<1> QED BY <1>1, <1>3

\* Fork choice at rest does not depend on the order of arrival.
THEOREM RestFollowsBest == ArrivalSpec => []RestIsBest
<1>1. ArrivalInv => RestIsBest
  <2> SUFFICES ASSUME ArrivalInv, up, ~grafted, \A h \in Handler : Idle(h)
               PROVE  /\ Complete(Tip)
                      /\ \A b \in delivered :
                           Complete(b) /\ Timely(b) /\ Workable(b) =>
                             /\ b \in Known
                             /\ ~PrefersChainTip(chainWork[b], b, chainWork[Tip], Tip)
                             /\ FromGenesis(b) /\ FromGenesis(Tip) =>
                                  ~PrefersChainTip(TotalWork[b], b, TotalWork[Tip], Tip)
    BY DEF RestIsBest, Rest
  <2>1. CoreInv
    BY DEF ArrivalInv, ChainInv
  <2>2. /\ Tip \in Known /\ Tip \in Block /\ Known \subseteq delivered
        /\ delivered \subseteq Block /\ Accepted(Tip)
        /\ \A x \in Known : ~PrefersChainTip(chainWork[x], x, chainWork[Tip], Tip)
    BY <2>1, Running DEF ArrivalInv, HeldWasDelivered, CoreInv, BestKnown
  <2>3. \A i \in DOMAIN Ancestry[Tip] : Ancestry[Tip][i] \in delivered
    BY <2>1, <2>2 DEF CoreInv, KnownIsPath
  <2>4. Complete(Tip)
    BY <2>2, <2>3 DEF Complete, Accepted
  <2>5. ASSUME NEW b \in delivered, Complete(b), Timely(b), Workable(b)
        PROVE  b \in Known
    <3>1. b \in Block /\ Followable(b)
      BY <2>2, <2>5 DEF Complete, Timely, Followable
    <3> QED BY <2>5, <3>1, RestKnows DEF Complete
  <2>6. ASSUME NEW b \in Known, Workable(b), FromGenesis(b), FromGenesis(Tip)
        PROVE  ~PrefersChainTip(TotalWork[b], b, TotalWork[Tip], Tip)
    <3>1. Workable(Tip)
      BY <2>2, <2>6, AcceptedIsWorkable DEF Accepted
    <3>2. chainWork[b] = TotalWork[b] /\ chainWork[Tip] = TotalWork[Tip]
      BY <2>1, <2>2, <2>6, <3>1 DEF CoreInv, WorkIsExact
    <3> QED BY <2>2, <3>2
  <2> QED BY <2>2, <2>4, <2>5, <2>6
<1> QED BY <1>1, ArrivalInitial, ArrivalKept, PTL DEF ArrivalSpec

\* The node that keeps a history of what it was given is the chain node.
THEOREM ArrivalIsChainNode == ArrivalSpec => Spec
<1>1. ArrivalInit => Init
  BY DEF ArrivalInit
<1> QED BY <1>1, ArrivalStep, PTL DEF ArrivalSpec, Spec

(* Merkle trees: rows                                                         *)

IsRow(row) == row \in Seq(ToSet(row)) /\ row # <<>>

LEMMA RowIs ==
  ASSUME NEW row, IsRow(row)
  PROVE  /\ Len(row) \in Nat \ {0} /\ DOMAIN row = 1 .. Len(row)
         /\ \A i \in 1 .. Len(row) : row[i] \in ToSet(row)
<1>1. row \in Seq(ToSet(row)) /\ row # <<>>
  BY DEF IsRow
<1>2. Len(row) \in Nat /\ DOMAIN row = 1 .. Len(row)
  BY <1>1, LenProperties
<1>3. Len(row) # 0
  BY <1>1, EmptySeq
<1> QED BY <1>1, <1>2, <1>3, ElementOfSeq

\* What has an element for each of the numbers up to its length is a row.
LEMMA MakeRow ==
  ASSUME NEW n \in Nat \ {0}, NEW row, DOMAIN row = 1 .. n, row = [i \in 1 .. n |-> row[i]]
  PROVE  IsRow(row) /\ Len(row) = n
<1>1. \A i \in 1 .. n : row[i] \in ToSet(row)
  BY DEF ToSet
<1>2. row \in [1 .. n -> ToSet(row)]
  BY <1>1
<1>3. row \in Seq(ToSet(row))
  BY <1>2, SeqDef
<1>4. Len(row) = n
  BY <1>3, LenProperties
<1>5. row # <<>>
  BY <1>4, EmptySeq
<1> QED BY <1>3, <1>4, <1>5 DEF IsRow

\* A row of odd length repeats its last element, unless it is the only one.
LEMMA PaddedIs ==
  ASSUME NEW row, IsRow(row), Len(row) > 1
  PROVE  /\ \E m \in Nat : m > 0 /\ Len(Padded(row)) = 2 * m
                           /\ (Len(row) = 2 * m \/ Len(row) = 2 * m - 1)
         /\ \A i \in 1 .. Len(row) : Padded(row)[i] = row[i]
         /\ Len(Padded(row)) # Len(row) =>
              Len(Padded(row)) = Len(row) + 1 /\ Padded(row)[Len(row) + 1] = row[Len(row)]
<1> DEFINE n == Len(row)
<1>1. n \in Nat \ {0} /\ row \in Seq(ToSet(row)) /\ row[n] \in ToSet(row)
  BY RowIs DEF IsRow
<1>2. CASE n % 2 = 1
  <2>1. Padded(row) = Append(row, row[n])
    BY <1>2 DEF Padded, Last
  <2>2. Len(Append(row, row[n])) = n + 1 /\ Append(row, row[n])[n + 1] = row[n]
        /\ \A i \in 1 .. n : Append(row, row[n])[i] = row[i]
    BY <1>1, AppendProperties
  <2>3. \E m \in Nat : m > 0 /\ n = 2 * m - 1 /\ n + 1 = 2 * m
    <3> HIDE DEF n
    <3>1. n = 2 * (n \div 2) + 1 /\ n \div 2 \in Nat
      BY <1>1, <1>2
    <3>2. (n \div 2) + 1 \in Nat /\ n \div 2 + 1 > 0 /\ n = 2 * (n \div 2 + 1) - 1
          /\ n + 1 = 2 * (n \div 2 + 1)
      BY <1>1, <3>1
    <3> QED BY <3>2
  <2> QED BY <2>1, <2>2, <2>3
<1>3. CASE n % 2 # 1
  <2>1. Padded(row) = row
    BY <1>3 DEF Padded
  <2>2. \E m \in Nat : m > 0 /\ n = 2 * m
    <3> HIDE DEF n
    <3>1. n = 2 * (n \div 2) /\ n \div 2 \in Nat /\ n \div 2 > 0
      BY <1>1, <1>3
    <3> QED BY <3>1
  <2> QED BY <2>1, <2>2
<1> QED BY <1>2, <1>3

\* The row above pairs the elements of the padded row.
LEMMA AboveIs ==
  ASSUME NEW row, IsRow(row), Len(row) > 1
  PROVE  /\ IsRow(Above(row)) /\ Len(Padded(row)) = 2 * Len(Above(row)) /\ Len(Above(row)) < Len(row)
         /\ \A i \in 1 .. Len(Above(row)) :
              Above(row)[i] = <<Padded(row)[2 * i - 1], Padded(row)[2 * i]>>
<1> DEFINE n == Len(row)
           full == Padded(row)
           above == Above(row)
<1>1. PICK m \in Nat : m > 0 /\ Len(full) = 2 * m /\ (n = 2 * m \/ n = 2 * m - 1)
  BY PaddedIs
<1>2. above = [i \in 1 .. m |-> <<full[2 * i - 1], full[2 * i]>>]
  <2>1. Len(full) \div 2 = m
    <3>1. (2 * m) \div 2 = m
      OBVIOUS
    <3> QED BY <1>1, <3>1
  <2> HIDE DEF full
  <2> QED BY <2>1 DEF Above, full
<1> HIDE DEF full
<1>3. m \in Nat \ {0} /\ DOMAIN above = 1 .. m /\ above = [i \in 1 .. m |-> above[i]]
  BY <1>1, <1>2
<1> HIDE DEF above
<1>4. IsRow(above) /\ Len(above) = m
  BY <1>3, MakeRow
<1>5. m < n
  BY <1>1
<1>6. \A i \in 1 .. m : above[i] = <<full[2 * i - 1], full[2 * i]>>
  BY <1>2
<1> QED BY <1>1, <1>4, <1>5, <1>6 DEF above, full

Distinct(row) == \A i, j \in 1 .. Len(row) : row[i] = row[j] => i = j

\* Rows without a repeat that have one row above are the same.
LEMMA SamePadded ==
  ASSUME NEW r, IsRow(r), Len(r) > 1, Distinct(r), NEW s, IsRow(s), Len(s) > 1, Distinct(s),
         Len(Padded(r)) = Len(Padded(s)), \A i \in 1 .. Len(Padded(r)) : Padded(r)[i] = Padded(s)[i]
  PROVE  Len(r) = Len(s)
<1>1. /\ Len(r) \in Nat /\ Len(s) \in Nat
  BY RowIs
<1>2. /\ \A i \in 1 .. Len(r) : Padded(r)[i] = r[i]
      /\ \A i \in 1 .. Len(s) : Padded(s)[i] = s[i]
  BY PaddedIs
<1>3. /\ Len(Padded(r)) # Len(r) =>
           Len(Padded(r)) = Len(r) + 1 /\ Padded(r)[Len(r) + 1] = r[Len(r)]
      /\ Len(Padded(s)) # Len(s) =>
           Len(Padded(s)) = Len(s) + 1 /\ Padded(s)[Len(s) + 1] = s[Len(s)]
  BY PaddedIs
<1>4. ASSUME Len(Padded(r)) = Len(r), Len(Padded(s)) # Len(s) PROVE FALSE
  <2>1. Len(r) = Len(s) + 1 /\ Padded(s)[Len(s) + 1] = s[Len(s)]
    BY <1>3, <1>4
  <2>2. Len(s) \in 1 .. Len(r) /\ Len(s) + 1 \in 1 .. Len(r) /\ Len(s) \in 1 .. Len(s)
    BY <1>1, <2>1
  <2>3. r[Len(s)] = s[Len(s)] /\ r[Len(s) + 1] = s[Len(s)]
    BY <1>2, <1>4, <2>1, <2>2
  <2>4. Len(s) = Len(s) + 1
    BY <2>2, <2>3 DEF Distinct
  <2> QED BY <1>1, <2>4
<1>5. ASSUME Len(Padded(s)) = Len(s), Len(Padded(r)) # Len(r) PROVE FALSE
  <2>1. Len(s) = Len(r) + 1 /\ Padded(r)[Len(r) + 1] = r[Len(r)]
    BY <1>3, <1>5
  <2>2. Len(r) \in 1 .. Len(s) /\ Len(r) + 1 \in 1 .. Len(s) /\ Len(r) \in 1 .. Len(r)
    BY <1>1, <2>1
  <2>3. s[Len(r)] = r[Len(r)] /\ s[Len(r) + 1] = r[Len(r)]
    BY <1>2, <1>5, <2>1, <2>2
  <2>4. Len(r) = Len(r) + 1
    BY <2>2, <2>3 DEF Distinct
  <2> QED BY <1>1, <2>4
<1> QED BY <1>1, <1>3, <1>4, <1>5

LEMMA SameBelow ==
  ASSUME NEW r, IsRow(r), Len(r) > 1, Distinct(r), NEW s, IsRow(s), Len(s) > 1, Distinct(s),
         Above(r) = Above(s)
  PROVE  r = s
<1> DEFINE a == Above(r)
<1>1. /\ IsRow(a) /\ Len(Padded(r)) = 2 * Len(a) /\ Len(Padded(s)) = 2 * Len(a)
      /\ \A i \in 1 .. Len(a) : a[i] = <<Padded(r)[2 * i - 1], Padded(r)[2 * i]>>
      /\ \A i \in 1 .. Len(a) : a[i] = <<Padded(s)[2 * i - 1], Padded(s)[2 * i]>>
  BY AboveIs
<1>2. Len(a) \in Nat
  BY <1>1, RowIs
<1> HIDE DEF a
<1>3. \A i \in 1 .. Len(a) : /\ Padded(r)[2 * i - 1] = Padded(s)[2 * i - 1]
                             /\ Padded(r)[2 * i] = Padded(s)[2 * i]
  BY <1>1
<1>4. ASSUME NEW i \in 1 .. 2 * Len(a) PROVE Padded(r)[i] = Padded(s)[i]
  <2>1. \E k \in 1 .. Len(a) : i = 2 * k - 1 \/ i = 2 * k
    <3> DEFINE k == (i + 1) \div 2
    <3>1. k \in 1 .. Len(a) /\ (i = 2 * k - 1 \/ i = 2 * k)
      BY <1>2
    <3> HIDE DEF k
    <3> QED BY <3>1
  <2> QED BY <1>3, <2>1
<1>5. Len(r) = Len(s)
  BY <1>1, <1>4, SamePadded
<1>6. Len(r) \in Nat /\ DOMAIN r = 1 .. Len(r) /\ DOMAIN s = 1 .. Len(r)
  BY <1>5, RowIs
<1>7. /\ \A i \in 1 .. Len(r) : Padded(r)[i] = r[i]
      /\ \A i \in 1 .. Len(r) : Padded(s)[i] = s[i]
  BY <1>5, PaddedIs
<1>8. Len(r) <= 2 * Len(a)
  <2>1. Len(a) < Len(r) /\ Len(r) <= Len(Padded(r))
    BY AboveIs, PaddedIs, <1>6 DEF a
  <2> QED BY <1>1, <2>1
<1>9. \A i \in 1 .. Len(r) : r[i] = s[i]
  BY <1>2, <1>4, <1>6, <1>7, <1>8
<1>10. r \in Seq(ToSet(r)) /\ s \in Seq(ToSet(s))
  BY DEF IsRow
<1> QED BY <1>5, <1>6, <1>9, <1>10, SeqEqual

\* No pair above a row without a repeat is there twice.
LEMMA DistinctAbove ==
  ASSUME NEW r, IsRow(r), Len(r) > 1, Distinct(r)
  PROVE  Distinct(Above(r))
<1> DEFINE a == Above(r)
<1>1. /\ IsRow(a) /\ Len(Padded(r)) = 2 * Len(a) /\ Len(a) < Len(r)
      /\ \A i \in 1 .. Len(a) : a[i] = <<Padded(r)[2 * i - 1], Padded(r)[2 * i]>>
  BY AboveIs
<1>2. Len(a) \in Nat /\ Len(r) \in Nat
  BY <1>1, RowIs
<1>3. 2 * Len(a) <= Len(r) + 1
  BY <1>1, <1>2, PaddedIs
<1>4. \A i \in 1 .. Len(r) : Padded(r)[i] = r[i]
  BY PaddedIs
<1> HIDE DEF a
<1>5. ASSUME NEW i \in 1 .. Len(a), NEW j \in 1 .. Len(a), a[i] = a[j] PROVE i = j
  <2>1. Padded(r)[2 * i - 1] = Padded(r)[2 * j - 1]
    BY <1>1, <1>5
  <2>2. 2 * i - 1 \in 1 .. Len(r) /\ 2 * j - 1 \in 1 .. Len(r)
    BY <1>2, <1>3
  <2>3. 2 * i - 1 = 2 * j - 1
    BY <1>4, <2>1, <2>2 DEF Distinct
  <2> QED BY <2>3
<1> QED BY <1>5 DEF Distinct, a

(* Merkle trees: layers, proofs and roots                                     *)

\* Layers, from the leaves to the one hash on top.
Tree(l, leaves) ==
  /\ IsRow(l) /\ l[1] = leaves
  /\ \A k \in 1 .. Len(l) : IsRow(l[k])
  /\ \A k \in 1 .. Len(l) - 1 : Len(l[k]) > 1 /\ l[k + 1] = Above(l[k])

LEMMA TreeGrows ==
  ASSUME NEW l, NEW leaves, Tree(l, leaves), Len(l[Len(l)]) > 1
  PROVE  Tree(Append(l, Above(Last(l))), leaves)
<1> DEFINE n == Len(l)
           new == Above(Last(l))
           m == Append(l, new)
           W == ToSet(l) \cup {new}
<1>1. /\ n \in Nat \ {0} /\ DOMAIN l = 1 .. n /\ l \in Seq(ToSet(l)) /\ l[1] = leaves
      /\ \A k \in 1 .. n : IsRow(l[k])
      /\ \A k \in 1 .. n - 1 : Len(l[k]) > 1 /\ l[k + 1] = Above(l[k])
  BY RowIs DEF Tree, IsRow
<1>2. new = Above(l[n]) /\ IsRow(new)
  BY <1>1, AboveIs DEF Last
<1> HIDE DEF new
<1>3. l \in Seq(W) /\ new \in W
  BY <1>1
<1>4. /\ m \in Seq(W) /\ Len(m) = n + 1 /\ m[n + 1] = new
      /\ \A k \in 1 .. n : m[k] = l[k]
  BY <1>3, AppendProperties
<1> HIDE DEF m, W
<1>5. DOMAIN m = 1 .. n + 1 /\ m = [k \in 1 .. n + 1 |-> m[k]]
  BY <1>4, LenProperties
<1>6. IsRow(m)
  BY <1>1, <1>5, MakeRow
<1>7. m[1] = leaves
  BY <1>1, <1>4
<1>8. \A k \in 1 .. n + 1 : IsRow(m[k])
  BY <1>1, <1>2, <1>4
<1>9. \A k \in 1 .. n : Len(m[k]) > 1 /\ m[k + 1] = Above(m[k])
  <2> SUFFICES ASSUME NEW k \in 1 .. n PROVE Len(m[k]) > 1 /\ m[k + 1] = Above(m[k])
    OBVIOUS
  <2>1. CASE k = n
    BY <1>1, <1>2, <1>4, <2>1
  <2>2. CASE k # n
    <3>1. k \in 1 .. n - 1 /\ k + 1 \in 1 .. n
      <4> HIDE DEF n
      <4> QED BY <1>1, <2>2
    <3> QED BY <1>1, <1>4, <3>1
  <2> QED BY <2>1, <2>2
<1>10. Len(m) - 1 = n
  BY <1>1, <1>4
<1> QED BY <1>4, <1>6, <1>7, <1>8, <1>9, <1>10 DEF Tree, m, new

\* The layers of a list, as far as they were built in a number of steps.
Built(f, leaves, n) ==
  f = [k \in 1 .. n |->
         IF k = 1 THEN <<leaves>>
         ELSE IF Len(Last(f[k - 1])) <= 1 THEN f[k - 1] ELSE Append(f[k - 1], Above(Last(f[k - 1])))]

LEMMA LayersBuilt ==
  ASSUME NEW leaves, Len(leaves) \in Nat
  PROVE  \E f : Built(f, leaves, Len(leaves) + 1) /\ Layers(leaves) = f[Len(leaves) + 1]
<1> DEFINE Next1(b) == IF Len(Last(b)) <= 1 THEN b ELSE Append(b, Above(Last(b)))
           S == {n \in Nat : \E f : Built(f, leaves, n + 1)}
<1>1. 0 \in S
  <2> DEFINE f == [k \in 1 .. 0 + 1 |-> <<leaves>>]
  <2>1. \A k \in 1 .. 0 + 1 : k = 1
    OBVIOUS
  <2>2. Built(f, leaves, 0 + 1)
    BY <2>1 DEF Built
  <2> QED BY <2>2
<1>2. ASSUME NEW n \in S PROVE n + 1 \in S
  <2>1. PICK f : Built(f, leaves, n + 1)
    BY <1>2
  <2>2. n \in Nat /\ (n + 1) + 1 \in Nat /\ (n + 1) + 1 # 1
    OBVIOUS
  <2> DEFINE m == n + 1
             g == [k \in 1 .. m + 1 |-> IF k = m + 1 THEN Next1(f[m]) ELSE f[k]]
  <2>3. m \in Nat \ {0} /\ m + 1 # 1 /\ (m + 1) - 1 = m /\ m \in 1 .. m + 1 /\ m # m + 1
    BY <2>2
  <2>4. f = [k \in 1 .. m |-> IF k = 1 THEN <<leaves>> ELSE Next1(f[k - 1])]
    BY <2>1 DEF Built
  <2> HIDE DEF m, Next1
  <2>5. \A k \in 1 .. m : f[k] = IF k = 1 THEN <<leaves>> ELSE Next1(f[k - 1])
    BY <2>4
  <2>6. \A k \in 1 .. m : g[k] = f[k]
    BY <2>3
  <2>7. g[m + 1] = Next1(g[m])
    BY <2>3
  <2>8. ASSUME NEW k \in 1 .. m + 1 PROVE g[k] = IF k = 1 THEN <<leaves>> ELSE Next1(g[k - 1])
    <3>1. CASE k = m + 1
      BY <2>3, <2>7, <3>1
    <3>2. CASE k # m + 1
      <4>1. k \in 1 .. m /\ (k # 1 => k - 1 \in 1 .. m)
        BY <2>3, <3>2
      <4> HIDE DEF g
      <4> QED BY <2>5, <2>6, <4>1
    <3> QED BY <3>1, <3>2
  <2>9. g = [k \in 1 .. m + 1 |-> g[k]]
    OBVIOUS
  <2> HIDE DEF g
  <2>10. g = [k \in 1 .. m + 1 |-> IF k = 1 THEN <<leaves>> ELSE Next1(g[k - 1])]
    BY <2>8, <2>9
  <2>11. Built(g, leaves, m + 1)
    BY <2>10 DEF Built, Next1
  <2> QED BY <2>2, <2>11 DEF m
<1>3. Len(leaves) \in S
  <2>1. S \in SUBSET Nat
    OBVIOUS
  <2> HIDE DEF S
  <2>2. S = Nat
    BY <1>1, <1>2, <2>1, Induction
  <2> QED BY <2>2
<1>4. \E f : Built(f, leaves, Len(leaves) + 1)
  BY <1>3
<1> DEFINE c == CHOOSE f : Built(f, leaves, Len(leaves) + 1)
<1>5. Built(c, leaves, Len(leaves) + 1)
  BY <1>4
<1>6. Layers(leaves) = c[Len(leaves) + 1]
  BY DEF Layers, Built
<1> QED BY <1>5, <1>6

\* The layers of a list that is not empty end in one hash.
LEMMA LayersAre ==
  ASSUME NEW leaves, IsRow(leaves)
  PROVE  Tree(Layers(leaves), leaves) /\ Len(Layers(leaves)[Len(Layers(leaves))]) = 1
<1> DEFINE n == Len(leaves)
           top(l) == l[Len(l)]
<1>1. n \in Nat \ {0}
  BY RowIs
<1>2. PICK f : Built(f, leaves, n + 1) /\ Layers(leaves) = f[n + 1]
  BY <1>1, LayersBuilt
<1> DEFINE S == {k \in 0 .. n : /\ Tree(f[k + 1], leaves)
                              /\ Len(top(f[k + 1])) <= (IF k < n THEN n - k ELSE 1)}
<1> HIDE DEF n
<1>3. \A k \in 1 .. n + 1 : f[k] = IF k = 1 THEN <<leaves>>
         ELSE IF Len(Last(f[k - 1])) <= 1 THEN f[k - 1] ELSE Append(f[k - 1], Above(Last(f[k - 1])))
  BY <1>2 DEF Built
<1>4. 0 \in S
  <2>1. f[0 + 1] = <<leaves>>
    BY <1>1, <1>3
  <2>2. Tree(<<leaves>>, leaves)
    <3> DEFINE l == <<leaves>>
    <3>1. DOMAIN l = 1 .. 1 /\ Len(l) = 1 /\ l[1] = leaves /\ l = [k \in 1 .. 1 |-> l[k]]
      OBVIOUS
    <3>2. \A k \in 1 .. 1 : k = 1
      OBVIOUS
    <3>3. 1 .. 1 - 1 = {} /\ 1 \in Nat \ {0}
      OBVIOUS
    <3> DEFINE one == 1
    <3>4. one \in Nat \ {0} /\ DOMAIN l = 1 .. one /\ l = [k \in 1 .. one |-> l[k]]
      BY <3>1
    <3> HIDE DEF l, one
    <3>5. IsRow(l)
      BY <3>4, MakeRow
    <3> QED BY <3>1, <3>2, <3>3, <3>5 DEF Tree, l
  <2>3. Len(top(<<leaves>>)) <= (IF 0 < n THEN n - 0 ELSE 1)
    BY <1>1 DEF n
  <2> HIDE DEF top
  <2> QED BY <1>1, <2>1, <2>2, <2>3
<1>5. ASSUME NEW k \in 1 .. n, k - 1 \in S PROVE k \in S
  <2> DEFINE b == f[k]
             t == top(b)
  <2>1. Tree(b, leaves) /\ Len(t) <= n - (k - 1) /\ k \in 0 .. n
    <3> HIDE DEF S, top
    <3>1. (k - 1) + 1 = k /\ k - 1 < n /\ k \in 0 .. n
      BY <1>1
    <3> USE DEF S
    <3> QED BY <1>5, <3>1
  <2>2. f[k + 1] = IF Len(t) <= 1 THEN b ELSE Append(b, Above(t))
    <3>1. k + 1 \in 1 .. n + 1 /\ k + 1 # 1 /\ (k + 1) - 1 = k
      BY <1>1
    <3>2. Last(b) = t
      BY DEF Last
    <3> HIDE DEF t
    <3> QED BY <1>3, <3>1, <3>2
  <2>3. IsRow(t) /\ Len(t) \in Nat \ {0}
    <3>1. Len(b) \in 1 .. Len(b)
      BY <2>1, RowIs DEF Tree
    <3> QED BY <2>1, <3>1, RowIs DEF Tree
  <2>4. CASE Len(t) <= 1
    <3>1. f[k + 1] = b /\ Len(top(f[k + 1])) <= 1
      BY <2>2, <2>4
    <3> DEFINE x == Len(top(f[k + 1]))
    <3>2. x \in Nat /\ x <= 1
      BY <2>3, <3>1
    <3>3. Tree(f[k + 1], leaves) /\ k \in 0 .. n
      BY <2>1, <3>1
    <3> HIDE DEF b, top, t, S, x
    <3>4. x <= (IF k < n THEN n - k ELSE 1)
      BY <1>1, <3>2
    <3> QED BY <3>3, <3>4 DEF S, x
  <2>5. CASE Len(t) > 1
    <3> DEFINE c == Append(b, Above(t))
    <3>1. f[k + 1] = c
      BY <2>2, <2>3, <2>5
    <3>2. Tree(c, leaves)
      <4>1. Last(b) = t
        BY DEF Last
      <4>2. Len(b[Len(b)]) > 1
        BY <2>5
      <4> QED BY <2>1, <4>1, <4>2, TreeGrows
    <3>3. top(c) = Above(t)
      <4>1. b \in Seq(ToSet(b))
        BY <2>1 DEF Tree, IsRow
      <4>2. b \in Seq(ToSet(b) \cup {Above(t)}) /\ Above(t) \in ToSet(b) \cup {Above(t)}
        BY <4>1
      <4> HIDE DEF t, b
      <4> QED BY <4>2, AppendProperties
    <3>4. IsRow(Above(t)) /\ Len(Above(t)) < Len(t)
      BY <2>3, <2>5, AboveIs
    <3>5. Len(Above(t)) \in Nat \ {0}
      BY <3>4, RowIs
    <3> HIDE DEF t, c, top, b
    <3>6. Len(Above(t)) <= (IF k < n THEN n - k ELSE 1)
      BY <1>1, <2>1, <2>3, <2>5, <3>4, <3>5
    <3> QED BY <2>1, <3>1, <3>2, <3>3, <3>6
  <2> QED BY <2>3, <2>4, <2>5
<1>6. n \in S
  <2> HIDE DEF S
  <2>1. 0 .. n \subseteq S
    BY <1>1, <1>4, <1>5, Along
  <2> QED BY <1>1, <2>1
<1> DEFINE l == Layers(leaves)
<1>7. Tree(l, leaves) /\ Len(top(l)) <= 1
  <2> HIDE DEF top
  <2> QED BY <1>1, <1>2, <1>6
<1> HIDE DEF l
<1>8. Len(top(l)) \in Nat \ {0}
  <2>1. Len(l) \in 1 .. Len(l)
    BY <1>7, RowIs DEF Tree
  <2> QED BY <1>7, <2>1, RowIs DEF Tree
<1>9. Len(top(l)) = 1
  <2> DEFINE x == Len(top(l))
  <2>1. x <= 1 /\ x \in Nat \ {0}
    BY <1>7, <1>8
  <2> HIDE DEF x
  <2>2. x = 1
    BY <2>1
  <2> QED BY <2>2 DEF x
<1> QED BY <1>7, <1>9 DEF l

\* The pair above a place of a row.
LEMMA PairAbove ==
  ASSUME NEW row, IsRow(row), Len(row) > 1, NEW j \in 1 .. Len(row)
  PROVE  /\ (j + 1) \div 2 \in 1 .. Len(Above(row))
         /\ Above(row)[(j + 1) \div 2] = IF j % 2 = 0 THEN <<Padded(row)[j - 1], row[j]>>
                                         ELSE <<row[j], Padded(row)[j + 1]>>
<1> DEFINE a == Above(row)
           h == (j + 1) \div 2
<1>1. /\ Len(Padded(row)) = 2 * Len(a)
      /\ \A i \in 1 .. Len(a) : a[i] = <<Padded(row)[2 * i - 1], Padded(row)[2 * i]>>
      /\ Len(a) \in Nat \ {0} /\ Len(row) \in Nat
  BY AboveIs, RowIs
<1>2. Padded(row)[j] = row[j] /\ Len(row) <= 2 * Len(a)
  BY <1>1, PaddedIs
<1> HIDE DEF a
<1>3. h \in 1 .. Len(a) /\ (j % 2 = 0 => 2 * h = j) /\ (j % 2 # 0 => 2 * h - 1 = j)
  <2> DEFINE r == Len(row)
             b == Len(a)
  <2>1. r \in Nat /\ b \in Nat /\ r <= 2 * b /\ j \in 1 .. r
    BY <1>1, <1>2
  <2> HIDE DEF r, b
  <2>2. h \in Int /\ (j % 2 = 0 => 2 * h = j) /\ (j % 2 # 0 => 2 * h - 1 = j)
    BY <2>1
  <2>3. h \in 1 .. b
    BY <2>1
  <2> QED BY <2>2, <2>3 DEF b
<1> HIDE DEF h
<1>4. a[h] = <<Padded(row)[2 * h - 1], Padded(row)[2 * h]>>
  BY <1>1, <1>3
<1>5. CASE j % 2 = 0
  <2>1. 2 * h = j /\ 2 * h - 1 = j - 1
    BY <1>3, <1>5
  <2> QED BY <1>2, <1>3, <1>4, <1>5, <2>1 DEF a, h
<1>6. CASE j % 2 # 0
  <2>1. 2 * h - 1 = j /\ 2 * h = j + 1
    BY <1>3, <1>6
  <2> QED BY <1>2, <1>3, <1>4, <1>6, <2>1 DEF a, h
<1> QED BY <1>5, <1>6

\* The place of a leaf's ancestor in each layer.
Places(at, index, n) == at = [k \in 1 .. n |-> IF k = 1 THEN index ELSE (at[k - 1] + 1) \div 2]

LEMMA PlacesExist ==
  ASSUME NEW n \in Nat \ {0}, NEW index \in Nat
  PROVE  \E at : Places(at, index, n)
<1> DEFINE step == [x \in Nat |-> (x + 1) \div 2]
<1>1. step \in [Nat -> Nat]
  <2>1. \A x \in Nat : (x + 1) \div 2 \in Nat
    OBVIOUS
  <2> QED BY <2>1
<1>2. PICK f : Recurs(f, Nat, index, step)
  <2> HIDE DEF step
  <2> QED BY <1>1, Recurrence
<1> DEFINE at == [k \in 1 .. n |-> f[k - 1]]
<1>3. ASSUME NEW k \in 1 .. n PROVE at[k] = IF k = 1 THEN index ELSE (at[k - 1] + 1) \div 2
  <2>1. CASE k = 1
    <3>1. at[1] = f[0]
      OBVIOUS
    <3> QED BY <1>2, <2>1, <3>1 DEF Recurs
  <2>2. CASE k # 1
    <3>1. k - 2 \in Nat /\ (k - 2) + 1 = k - 1 /\ k - 1 \in 1 .. n /\ (k - 1) - 1 = k - 2
      BY <2>2
    <3>2. f[k - 1] = step[f[k - 2]] /\ f[k - 2] \in Nat
      BY <1>2, <3>1 DEF Recurs
    <3> QED BY <2>2, <3>1, <3>2
  <2> QED BY <2>1, <2>2
<1>4. at = [k \in 1 .. n |-> at[k]]
  OBVIOUS
<1> HIDE DEF at
<1>5. Places(at, index, n)
  BY <1>3, <1>4 DEF Places
<1> QED BY <1>5

\* A proof has a sibling for each layer under the top.
Path(at, l, p, index) ==
  /\ at[1] = index /\ at[Len(l)] = 1
  /\ DOMAIN p = 1 .. Len(l) - 1 /\ Len(p) = Len(l) - 1
  /\ \A k \in 1 .. Len(l) - 1 :
       l[k + 1][at[k + 1]] = IF p[k].left THEN <<p[k].hash, l[k][at[k]]>>
                             ELSE <<l[k][at[k]], p[k].hash>>

LEMMA ProofIs ==
  ASSUME NEW leaves, IsRow(leaves), NEW index \in 1 .. Len(leaves)
  PROVE  \E at : Path(at, Layers(leaves), MerkleProof(leaves, index), index)
<1> DEFINE l == Layers(leaves)
           n == Len(l)
           at == CHOOSE f : Places(f, index, n)
           p == MerkleProof(leaves, index)
<1>1. Tree(l, leaves) /\ Len(l[n]) = 1
  BY LayersAre
<1>2. n \in Nat \ {0} /\ Len(leaves) \in Nat
  BY <1>1, RowIs DEF Tree
<1> HIDE DEF n
<1>3. Places(at, index, n)
  BY <1>2, PlacesExist
<1>4. p = [k \in 1 .. n - 1 |->
             [left |-> at[k] % 2 = 0,
              hash |-> Padded(l[k])[IF at[k] % 2 = 0 THEN at[k] - 1 ELSE at[k] + 1]]]
  BY DEF MerkleProof, Places, n
<1> HIDE DEF at, p, l
<1>5. \A k \in 1 .. n : at[k] = IF k = 1 THEN index ELSE (at[k - 1] + 1) \div 2
  BY <1>3 DEF Places
<1>6. /\ l[1] = leaves /\ \A k \in 1 .. n : IsRow(l[k])
      /\ \A k \in 1 .. n - 1 : Len(l[k]) > 1 /\ l[k + 1] = Above(l[k])
  BY <1>1 DEF Tree, n
<1> DEFINE S == {k \in 0 .. n - 1 : at[k + 1] \in 1 .. Len(l[k + 1])}
<1>7. 0 \in S
  BY <1>2, <1>5, <1>6
<1>8. ASSUME NEW k \in 1 .. n - 1, k - 1 \in S PROVE k \in S
  <2>1. at[k] \in 1 .. Len(l[k])
    <3>1. (k - 1) + 1 = k
      OBVIOUS
    <3> QED BY <1>8, <3>1
  <2>2. k \in 1 .. n /\ k + 1 \in 1 .. n /\ k + 1 # 1 /\ (k + 1) - 1 = k /\ k \in 0 .. n - 1
    BY <1>2
  <2>3. (at[k] + 1) \div 2 \in 1 .. Len(Above(l[k]))
    BY <1>6, <2>1, <2>2, PairAbove
  <2> QED BY <1>5, <1>6, <2>2, <2>3
<1>9. \A k \in 1 .. n : at[k] \in 1 .. Len(l[k])
  <2> HIDE DEF S
  <2>1. n - 1 \in Nat
    BY <1>2
  <2>2. 0 .. n - 1 \subseteq S
    BY <1>7, <1>8, <2>1, Along
  <2>3. \A k \in 1 .. n : k - 1 \in 0 .. n - 1 /\ (k - 1) + 1 = k
    BY <1>2
  <2> QED BY <2>2, <2>3 DEF S
<1>10. ASSUME NEW k \in 1 .. n - 1
       PROVE  l[k + 1][at[k + 1]] = IF p[k].left THEN <<p[k].hash, l[k][at[k]]>>
                                    ELSE <<l[k][at[k]], p[k].hash>>
  <2>1. k \in 1 .. n /\ k + 1 \in 1 .. n /\ k + 1 # 1 /\ (k + 1) - 1 = k
    BY <1>2
  <2>2. at[k + 1] = (at[k] + 1) \div 2 /\ l[k + 1] = Above(l[k])
    BY <1>5, <1>6, <2>1
  <2>3. Above(l[k])[(at[k] + 1) \div 2] =
          IF at[k] % 2 = 0 THEN <<Padded(l[k])[at[k] - 1], l[k][at[k]]>>
          ELSE <<l[k][at[k]], Padded(l[k])[at[k] + 1]>>
    BY <1>6, <1>9, <2>1, PairAbove
  <2>4. /\ p[k].left = (at[k] % 2 = 0)
        /\ p[k].hash = Padded(l[k])[IF at[k] % 2 = 0 THEN at[k] - 1 ELSE at[k] + 1]
    BY <1>4
  <2> QED BY <2>2, <2>3, <2>4
<1>11. DOMAIN p = 1 .. n - 1 /\ Len(p) = n - 1
  <2>1. n - 1 \in Nat
    BY <1>2
  <2>2. DOMAIN p = 1 .. n - 1 /\ p = [k \in 1 .. n - 1 |-> p[k]]
    BY <1>4
  <2> HIDE DEF p
  <2>3. p \in Seq(ToSet(p))
    <3>1. \A k \in 1 .. n - 1 : p[k] \in ToSet(p)
      BY <2>2 DEF ToSet
    <3> QED BY <2>1, <2>2, <3>1, SeqDef
  <2> QED BY <2>1, <2>2, <2>3, LenProperties
<1>12. at[1] = index /\ at[n] = 1
  <2>1. n \in 1 .. n /\ Len(l[n]) = 1
    BY <1>1, <1>2
  <2>2. at[n] \in 1 .. 1
    BY <1>9, <2>1
  <2>3. 1 \in 1 .. n
    BY <1>2
  <2> QED BY <1>5, <2>2, <2>3
<1> QED BY <1>10, <1>11, <1>12 DEF Path, l, n, p

\* What a verifier computes, level by level.
Climb(climb, leaf, p, n) ==
  climb = [k \in 0 .. n |->
          IF k = 0 THEN leaf
          ELSE IF p[k].left THEN <<p[k].hash, climb[k - 1]>> ELSE <<climb[k - 1], p[k].hash>>]

LEMMA ClimbExists == ASSUME NEW n \in Nat, NEW leaf, NEW p PROVE \E climb : Climb(climb, leaf, p, n)
<1> DEFINE Node(k, below) == IF p[k].left THEN <<p[k].hash, below>> ELSE <<below, p[k].hash>>
           S == {m \in Nat : \E climb : Climb(climb, leaf, p, m)}
<1>1. 0 \in S
  <2> DEFINE f == [k \in 0 .. 0 |-> leaf]
  <2>1. \A k \in 0 .. 0 : k = 0
    OBVIOUS
  <2>2. Climb(f, leaf, p, 0)
    BY <2>1 DEF Climb
  <2> QED BY <2>2
<1>2. ASSUME NEW m \in S PROVE m + 1 \in S
  <2>1. PICK f : Climb(f, leaf, p, m)
    BY <1>2
  <2>2. m \in Nat
    OBVIOUS
  <2> DEFINE g == [k \in 0 .. m + 1 |-> IF k = m + 1 THEN Node(k, f[m]) ELSE f[k]]
  <2>3. /\ m + 1 \in Nat /\ m + 1 # 0 /\ (m + 1) - 1 = m /\ m \in 0 .. m + 1 /\ m # m + 1
        /\ m \in 0 .. m /\ m + 1 \in 0 .. m + 1
    BY <2>2
  <2>4. f = [k \in 0 .. m |-> IF k = 0 THEN leaf ELSE Node(k, f[k - 1])]
    BY <2>1 DEF Climb
  <2> HIDE DEF Node
  <2>5. \A k \in 0 .. m : f[k] = IF k = 0 THEN leaf ELSE Node(k, f[k - 1])
    BY <2>4
  <2>6. \A k \in 0 .. m : g[k] = f[k]
    <3>1. \A k \in 0 .. m : k \in 0 .. m + 1 /\ k # m + 1
      BY <2>2
    <3> QED BY <3>1
  <2>7. g[m + 1] = Node(m + 1, g[m])
    BY <2>3, <2>6
  <2>8. ASSUME NEW k \in 0 .. m + 1 PROVE g[k] = IF k = 0 THEN leaf ELSE Node(k, g[k - 1])
    <3>1. CASE k = m + 1
      <4> HIDE DEF g
      <4> QED BY <2>3, <2>7, <3>1
    <3>2. CASE k # m + 1
      <4>1. k \in 0 .. m /\ (k # 0 => k - 1 \in 0 .. m)
        BY <2>2, <3>2
      <4> HIDE DEF g
      <4> QED BY <2>5, <2>6, <4>1
    <3> QED BY <3>1, <3>2
  <2>9. g = [k \in 0 .. m + 1 |-> g[k]]
    OBVIOUS
  <2> HIDE DEF g
  <2>10. g = [k \in 0 .. m + 1 |-> IF k = 0 THEN leaf ELSE Node(k, g[k - 1])]
    BY <2>8, <2>9
  <2>11. Climb(g, leaf, p, m + 1)
    BY <2>10 DEF Climb, Node
  <2> QED BY <2>3, <2>11
<1>3. S = Nat
  <2>1. S \in SUBSET Nat
    OBVIOUS
  <2> HIDE DEF S
  <2> QED BY <1>1, <1>2, <2>1, Induction
<1> QED BY <1>3

\* A leaf's proof verifies against a root exactly when it is the list's root,
\* and against that one for no other leaf.
LEMMA VerifyIs ==
  ASSUME NEW leaves, IsRow(leaves), NEW index \in 1 .. Len(leaves), NEW leaf, NEW root
  PROVE  /\ MerkleVerify(leaf, MerkleProof(leaves, index), MerkleRoot(leaves)) <=> leaf = leaves[index]
         /\ MerkleVerify(leaves[index], MerkleProof(leaves, index), root) <=> root = MerkleRoot(leaves)
<1> DEFINE l == Layers(leaves)
           p == MerkleProof(leaves, index)
           n == Len(p)
           climb(x) == CHOOSE f : Climb(f, x, p, n)
<1>1. PICK at : Path(at, l, p, index)
  BY ProofIs
<1>2. Tree(l, leaves) /\ Len(l) \in Nat \ {0}
  BY LayersAre, RowIs DEF Tree
<1>3. n = Len(l) - 1 /\ n \in Nat
  BY <1>1, <1>2 DEF Path
<1>4. MerkleRoot(leaves) = l[n + 1][at[n + 1]]
  <2>1. MerkleRoot(leaves) = l[Len(l)][1]
    BY DEF IsRow, MerkleRoot, Last
  <2>2. n + 1 = Len(l)
    BY <1>2, <1>3
  <2> QED BY <1>1, <2>1, <2>2 DEF Path
<1>5. \A x, r : MerkleVerify(x, p, r) <=> climb(x)[n] = r
  BY DEF MerkleVerify, Climb
<1>6. \A x : Climb(climb(x), x, p, n)
  BY <1>3, ClimbExists
<1>7. /\ at[1] = index /\ l[1] = leaves
      /\ \A k \in 1 .. n : l[k + 1][at[k + 1]] = IF p[k].left THEN <<p[k].hash, l[k][at[k]]>>
                                                ELSE <<l[k][at[k]], p[k].hash>>
  BY <1>1, <1>2, <1>3 DEF Path, Tree
<1> HIDE DEF climb, n, p, l
<1>8. ASSUME NEW x PROVE (climb(x)[n] = l[n + 1][at[n + 1]]) <=> x = leaves[index]
  <2> DEFINE f == climb(x)
  <2>1. \A k \in 0 .. n : f[k] = IF k = 0 THEN x
          ELSE IF p[k].left THEN <<p[k].hash, f[k - 1]>> ELSE <<f[k - 1], p[k].hash>>
    BY <1>6 DEF Climb
  <2> HIDE DEF f
  <2> DEFINE S == {k \in 0 .. n : (f[k] = l[k + 1][at[k + 1]]) <=> x = leaves[index]}
  <2>2. 0 \in S
    <3>1. f[0] = x
      <4>1. 0 \in 0 .. n
        BY <1>3
      <4> HIDE DEF S
      <4> QED BY <2>1, <4>1
    <3> QED BY <1>3, <1>7, <3>1
  <2>3. ASSUME NEW k \in 1 .. n, k - 1 \in S PROVE k \in S
    <3>1. (f[k - 1] = l[k][at[k]]) <=> x = leaves[index]
      <4>1. (k - 1) + 1 = k
        OBVIOUS
      <4> QED BY <2>3, <4>1
    <3>2. k \in 0 .. n /\ k # 0
      OBVIOUS
    <3>3. /\ f[k] = IF p[k].left THEN <<p[k].hash, f[k - 1]>> ELSE <<f[k - 1], p[k].hash>>
          /\ l[k + 1][at[k + 1]] = IF p[k].left THEN <<p[k].hash, l[k][at[k]]>>
                                   ELSE <<l[k][at[k]], p[k].hash>>
      BY <1>7, <2>1, <3>2
    <3>4. (f[k] = l[k + 1][at[k + 1]]) <=> f[k - 1] = l[k][at[k]]
      BY <3>3
    <3> QED BY <3>1, <3>2, <3>4
  <2> HIDE DEF S
  <2>4. 0 .. n \subseteq S
    BY <1>3, <2>2, <2>3, Along
  <2> QED BY <1>3, <2>4 DEF S, f
<1> HIDE DEF climb
<1>9. MerkleVerify(leaf, p, MerkleRoot(leaves)) <=> leaf = leaves[index]
  BY <1>4, <1>5, <1>8
<1>10. MerkleVerify(leaves[index], p, root) <=> root = MerkleRoot(leaves)
  BY <1>4, <1>5, <1>8
<1> QED BY <1>9, <1>10 DEF p

\* A node is a pair, and so is the root of a list of several.
LEMMA NodesArePairs ==
  ASSUME NEW leaves, IsRow(leaves), NEW k \in 1 .. Len(Layers(leaves)), k # 1
  PROVE  \A i \in 1 .. Len(Layers(leaves)[k]) : Len(Layers(leaves)[k][i]) = 2
<1> DEFINE l == Layers(leaves)
<1>1. Tree(l, leaves) /\ Len(l) \in Nat
  BY LayersAre, RowIs DEF Tree
<1> HIDE DEF l
<1>2. k \in 1 .. Len(l)
  BY DEF l
<1>3. k - 1 \in 1 .. Len(l) - 1 /\ (k - 1) + 1 = k /\ k - 1 \in 1 .. Len(l)
  BY <1>1, <1>2
<1>4. IsRow(l[k - 1]) /\ Len(l[k - 1]) > 1 /\ l[k] = Above(l[k - 1])
  BY <1>1, <1>3 DEF Tree
<1>5. \A i \in 1 .. Len(l[k]) :
        l[k][i] = <<Padded(l[k - 1])[2 * i - 1], Padded(l[k - 1])[2 * i]>>
  BY <1>4, AboveIs
<1>6. \A a, b : Len(<<a, b>>) = 2
  OBVIOUS
<1> QED BY <1>5, <1>6 DEF l

\* Lists without a repeat have layers without one.
LEMMA LayersDistinct ==
  ASSUME NEW leaves, IsRow(leaves), Distinct(leaves)
  PROVE  \A k \in 1 .. Len(Layers(leaves)) : Distinct(Layers(leaves)[k])
<1> DEFINE l == Layers(leaves)
           n == Len(l)
<1>1. Tree(l, leaves) /\ n \in Nat \ {0}
  BY LayersAre, RowIs DEF Tree
<1> HIDE DEF n
<1>2. /\ l[1] = leaves /\ \A k \in 1 .. n : IsRow(l[k])
      /\ \A k \in 1 .. n - 1 : Len(l[k]) > 1 /\ l[k + 1] = Above(l[k])
  BY <1>1 DEF Tree, n
<1> HIDE DEF l
<1> DEFINE S == {k \in 0 .. n - 1 : Distinct(l[k + 1])}
<1>3. 0 \in S
  BY <1>1, <1>2
<1>4. ASSUME NEW k \in 1 .. n - 1, k - 1 \in S PROVE k \in S
  <2>1. (k - 1) + 1 = k /\ k \in 0 .. n - 1 /\ k \in 1 .. n
    BY <1>1
  <2>2. Distinct(l[k])
    BY <1>4, <2>1
  <2> QED BY <1>2, <2>1, <2>2, DistinctAbove
<1> HIDE DEF S
<1>5. n - 1 \in Nat
  BY <1>1
<1>6. 0 .. n - 1 \subseteq S
  BY <1>3, <1>4, <1>5, Along
<1>7. ASSUME NEW k \in 1 .. n PROVE Distinct(l[k])
  <2>1. k - 1 \in 0 .. n - 1 /\ (k - 1) + 1 = k
    BY <1>1
  <2> QED BY <1>6, <2>1 DEF S
<1> QED BY <1>7 DEF n, l

\* From one top, the layers of two lists without a repeat are the same downwards.
LEMMA SameFromTop ==
  ASSUME NEW a, IsRow(a), Distinct(a), NEW b, IsRow(b), Distinct(b),
         MerkleRoot(a) = MerkleRoot(b), Len(Layers(a)) <= Len(Layers(b))
  PROVE  a = Layers(b)[Len(Layers(b)) - Len(Layers(a)) + 1]
<1> DEFINE l == Layers(a)
           m == Layers(b)
           n == Len(l)
           d == Len(m) - n
<1>1. /\ Tree(l, a) /\ n \in Nat \ {0} /\ Len(l[n]) = 1
      /\ Tree(m, b) /\ Len(m) \in Nat \ {0} /\ Len(m[Len(m)]) = 1
  BY LayersAre, RowIs DEF Tree
<1>2. d \in Nat /\ Len(m) = d + n /\ \A k \in 1 .. n : k + d \in 1 .. Len(m)
  <2> DEFINE q == Len(m)
  <2>1. q \in Nat /\ n \in Nat /\ n <= q /\ d = q - n
    BY <1>1
  <2> HIDE DEF q, n, d
  <2>2. d \in Nat /\ q = d + n /\ \A k \in 1 .. n : k + d \in 1 .. q
    BY <2>1
  <2> QED BY <2>2 DEF q
<1> HIDE DEF d
<1>3. \A k \in 1 .. n : /\ IsRow(l[k]) /\ Distinct(l[k])
                        /\ IsRow(m[k + d]) /\ Distinct(m[k + d])
  BY <1>1, <1>2, LayersDistinct DEF Tree
<1>4. l[n][1] = m[n + d][1]
  <2>1. /\ MerkleRoot(a) = l[n][1] /\ MerkleRoot(b) = m[Len(m)][1]
    BY DEF IsRow, MerkleRoot, Last
  <2>2. Len(m) = n + d
    BY <1>1, <1>2
  <2> QED BY <2>1, <2>2
<1>5. l[n] = m[n + d]
  <2>1. n \in 1 .. n /\ Len(m) = n + d
    BY <1>1, <1>2
  <2>2. Len(m[n + d]) = 1 /\ IsRow(l[n]) /\ IsRow(m[n + d])
    BY <1>1, <1>3, <2>1
  <2> DEFINE x == l[n]
             y == m[n + d]
  <2>3. Len(x) = 1 /\ Len(y) = 1 /\ IsRow(x) /\ IsRow(y) /\ x[1] = y[1]
    BY <1>1, <1>4, <2>2
  <2> HIDE DEF x, y
  <2>4. \A i \in 1 .. Len(x) : x[i] = y[i]
    BY <2>3
  <2>5. x = y
    BY <2>3, <2>4, SeqEqual DEF IsRow
  <2> QED BY <2>5 DEF x, y
<1> HIDE DEF l, m
<1>6. \A k \in 1 .. n - 1 : /\ Len(l[k]) > 1 /\ l[k + 1] = Above(l[k])
                            /\ Len(m[k + d]) > 1 /\ m[k + d + 1] = Above(m[k + d])
  <2> SUFFICES ASSUME NEW k \in 1 .. n - 1
               PROVE  /\ Len(l[k]) > 1 /\ l[k + 1] = Above(l[k])
                      /\ Len(m[k + d]) > 1 /\ m[k + d + 1] = Above(m[k + d])
    OBVIOUS
  <2>1. k + d \in 1 .. Len(m) - 1
    BY <1>1, <1>2
  <2> QED BY <1>1, <2>1 DEF Tree
<1> HIDE DEF n
<1> DEFINE S == {i \in 0 .. n - 1 : l[n - i] = m[(n - i) + d]}
<1>7. 0 \in S
  <2>1. n - 0 = n /\ 0 \in 0 .. n - 1
    BY <1>1
  <2> QED BY <1>5, <2>1
<1>8. ASSUME NEW i \in 1 .. n - 1, i - 1 \in S PROVE i \in S
  <2> DEFINE k == n - i
  <2>1. /\ k \in 1 .. n - 1 /\ k \in 1 .. n /\ n - (i - 1) = k + 1 /\ (k + 1) + d = k + d + 1
        /\ i \in 0 .. n - 1
    BY <1>1, <1>2
  <2>2. l[k + 1] = m[k + d + 1]
    BY <1>8, <2>1
  <2> HIDE DEF k
  <2>3. l[k] = m[k + d]
    BY <1>3, <1>6, <2>1, <2>2, SameBelow
  <2> QED BY <2>1, <2>3 DEF k
<1> HIDE DEF S
<1>9. n - 1 \in S
  <2>1. n - 1 \in Nat
    BY <1>1
  <2>2. 0 .. n - 1 \subseteq S
    BY <1>7, <1>8, <2>1, Along
  <2> QED BY <2>1, <2>2
<1>10. l[1] = m[1 + d]
  <2>1. n - (n - 1) = 1
    BY <1>1
  <2> QED BY <1>9, <2>1 DEF S
<1>11. 1 + d = Len(m) - n + 1 /\ l[1] = a
  BY <1>1, <1>2 DEF Tree
<1> QED BY <1>10, <1>11 DEF l, m, n

LEMMA OneListOfLeaves ==
  ASSUME NEW a, IsRow(a), Distinct(a), NEW b, IsRow(b), Distinct(b),
         \A x \in ToSet(a) : Len(x) = 1,
         MerkleRoot(a) = MerkleRoot(b), Len(Layers(a)) <= Len(Layers(b))
  PROVE  a = b
<1> DEFINE m == Layers(b)
           n == Len(Layers(a))
           k == Len(m) - n + 1
<1>1. Tree(m, b) /\ Len(m) \in Nat \ {0} /\ n \in Nat \ {0}
  BY LayersAre, RowIs DEF Tree
<1>2. a = m[k]
  BY SameFromTop
<1>3. k \in 1 .. Len(m)
  <2> DEFINE q == Len(m)
  <2>1. q \in Nat \ {0} /\ n \in Nat \ {0} /\ n <= q
    BY <1>1
  <2> HIDE DEF q, n
  <2> QED BY <2>1 DEF q
<1> HIDE DEF k, m
<1>4. ASSUME k # 1 PROVE FALSE
  <2>1. \A i \in 1 .. Len(m[k]) : Len(m[k][i]) = 2
    BY <1>3, <1>4, NodesArePairs DEF m
  <2>2. 1 \in 1 .. Len(a) /\ a[1] \in ToSet(a)
    BY RowIs
  <2>3. Len(a[1]) = 1 /\ Len(a[1]) = 2
    BY <1>2, <2>1, <2>2
  <2> QED BY ONLY <2>3
<1>5. m[1] = b
  BY <1>1 DEF Tree
<1> QED BY <1>2, <1>4, <1>5

\* Two lists of hashes of one thing each, without a repeat, have two roots.
LEMMA RootIsOfOneList ==
  ASSUME NEW a, NEW b, a \in Seq(ToSet(a)), b \in Seq(ToSet(b)), NoRepeat(a), NoRepeat(b),
         \A x \in ToSet(a) : Len(x) = 1, \A x \in ToSet(b) : Len(x) = 1,
         MerkleRoot(a) = MerkleRoot(b)
  PROVE  a = b
<1>1. ASSUME NEW c, IsRow(c), NoRepeat(c) PROVE Distinct(c)
  BY <1>1, RowIs DEF NoRepeat, IsInjective, Distinct
<1>2. ASSUME NEW c, IsRow(c), \A x \in ToSet(c) : Len(x) = 1 PROVE MerkleRoot(c) # Zero
  <2> DEFINE l == Layers(c)
             n == Len(l)
  <2>1. n \in Nat \ {0} /\ l[1] = c /\ Len(l[n]) = 1
    BY <1>2, LayersAre, RowIs DEF Tree
  <2>2. MerkleRoot(c) = l[n][1]
    BY <1>2 DEF IsRow, MerkleRoot, Last
  <2>3. n \in 1 .. n /\ 1 \in 1 .. Len(l[n])
    BY <2>1
  <2>4. CASE n = 1
    <3>1. 1 \in 1 .. Len(c) /\ c[1] \in ToSet(c)
      BY <1>2, RowIs
    <3>2. Len(MerkleRoot(c)) = 1
      BY <1>2, <2>1, <2>2, <2>4, <3>1
    <3> QED BY <3>2 DEF Zero
  <2>5. CASE n # 1
    <3>1. \A i \in 1 .. Len(l[n]) : Len(l[n][i]) = 2
      BY <1>2, <2>3, <2>5, NodesArePairs
    <3> HIDE DEF l, n
    <3>2. Len(MerkleRoot(c)) = 2
      BY <2>2, <2>3, <3>1
    <3>3. Len(Zero) = 0
      BY DEF Zero
    <3>4. ASSUME MerkleRoot(c) = Zero PROVE FALSE
      <4>1. Len(MerkleRoot(c)) = 0
        BY <3>3, <3>4
      <4> QED BY <3>2, <4>1
    <3> QED BY <3>4
  <2> QED BY <2>4, <2>5
<1>3. MerkleRoot(<<>>) = Zero
  BY DEF MerkleRoot
<1>4. CASE a = <<>> \/ b = <<>>
  BY <1>2, <1>3, <1>4 DEF IsRow
<1>5. CASE a # <<>> /\ b # <<>>
  <2>1. IsRow(a) /\ IsRow(b) /\ Distinct(a) /\ Distinct(b)
    BY <1>1, <1>5 DEF IsRow
  <2>2. Len(Layers(a)) \in Nat /\ Len(Layers(b)) \in Nat
    BY <2>1, LayersAre, RowIs DEF Tree
  <2>3. Len(Layers(a)) <= Len(Layers(b)) \/ Len(Layers(b)) <= Len(Layers(a))
    BY <2>2
  <2> QED BY <2>1, <2>3, OneListOfLeaves
<1> QED BY <1>4, <1>5

\* A contribution is shown to be in a block from its list's root and its proof.
LEMMA InclusionIs ==
  ASSUME NEW proofs, proofs \in Seq(ToSet(proofs)), NEW c, NEW root
  PROVE  VerifyInclusion(c, root, proofs) <=>
           /\ ComputeRoot(proofs) = root
           /\ \E i \in DOMAIN proofs : ProofHash(proofs[i]) = ProofHash(c)
<1> DEFINE leaves == ProofLeaves(proofs)
           places == {i \in DOMAIN proofs : ProofHash(proofs[i]) = ProofHash(c)}
           first == CHOOSE i \in places : \A j \in places : i <= j
<1>1. VerifyInclusion(c, root, proofs) <=>
        places # {} /\ MerkleVerify(ProofHash(c), MerkleProof(leaves, first), root)
  BY DEF VerifyInclusion
<1>2. Len(proofs) \in Nat /\ DOMAIN proofs = 1 .. Len(proofs)
  BY LenProperties
<1>3. ASSUME places # {}
      PROVE  MerkleVerify(ProofHash(c), MerkleProof(leaves, first), root) <=> root = ComputeRoot(proofs)
  <2>1. PICK m \in places : \A j \in places : m <= j
    <3>1. places \in SUBSET Nat
      BY <1>2
    <3> HIDE DEF places
    <3> QED BY <1>3, <3>1, LeastOf
  <2>2. first \in places
    BY <2>1
  <2> HIDE DEF first
  <2>3. first \in 1 .. Len(proofs) /\ ProofHash(proofs[first]) = ProofHash(c)
    BY <1>2, <2>2
  <2>4. /\ DOMAIN leaves = 1 .. Len(proofs)
        /\ leaves = [i \in 1 .. Len(proofs) |-> leaves[i]]
        /\ leaves[first] = ProofHash(c)
    BY <1>2, <2>3 DEF ProofLeaves
  <2>5. Len(proofs) \in Nat \ {0}
    BY <1>2, <2>3
  <2>6. ComputeRoot(proofs) = MerkleRoot(leaves)
    BY DEF ComputeRoot
  <2> HIDE DEF leaves
  <2>7. IsRow(leaves) /\ Len(leaves) = Len(proofs)
    BY <2>4, <2>5, MakeRow
  <2>8. MerkleVerify(leaves[first], MerkleProof(leaves, first), root) <=> root = MerkleRoot(leaves)
    BY <2>3, <2>7, VerifyIs
  <2> QED BY <2>4, <2>6, <2>8
<1>4. places # {} <=> \E i \in DOMAIN proofs : ProofHash(proofs[i]) = ProofHash(c)
  OBVIOUS
<1> HIDE DEF places, first
<1> QED BY <1>1, <1>3, <1>4

LEMMA InclusionHolds == ASSUME EncodingHypothesis PROVE InclusionInv
<1> DEFINE root == block.header.computeRoot
<1> HIDE DEF root
<1> SUFFICES ASSUME NEW proofs \in ProofLists, NEW c
             PROVE  VerifyInclusion(c, root, proofs) <=>
                      /\ ComputeRoot(proofs) = root
                      /\ \E i \in DOMAIN proofs : ProofHash(proofs[i]) = ProofHash(c)
  BY DEF InclusionInv, root
<1>1. proofs \in Seq(ToSet(proofs))
  <2>1. IsList(proofs)
    BY DEF EncodingHypothesis
  <2> QED BY <2>1 DEF IsList
<1> QED BY <1>1, InclusionIs

\* Two lists of the hashes of single things.
TreesInv == \A i \in 1 .. 2 : /\ trees[i] \in Seq(ToSet(trees[i]))
                              /\ \A leaf \in ToSet(trees[i]) : Len(leaf) = 1

LEMMA MerkleHolds == ASSUME TreesInv PROVE MerkleInv
<1>1. /\ trees[1] \in Seq(ToSet(trees[1])) /\ \A leaf \in ToSet(trees[1]) : Len(leaf) = 1
      /\ trees[2] \in Seq(ToSet(trees[2])) /\ \A leaf \in ToSet(trees[2]) : Len(leaf) = 1
  BY DEF TreesInv
<1>2. ASSUME NEW i \in DOMAIN trees[1], NEW leaf
      PROVE  MerkleVerify(leaf, MerkleProof(trees[1], i), MerkleRoot(trees[1])) <=> leaf = trees[1][i]
  <2> DEFINE leaves == trees[1]
  <2>1. leaves \in Seq(ToSet(leaves))
    BY <1>1
  <2> HIDE DEF leaves
  <2>2. DOMAIN leaves = 1 .. Len(leaves) /\ Len(leaves) \in Nat
    BY <2>1, LenProperties
  <2>3. i \in 1 .. Len(leaves)
    BY <2>2 DEF leaves
  <2>4. IsRow(leaves)
    <3>1. DOMAIN (<<>>) = {}
      OBVIOUS
    <3> QED BY <2>1, <2>2, <2>3, <3>1 DEF IsRow
  <2>5. MerkleVerify(leaf, MerkleProof(leaves, i), MerkleRoot(leaves)) <=> leaf = leaves[i]
    BY <2>3, <2>4, VerifyIs
  <2> QED BY <2>5 DEF leaves
<1>3. ASSUME NoRepeat(trees[1]), NoRepeat(trees[2]), MerkleRoot(trees[1]) = MerkleRoot(trees[2])
      PROVE  trees[1] = trees[2]
  BY <1>1, <1>3, RootIsOfOneList
<1> QED BY <1>2, <1>3 DEF MerkleInv

\* A frame is the signed message's, or differs from it in a field.
Signed(m) ==
  /\ DOMAIN m = {"type", "payload", "timestamp", "signature"}
  /\ m = [type |-> m.type, payload |-> m.payload, timestamp |-> 1,
          signature |-> <<Head(Magics), m.type, m.payload, 1>>]
  /\ m.type \in 1 .. Types /\ Len(m.payload) \in 0 .. MaxPayload

SealInv == Signed(message) /\ frame.signature = message.signature

LEMMA SentIsSigned ==
  ASSUME NEW p, Len(p) \in 0 .. MaxPayload, NEW type \in 1 .. Types
  PROVE  Signed(Sent(p, type))
BY DEF Signed, Sent, Sealed, SignatureOf

LEMMA FrameHolds == ASSUME EncodingHypothesis, SealInv PROVE FrameInv
<1>1. /\ message = [type |-> message.type, payload |-> message.payload, timestamp |-> 1,
                    signature |-> <<Head(Magics), message.type, message.payload, 1>>]
      /\ message.type \in 1 .. Types /\ Len(message.payload) \in 0 .. MaxPayload
      /\ frame.signature = message.signature
  BY DEF SealInv, Signed
<1>2. /\ message.timestamp = 1
      /\ message.signature = <<Head(Magics), message.type, message.payload, 1>>
  BY <1>1
<1>3. ASSUME Authentic(DecodedMessage(frame), Head(Magics), 1) PROVE DecodedMessage(frame) = message
  <2>1. frame.signature = <<Head(Magics), frame.code, frame.payload, frame.timestamp>>
    BY <1>3 DEF Authentic, DecodedMessage, SignatureOf
  <2>2. /\ frame.code = message.type /\ frame.payload = message.payload
        /\ frame.timestamp = 1 /\ frame.signature = message.signature
    BY <1>1, <1>2, <2>1
  <2>3. DecodedMessage(frame) = [type |-> message.type, payload |-> message.payload, timestamp |-> 1,
                                 signature |-> message.signature]
    BY <2>2 DEF DecodedMessage
  <2> QED BY <1>1, <1>2, <2>3
<1>4. ASSUME frame = FrameOf(message, Head(Magics))
      PROVE  /\ Decodes(frame, Head(Magics))
             /\ Authentic(DecodedMessage(frame), Head(Magics), 1)
  <2>1. Fresh[1] \in Nat /\ Fresh[2] \in Nat /\ MaxPayload \in Nat
    BY DEF EncodingHypothesis
  <2>2. /\ frame.magic = Head(Magics) /\ frame.version = 1 /\ frame.reserved = 0
        /\ frame.code = message.type /\ frame.length = Len(message.payload)
        /\ frame.sum = message.payload /\ frame.payload = message.payload /\ frame.timestamp = 1
    BY <1>2, <1>4 DEF FrameOf
  <2>3. Decodes(frame, Head(Magics))
    BY <1>1, <2>1, <2>2 DEF Decodes
  <2>4. Authentic(DecodedMessage(frame), Head(Magics), 1)
    BY <1>1, <1>2, <2>1, <2>2 DEF Authentic, DecodedMessage, SignatureOf
  <2> QED BY <2>3, <2>4
<1> QED BY <1>3, <1>4 DEF FrameInv

LEMMA EncodingStarts == ASSUME EncodingHypothesis, EncodingInit PROVE TreesInv /\ SealInv
<1>1. TreesInv
  <2>1. CASE trees = <<<<>>, <<>>>>
    <3>1. <<>> \in Seq(ToSet(<<>>)) /\ ToSet(<<>>) = {}
      BY DEF ToSet
    <3>2. trees[1] = <<>> /\ trees[2] = <<>> /\ \A i \in 1 .. 2 : i = 1 \/ i = 2
      BY <2>1
    <3> QED BY <3>1, <3>2 DEF TreesInv
  <2>2. CASE trees \in Leaves \X Leaves
    <3>1. trees[1] \in Leaves /\ trees[2] \in Leaves /\ \A i \in 1 .. 2 : i = 1 \/ i = 2
      BY <2>2
    <3>2. \A list \in Leaves : IsList(list) /\ \A leaf \in ToSet(list) : Len(leaf) = 1
      BY DEF EncodingHypothesis
    <3> QED BY <3>1, <3>2 DEF TreesInv, IsList
  <2> QED BY <2>1, <2>2 DEF EncodingInit
<1>2. Signed(message)
  <2>1. CASE message = Sent(<<>>, 1)
    <3>1. Len(<<>>) \in 0 .. MaxPayload /\ 1 \in 1 .. Types
      BY DEF EncodingHypothesis
    <3>2. Signed(Sent(<<>>, 1))
      BY <3>1, SentIsSigned
    <3> QED BY <2>1, <3>2
  <2>2. CASE \E p \in Payloads, type \in 1 .. Types : message = Sent(p, type)
    <3>1. PICK p \in Payloads, type \in 1 .. Types : message = Sent(p, type)
      BY <2>2
    <3>2. Signed(Sent(p, type))
      BY SentIsSigned DEF EncodingHypothesis
    <3> QED BY <3>1, <3>2
  <2> QED BY <2>1, <2>2 DEF EncodingInit
<1>3. frame = FrameOf(message, Head(Magics))
  BY DEF EncodingInit
<1> QED BY <1>1, <1>2, <1>3 DEF SealInv, FrameOf

LEMMA EncodingKeeps ==
  ASSUME TreesInv, SealInv, [EncodingNext]_encodingVars PROVE TreesInv' /\ SealInv'
<1>1. trees' = trees /\ message' = message /\ frame'.signature = frame.signature
  <2>1. CASE Truncate
    BY <2>1 DEF Truncate
  <2>2. CASE Alter
    BY <2>2 DEF Alter, Whole, FrameOf
  <2>3. CASE UNCHANGED encodingVars
    BY <2>3 DEF encodingVars
  <2> QED BY <2>1, <2>2, <2>3 DEF EncodingNext
<1> QED BY <1>1 DEF TreesInv, SealInv, Signed

(* Encodings: lists, and buffers that agree with one                          *)

LEMMA ListIs ==
  ASSUME NEW s, IsList(s)
  PROVE  Len(s) \in Nat /\ DOMAIN s = 1 .. Len(s) /\ s = [i \in 1 .. Len(s) |-> s[i]]
<1>1. s \in Seq(ToSet(s))
  BY DEF IsList
<1> QED BY <1>1, LenProperties

LEMMA MakeList ==
  ASSUME NEW n \in Nat, NEW s, DOMAIN s = 1 .. n, s = [i \in 1 .. n |-> s[i]]
  PROVE  IsList(s) /\ Len(s) = n
<1>1. \A i \in 1 .. n : s[i] \in ToSet(s)
  BY DEF ToSet
<1>2. s \in Seq(ToSet(s))
  BY <1>1, SeqDef
<1> QED BY <1>2, LenProperties DEF IsList

LEMMA ListOf == ASSUME NEW W, NEW s \in Seq(W) PROVE IsList(s)
<1>1. Len(s) \in Nat /\ DOMAIN s = 1 .. Len(s) /\ s = [i \in 1 .. Len(s) |-> s[i]]
  BY LenProperties
<1> QED BY <1>1, MakeList

LEMMA JoinIs ==
  ASSUME NEW s, IsList(s), NEW t, IsList(t)
  PROVE  /\ IsList(s \o t) /\ Len(s \o t) = Len(s) + Len(t)
         /\ \A i \in 1 .. Len(s) : (s \o t)[i] = s[i]
         /\ \A i \in 1 .. Len(t) : (s \o t)[Len(s) + i] = t[i]
<1> DEFINE W == ToSet(s) \cup ToSet(t)
<1>1. s \in Seq(W) /\ t \in Seq(W)
  BY DEF IsList
<1> HIDE DEF W
<1>2. s \o t \in Seq(W) /\ Len(s \o t) = Len(s) + Len(t)
  BY <1>1, ConcatProperties
<1>3. \A i \in 1 .. Len(s) + Len(t) : (s \o t)[i] = IF i <= Len(s) THEN s[i] ELSE t[i - Len(s)]
  BY <1>1, ConcatProperties
<1>4. Len(s) \in Nat /\ Len(t) \in Nat
  BY ListIs
<1>5. \A i \in 1 .. Len(s) : (s \o t)[i] = s[i]
  BY <1>3, <1>4
<1>6. ASSUME NEW i \in 1 .. Len(t) PROVE (s \o t)[Len(s) + i] = t[i]
  <2>1. Len(s) + i \in 1 .. Len(s) + Len(t) /\ ~ (Len(s) + i <= Len(s)) /\ (Len(s) + i) - Len(s) = i
    BY <1>4
  <2> QED BY <1>3, <2>1
<1> QED BY <1>2, <1>5, <1>6, ListOf

\* Three, four or five lists, one after another.
ThreeLists(a, b, c) == IsList(a) /\ IsList(b) /\ IsList(c)

FourLists(a, b, c, d) == ThreeLists(a, b, c) /\ IsList(d)

FiveLists(a, b, c, d, e) == FourLists(a, b, c, d) /\ IsList(e)

FourJoined(a, b, c, d) ==
  /\ ((a \o b) \o c) \o d = a \o (b \o (c \o d))
  /\ IsList(c \o d) /\ IsList(b \o (c \o d)) /\ IsList(a \o (b \o (c \o d)))

FiveJoined(a, b, c, d, e) ==
  /\ (((a \o b) \o c) \o d) \o e = a \o (b \o (c \o (d \o e)))
  /\ IsList(d \o e) /\ IsList(c \o (d \o e)) /\ IsList(b \o (c \o (d \o e)))
  /\ IsList(a \o (b \o (c \o (d \o e))))

LEMMA JoinThree ==
  ASSUME NEW s, NEW t, NEW u, ThreeLists(s, t, u)
  PROVE  (s \o t) \o u = s \o (t \o u)
<1> DEFINE W == ToSet(s) \cup ToSet(t) \cup ToSet(u)
<1>1. s \in Seq(W) /\ t \in Seq(W) /\ u \in Seq(W)
  BY DEF IsList, ThreeLists
<1> HIDE DEF W
<1> QED BY <1>1, ConcatAssociative

LEMMA ChainThree ==
  ASSUME NEW a, IsList(a), NEW b, IsList(b), NEW c, IsList(c)
  PROVE  (a \o b) \o c = a \o (b \o c) /\ IsList(b \o c) /\ IsList(a \o (b \o c))
<1>1. IsList(b \o c)
  BY JoinIs
<1>2. IsList(a \o (b \o c))
  BY <1>1, JoinIs
<1>3. (a \o b) \o c = a \o (b \o c)
  <2>1. ThreeLists(a, b, c)
    BY DEF ThreeLists
  <2> QED BY ONLY <2>1, JoinThree
<1> QED BY <1>1, <1>2, <1>3

LEMMA ChainFour ==
  ASSUME NEW a, NEW b, NEW c, NEW d, FourLists(a, b, c, d)
  PROVE  FourJoined(a, b, c, d)
<1> DEFINE ab == a \o b
           cd == c \o d
<1>1. IsList(a) /\ IsList(b) /\ IsList(c) /\ IsList(d)
  BY DEF FourLists, ThreeLists
<1>2. IsList(ab) /\ IsList(cd)
  BY <1>1, JoinIs
<1>3. (a \o b) \o cd = a \o (b \o cd) /\ IsList(b \o cd) /\ IsList(a \o (b \o cd))
  <2> HIDE DEF cd
  <2> QED BY ONLY <1>1, <1>2, ChainThree
<1>4. (ab \o c) \o d = ab \o (c \o d)
  <2> HIDE DEF ab
  <2>1. ThreeLists(ab, c, d)
    BY <1>1, <1>2 DEF ThreeLists
  <2> QED BY ONLY <2>1, JoinThree
<1> QED BY ONLY <1>2, <1>3, <1>4 DEF FourJoined

LEMMA ChainFive ==
  ASSUME NEW a, NEW b, NEW c, NEW d, NEW e, FiveLists(a, b, c, d, e)
  PROVE  FiveJoined(a, b, c, d, e)
<1> DEFINE ab == a \o b
           de == d \o e
<1>1. IsList(a) /\ IsList(b) /\ IsList(c) /\ IsList(d) /\ IsList(e)
  BY DEF FiveLists, FourLists, ThreeLists
<1>2. IsList(ab) /\ IsList(de)
  BY <1>1, JoinIs
<1>3. FourJoined(a, b, c, de)
  <2> HIDE DEF de
  <2>1. FourLists(a, b, c, de)
    BY <1>1, <1>2 DEF FourLists, ThreeLists
  <2> QED BY ONLY <2>1, ChainFour
<1>4. FourJoined(ab, c, d, e)
  <2> HIDE DEF ab
  <2>1. FourLists(ab, c, d, e)
    BY <1>1, <1>2 DEF FourLists, ThreeLists
  <2> QED BY ONLY <2>1, ChainFour
<1>5. ((ab \o c) \o d) \o e = ab \o (c \o de)
  BY ONLY <1>4 DEF FourJoined
<1>6. /\ (ab \o c) \o de = a \o (b \o (c \o de))
      /\ IsList(c \o de) /\ IsList(b \o (c \o de)) /\ IsList(a \o (b \o (c \o de)))
  BY ONLY <1>3 DEF FourJoined
<1>7. (ab \o c) \o de = ab \o (c \o de)
  <2> HIDE DEF ab, de
  <2>1. ThreeLists(ab, c, de)
    BY <1>1, <1>2 DEF ThreeLists
  <2> QED BY ONLY <2>1, JoinThree
<1> QED BY ONLY <1>2, <1>5, <1>6, <1>7 DEF FiveJoined

LEMMA OneIsList == \A x : IsList(<<x>>) /\ Len(<<x>>) = 1 /\ <<x>>[1] = x
<1> SUFFICES ASSUME NEW x PROVE IsList(<<x>>) /\ Len(<<x>>) = 1 /\ <<x>>[1] = x
  OBVIOUS
<1>1. <<x>> \in Seq({x})
  OBVIOUS
<1> QED BY <1>1, ListOf

LEMMA TwoIsList == \A x, y : IsList(<<x, y>>) /\ Len(<<x, y>>) = 2
<1> SUFFICES ASSUME NEW x, NEW y PROVE IsList(<<x, y>>) /\ Len(<<x, y>>) = 2
  OBVIOUS
<1>1. <<x, y>> \in Seq({x, y})
  OBVIOUS
<1> QED BY <1>1, ListOf

LEMMA SameList ==
  ASSUME NEW s, IsList(s), NEW t, IsList(t), Len(s) = Len(t), \A i \in 1 .. Len(s) : s[i] = t[i]
  PROVE  s = t
BY ListIs

\* From a position on, a buffer is a list, as far as the buffer goes.
Agrees(buf, at, e) ==
  /\ IsList(buf) /\ IsList(e) /\ at \in Nat \ {0} /\ at <= Len(buf) + 1
  /\ \A i \in 1 .. Len(e) : at + i <= Len(buf) + 1 => buf[at + i - 1] = e[i]

\* What reading it should give.
Outcome(buf, at, e, x) ==
  IF at + Len(e) <= Len(buf) + 1 THEN Read(at + Len(e), x) ELSE Fail

LEMMA OutcomeIs ==
  ASSUME NEW buf, NEW at, NEW e, NEW x
  PROVE  /\ at + Len(e) <= Len(buf) + 1 =>
              /\ Outcome(buf, at, e, x).ok
              /\ Outcome(buf, at, e, x).at = at + Len(e)
              /\ Outcome(buf, at, e, x).val = x
         /\ ~ (at + Len(e) <= Len(buf) + 1) =>
              ~ Outcome(buf, at, e, x).ok /\ Outcome(buf, at, e, x) = Fail
BY DEF Outcome, Read, Fail

LEMMA SplitAgrees ==
  ASSUME NEW buf, NEW at, NEW e, IsList(e), NEW f, IsList(f), Agrees(buf, at, e \o f)
  PROVE  /\ Agrees(buf, at, e)
         /\ at + Len(e) <= Len(buf) + 1 => Agrees(buf, at + Len(e), f)
<1>1. /\ Len(e \o f) = Len(e) + Len(f) /\ Len(e) \in Nat /\ Len(f) \in Nat /\ Len(buf) \in Nat
      /\ \A i \in 1 .. Len(e) : (e \o f)[i] = e[i]
      /\ \A i \in 1 .. Len(f) : (e \o f)[Len(e) + i] = f[i]
  <2>1. IsList(buf)
    BY DEF Agrees
  <2>2. Len(e) \in Nat /\ Len(f) \in Nat /\ Len(buf) \in Nat
    BY <2>1, ListIs
  <2> QED BY <2>2, JoinIs
<1>2. /\ IsList(buf) /\ at \in Nat \ {0} /\ at <= Len(buf) + 1
      /\ \A i \in 1 .. Len(e) + Len(f) : at + i <= Len(buf) + 1 => buf[at + i - 1] = (e \o f)[i]
  BY <1>1 DEF Agrees
<1>3. Agrees(buf, at, e)
  <2>1. \A i \in 1 .. Len(e) : i \in 1 .. Len(e) + Len(f)
    BY <1>1
  <2> QED BY <1>1, <1>2, <2>1 DEF Agrees
<1>4. ASSUME at + Len(e) <= Len(buf) + 1 PROVE Agrees(buf, at + Len(e), f)
  <2>1. ASSUME NEW i \in 1 .. Len(f), (at + Len(e)) + i <= Len(buf) + 1
        PROVE  buf[(at + Len(e)) + i - 1] = f[i]
    <3>1. Len(e) + i \in 1 .. Len(e) + Len(f) /\ at + (Len(e) + i) = (at + Len(e)) + i
          /\ (at + Len(e)) + i - 1 = at + (Len(e) + i) - 1
      BY <1>1, <1>2
    <3>2. buf[at + (Len(e) + i) - 1] = (e \o f)[Len(e) + i]
      BY <1>2, <2>1, <3>1
    <3> QED BY <1>1, <3>1, <3>2
  <2>2. at + Len(e) \in Nat \ {0}
    BY <1>1, <1>2
  <2> QED BY <1>2, <1>4, <2>1, <2>2 DEF Agrees
<1> QED BY <1>3, <1>4

\* One reader after another.
Then(r, next) == IF r.ok THEN next ELSE Fail

LEMMA ThenReads ==
  ASSUME NEW buf, NEW at, NEW e, IsList(e), NEW f, IsList(f), Agrees(buf, at, e \o f),
         NEW r, NEW v, r = Outcome(buf, at, e, v),
         NEW next, NEW x, Agrees(buf, at + Len(e), f) /\ r.val = v /\ r.at = at + Len(e)
                            => next = Outcome(buf, at + Len(e), f, x)
  PROVE  Then(r, next) = Outcome(buf, at, e \o f, x)
<1>1. /\ Len(e \o f) = Len(e) + Len(f) /\ Len(e) \in Nat /\ Len(f) \in Nat
      /\ Len(buf) \in Nat /\ at \in Nat
  BY JoinIs, ListIs DEF Agrees
<1>2. CASE at + Len(e) <= Len(buf) + 1
  <2>1. r.ok /\ r.val = v /\ r.at = at + Len(e)
    BY <1>2, OutcomeIs
  <2>2. Agrees(buf, at + Len(e), f)
    BY <1>2, SplitAgrees
  <2>3. next = Outcome(buf, at + Len(e), f, x)
    BY <2>1, <2>2
  <2>4. (at + Len(e)) + Len(f) = at + Len(e \o f)
    BY <1>1
  <2> QED BY <2>1, <2>3, <2>4 DEF Outcome, Then
<1>3. CASE ~ (at + Len(e) <= Len(buf) + 1)
  <2>1. ~ r.ok
    BY <1>3, OutcomeIs
  <2>2. ~ (at + Len(e \o f) <= Len(buf) + 1)
    BY <1>1, <1>3
  <2> QED BY <2>1, <2>2 DEF Outcome, Then
<1> QED BY <1>2, <1>3

LEMMA WordReads ==
  ASSUME NEW buf, NEW at, NEW x, Agrees(buf, at, <<x>>)
  PROVE  Word(buf, at) = Outcome(buf, at, <<x>>, x)
<1>1. Len(<<x>>) = 1 /\ <<x>>[1] = x /\ at \in Nat /\ Len(buf) \in Nat
  BY OneIsList, ListIs DEF Agrees
<1>2. at + 1 <= Len(buf) + 1 => buf[at + 1 - 1] = x
  BY <1>1 DEF Agrees
<1>3. at + 1 - 1 = at /\ (at + 1 <= Len(buf) + 1 <=> at <= Len(buf))
  BY <1>1
<1> QED BY <1>1, <1>2, <1>3 DEF Word, Outcome

LEMMA RawReads ==
  ASSUME NEW buf, NEW at, NEW e, Agrees(buf, at, e), NEW n, n = Len(e)
  PROVE  Raw(buf, n, at) = Outcome(buf, at, e, e)
<1>1. /\ n \in Nat /\ at \in Nat \ {0} /\ Len(buf) \in Nat /\ IsList(e) /\ IsList(buf)
      /\ DOMAIN e = 1 .. n
  BY ListIs DEF Agrees
<1>2. at + n - 1 <= Len(buf) <=> at + Len(e) <= Len(buf) + 1
  BY <1>1
<1>3. ASSUME at + n - 1 <= Len(buf) PROVE SubSeq(buf, at, at + n - 1) = e
  <2> DEFINE s == SubSeq(buf, at, at + n - 1)
  <2>1. buf \in Seq(ToSet(buf)) /\ at \in 1 .. Len(buf) + 1 /\ at + n - 1 \in at - 1 .. Len(buf)
        /\ (at + n - 1) - at + 1 = n
    BY <1>1, <1>3 DEF IsList, Agrees
  <2>2. /\ s \in Seq(ToSet(buf)) /\ Len(s) = n
        /\ \A i \in 1 .. n : s[i] = buf[at + i - 1]
    BY <2>1, SubSeqProperties
  <2> HIDE DEF s
  <2>3. IsList(s)
    BY <2>2, ListOf
  <2>4. \A i \in 1 .. n : s[i] = e[i]
    BY <1>1, <1>3, <2>2 DEF Agrees
  <2>5. s = e
    BY <1>1, <2>2, <2>3, <2>4, SameList
  <2> QED BY <2>5 DEF s
<1> QED BY <1>2, <1>3 DEF Raw, Outcome

\* A last reader that gives what another gives.
LEMMA ThenGives ==
  ASSUME NEW buf, NEW at, NEW e, NEW r, NEW v, r = Outcome(buf, at, e, v),
         NEW next, NEW x, at + Len(e) <= Len(buf) + 1 /\ r.val = v /\ r.at = at + Len(e)
                            => next = Read(at + Len(e), x)
  PROVE  Then(r, next) = Outcome(buf, at, e, x)
<1>1. CASE at + Len(e) <= Len(buf) + 1
  BY <1>1, OutcomeIs DEF Outcome, Then
<1>2. CASE ~ (at + Len(e) <= Len(buf) + 1)
  BY <1>2, OutcomeIs DEF Outcome, Then
<1> QED BY <1>1, <1>2

(* Encodings: numbers and strings                                             *)

LEMMA DivisionIs ==
  ASSUME NEW n \in Nat, NEW b \in Nat \ {0}
  PROVE  n \div b \in Nat /\ n % b \in Nat /\ n = b * (n \div b) + (n % b) /\ n % b < b
<1>1. n \div b \in Nat /\ n % b \in Nat /\ n % b < b
  OBVIOUS
<1>2. n = b * (n \div b) + (n % b)
  OBVIOUS
<1> QED BY <1>1, <1>2

LEMMA DivisionTwice ==
  ASSUME NEW n \in Nat, NEW b \in Nat \ {0}, NEW c \in Nat \ {0}
  PROVE  n \div (b * c) = (n \div b) \div c
<1> DEFINE q == n \div b
           p == q \div c
           r == n % b
           s == q % c
           d == b * c
<1>1. q \in Nat /\ r \in Nat /\ n = b * q + r /\ r < b
  BY DivisionIs
<1>2. p \in Nat /\ s \in Nat /\ q = c * p + s /\ s < c
  BY <1>1, DivisionIs
<1>3. d \in Nat \ {0}
  OBVIOUS
<1> DEFINE t == n \div d
           u == n % d
<1>4. t \in Nat /\ u \in Nat /\ n = d * t + u /\ u < d
  BY <1>3, DivisionIs
<1> HIDE DEF q, p, r, s, t, u
<1>5. n = d * p + (b * s + r)
  BY <1>1, <1>2
<1>6. b * s + r \in Nat /\ b * s + r < d
  BY <1>1, <1>2
<1> DEFINE w == b * s + r
<1>7. n = d * p + w /\ w \in Nat /\ w < d
  BY <1>5, <1>6
<1> HIDE DEF d, w
<1>8. t = p
  BY <1>2, <1>3, <1>4, <1>7
<1> QED BY <1>8 DEF t, p, q, d
LEMMA Apart ==
  /\ \A a, b, c : <<a, b, c>> = <<a>> \o <<b, c>>
  /\ \A a, b, c, d, e : <<a, b, c, d, e>> = <<a>> \o <<b, c, d, e>>
  /\ \A b, c, d, e : IsList(<<b, c, d, e>>) /\ Len(<<b, c, d, e>>) = 4
<1>1. ASSUME NEW a, NEW b, NEW c PROVE <<a, b, c>> = <<a>> \o <<b, c>>
  OBVIOUS
<1>2. ASSUME NEW a, NEW b, NEW c, NEW d, NEW e PROVE <<a, b, c, d, e>> = <<a>> \o <<b, c, d, e>>
  OBVIOUS
<1>3. ASSUME NEW b, NEW c, NEW d, NEW e PROVE IsList(<<b, c, d, e>>) /\ Len(<<b, c, d, e>>) = 4
  <2>1. <<b, c, d, e>> \in Seq({b, c, d, e})
    OBVIOUS
  <2> QED BY <2>1, ListOf
<1> QED BY <1>1, <1>2, <1>3

\* A number is read back from its digits.
LEMMA DigitsAre ==
  ASSUME Base \in Nat \ {0}, NEW n \in Nat
  PROVE  /\ (n % Base) + Base * (n \div Base) = n
         /\ (n % Base) + Base * (((n \div Base) % Base) + Base * (((n \div (Base * Base)) % Base)
              + Base * (n \div (Base * Base * Base)))) = n
<1> DEFINE q == n \div Base
           p == q \div Base
           o == p \div Base
<1>1. q \in Nat /\ n % Base \in Nat /\ n = Base * q + (n % Base)
  BY DivisionIs
<1>2. p \in Nat /\ q % Base \in Nat /\ q = Base * p + (q % Base)
  BY <1>1, DivisionIs
<1>3. o \in Nat /\ p % Base \in Nat /\ p = Base * o + (p % Base)
  BY <1>2, DivisionIs
<1>4. n \div (Base * Base) = p
  BY DivisionTwice
<1>5. n \div (Base * Base * Base) = o
  <2>1. Base * Base \in Nat \ {0}
    OBVIOUS
  <2>2. n \div ((Base * Base) * Base) = (n \div (Base * Base)) \div Base
    BY <2>1, DivisionTwice
  <2> QED BY <1>4, <2>2
<1> HIDE DEF q, p, o
<1>6. (n % Base) + Base * q = n /\ (q % Base) + Base * p = q /\ (p % Base) + Base * o = p
  BY <1>1, <1>2, <1>3
<1> QED BY <1>4, <1>5, <1>6 DEF q

LEMMA VarIntIsList == ASSUME Base \in Nat \ {0}, NEW n \in Nat PROVE IsList(VarInt(n))
<1>1. \A a : IsList(<<a>>)
  BY OneIsList
<1>2. \A a, b, c : IsList(<<a, b, c>>)
  BY Apart, OneIsList, TwoIsList, JoinIs
<1>3. ASSUME NEW a, NEW b, NEW c, NEW d, NEW e PROVE IsList(<<a, b, c, d, e>>)
  <2>1. <<a, b, c, d, e>> \in Seq({a, b, c, d, e})
    OBVIOUS
  <2> QED BY <2>1, ListOf
<1> QED BY <1>1, <1>2, <1>3 DEF VarInt

LEMMA VarIntReads ==
  ASSUME Base \in Nat \ {0}, NEW n \in Nat, NEW buf, NEW at, Agrees(buf, at, VarInt(n))
  PROVE  DecVarInt(buf, at) = Outcome(buf, at, VarInt(n), n)
<1> DEFINE of2(r) == Read(r.at, r.val[1] + Base * r.val[2])
           of4(r) == Read(r.at, r.val[1] + Base * (r.val[2] + Base * (r.val[3] + Base * r.val[4])))
           two(p) == Then(Raw(buf, 2, p), of2(Raw(buf, 2, p)))
           four(p) == Then(Raw(buf, 4, p), of4(Raw(buf, 4, p)))
           rest(first, p) == CASE first < Base - 3 -> Read(p, first)
                               [] first = Base - 3 -> two(p)
                               [] OTHER -> four(p)
           w == Word(buf, at)
<1>1. DecVarInt(buf, at) = Then(w, rest(w.val, w.at))
  BY DEF DecVarInt, Bind, Then
<1> HIDE DEF w, rest
<1>2. CASE n < Base - 3
  <2>1. VarInt(n) = <<n>>
    BY <1>2 DEF VarInt
  <2>2. w = Outcome(buf, at, <<n>>, n)
    BY <2>1, WordReads DEF w
  <2>3. \A p : rest(n, p) = Read(p, n)
    BY <1>2 DEF rest
  <2> QED BY <1>1, <2>1, <2>2, <2>3, ThenGives
<1>3. CASE n >= Base - 3 /\ n < Base * Base
  <2> DEFINE d == <<n % Base, n \div Base>>
             first == Base - 3
  <2>1. VarInt(n) = <<first, n % Base, n \div Base>>
    BY <1>3 DEF VarInt
  <2>2. VarInt(n) = <<first>> \o d
    BY <2>1, Apart
  <2>3. \A p : rest(first, p) = two(p)
    BY DEF rest
  <2>4. IsList(<<first>>) /\ IsList(d) /\ Len(d) = 2
    BY OneIsList, TwoIsList
  <2>5. d[1] + Base * d[2] = n
    BY DigitsAre
  <2> HIDE DEF d, first
  <2>6. ASSUME NEW p, Agrees(buf, p, d) PROVE two(p) = Outcome(buf, p, d, n)
    <3>1. Raw(buf, 2, p) = Outcome(buf, p, d, d)
      BY <2>4, <2>6, RawReads
    <3> QED BY <2>5, <3>1, ThenGives
  <2>7. Agrees(buf, at, <<first>>) /\ w = Outcome(buf, at, <<first>>, first)
    BY <2>2, <2>4, SplitAgrees, WordReads DEF w
  <2> HIDE DEF two
  <2> QED BY <1>1, <2>2, <2>3, <2>4, <2>6, <2>7, ThenReads
<1>4. CASE ~ (n < Base - 3) /\ ~ (n >= Base - 3 /\ n < Base * Base)
  <2> DEFINE d == <<n % Base, (n \div Base) % Base, (n \div (Base * Base)) % Base,
                    n \div (Base * Base * Base)>>
             first == Base - 2
  <2>1. VarInt(n) = <<first, n % Base, (n \div Base) % Base, (n \div (Base * Base)) % Base,
                      n \div (Base * Base * Base)>>
    BY <1>4 DEF VarInt
  <2>2. VarInt(n) = <<first>> \o d
    BY <2>1, Apart
  <2>3. \A p : rest(first, p) = four(p)
    <3>1. ~ (first < Base - 3) /\ first # Base - 3
      OBVIOUS
    <3> HIDE DEF four, first
    <3> QED BY <3>1 DEF rest
  <2>4. IsList(<<first>>) /\ IsList(d) /\ Len(d) = 4
    BY OneIsList, Apart
  <2>5. d[1] + Base * (d[2] + Base * (d[3] + Base * d[4])) = n
    <3>1. /\ d[1] = n % Base /\ d[2] = (n \div Base) % Base
          /\ d[3] = (n \div (Base * Base)) % Base /\ d[4] = n \div (Base * Base * Base)
      OBVIOUS
    <3> HIDE DEF d
    <3> QED BY <3>1, DigitsAre
  <2> HIDE DEF d, first
  <2>6. ASSUME NEW p, Agrees(buf, p, d) PROVE four(p) = Outcome(buf, p, d, n)
    <3>1. Raw(buf, 4, p) = Outcome(buf, p, d, d)
      BY <2>4, <2>6, RawReads
    <3> QED BY <2>5, <3>1, ThenGives
  <2>7. Agrees(buf, at, <<first>>) /\ w = Outcome(buf, at, <<first>>, first)
    BY <2>2, <2>4, SplitAgrees, WordReads DEF w
  <2> HIDE DEF four
  <2> QED BY <1>1, <2>2, <2>3, <2>4, <2>6, <2>7, ThenReads
<1> QED BY <1>2, <1>3, <1>4

LEMMA AmountReads ==
  ASSUME Half \in Nat \ {0}, NEW v \in Nat
  PROVE  /\ IsList(Amount(v))
         /\ \A buf, at : Agrees(buf, at, Amount(v)) =>
              DecAmount(buf, at) = Outcome(buf, at, Amount(v), v)
<1> DEFINE d == Amount(v)
<1>1. IsList(d) /\ Len(d) = 2
  BY TwoIsList DEF Amount
<1>2. d[2] * Half + d[1] = v
  <2>1. v \div Half \in Nat /\ v % Half \in Nat /\ v = Half * (v \div Half) + (v % Half)
    BY DivisionIs
  <2>2. d[1] = v % Half /\ d[2] = v \div Half
    BY DEF Amount
  <2> HIDE DEF d
  <2> QED BY <2>1, <2>2
<1> HIDE DEF d
<1>3. ASSUME NEW buf, NEW at, Agrees(buf, at, d) PROVE DecAmount(buf, at) = Outcome(buf, at, d, v)
  <2> DEFINE r == Raw(buf, 2, at)
  <2>1. DecAmount(buf, at) = Then(r, Read(r.at, r.val[2] * Half + r.val[1]))
    BY DEF DecAmount, Bind, Then
  <2>2. r = Outcome(buf, at, d, d)
    BY <1>1, <1>3, RawReads
  <2> HIDE DEF r
  <2> QED BY <1>2, <2>1, <2>2, ThenGives
<1> QED BY <1>1, <1>3 DEF d

LEMMA BytesReads ==
  ASSUME Base \in Nat \ {0}, NEW s, IsList(s)
  PROVE  /\ IsList(Bytes(s))
         /\ \A buf, at : Agrees(buf, at, Bytes(s)) =>
              DecBytes(buf, at) = Outcome(buf, at, Bytes(s), s)
<1> DEFINE n == Len(s)
           e == VarInt(n)
<1>1. n \in Nat /\ Bytes(s) = e \o s
  BY ListIs DEF Bytes
<1>2. IsList(e) /\ IsList(Bytes(s))
  BY <1>1, VarIntIsList, JoinIs
<1> HIDE DEF e
<1>3. ASSUME NEW buf, NEW at, Agrees(buf, at, Bytes(s))
      PROVE  DecBytes(buf, at) = Outcome(buf, at, Bytes(s), s)
  <2> DEFINE r == DecVarInt(buf, at)
  <2>1. DecBytes(buf, at) = Then(r, Raw(buf, r.val, r.at))
    BY DEF DecBytes, Bind, Then
  <2>2. r = Outcome(buf, at, e, n)
    BY <1>1, <1>2, <1>3, SplitAgrees, VarIntReads DEF e
  <2>3. \A p : Agrees(buf, p, s) => Raw(buf, n, p) = Outcome(buf, p, s, s)
    BY RawReads
  <2> HIDE DEF r
  <2> QED BY <1>1, <1>2, <1>3, <2>1, <2>2, <2>3, ThenReads
<1> QED BY <1>2, <1>3

(* Encodings: lists of items                                                  *)

Flat(f, items, n) == f = [i \in 1 .. n |-> IF i = 1 THEN items[i] ELSE f[i - 1] \o items[i]]

LEMMA FlatExists == ASSUME NEW items, NEW n \in Nat PROVE \E f : Flat(f, items, n)
<1> DEFINE S == {m \in Nat : \E f : Flat(f, items, m)}
<1>1. 0 \in S
  <2> DEFINE f == [i \in 1 .. 0 |-> items[i]]
  <2>1. 1 .. 0 = {}
    OBVIOUS
  <2>2. Flat(f, items, 0)
    BY <2>1 DEF Flat
  <2> QED BY <2>2
<1>2. ASSUME NEW m \in S PROVE m + 1 \in S
  <2>1. PICK f : Flat(f, items, m)
    BY <1>2
  <2> DEFINE g == [i \in 1 .. m + 1 |-> IF i = 1 THEN items[i] ELSE f[i - 1] \o items[i]]
  <2>2. m \in Nat /\ m + 1 \in Nat
    OBVIOUS
  <2>3. \A i \in 1 .. m : f[i] = IF i = 1 THEN items[i] ELSE f[i - 1] \o items[i]
    BY <2>1 DEF Flat
  <2>4. \A i \in 1 .. m : i \in 1 .. m + 1
    BY <2>2
  <2>5. \A i \in 1 .. m : g[i] = f[i]
    BY <2>3, <2>4
  <2>6. \A i \in 1 .. m + 1 : i # 1 => i - 1 \in 1 .. m
    BY <2>2
  <2>7. \A i \in 1 .. m + 1 : g[i] = IF i = 1 THEN items[i] ELSE g[i - 1] \o items[i]
    <3> SUFFICES ASSUME NEW i \in 1 .. m + 1
                 PROVE  g[i] = IF i = 1 THEN items[i] ELSE g[i - 1] \o items[i]
      OBVIOUS
    <3>1. g[i] = IF i = 1 THEN items[i] ELSE f[i - 1] \o items[i]
      OBVIOUS
    <3> HIDE DEF g
    <3> QED BY <2>5, <2>6, <3>1
  <2>8. g = [i \in 1 .. m + 1 |-> g[i]]
    OBVIOUS
  <2> HIDE DEF g
  <2>9. g = [i \in 1 .. m + 1 |-> IF i = 1 THEN items[i] ELSE g[i - 1] \o items[i]]
    BY <2>7, <2>8
  <2>10. Flat(g, items, m + 1)
    BY <2>9 DEF Flat
  <2> QED BY <2>2, <2>10
<1>3. S = Nat
  <2>1. S \in SUBSET Nat
    OBVIOUS
  <2> HIDE DEF S
  <2> QED BY <1>1, <1>2, <2>1, Induction
<1> QED BY <1>3

\* The items one after another, as far as each.
Parts(f, items) ==
  /\ f[0] = <<>> /\ \A k \in 1 .. Len(items) : f[k] = f[k - 1] \o items[k]
  /\ \A k \in 0 .. Len(items) : IsList(f[k])
  /\ FlattenSeq(items) = f[Len(items)]

LEMMA FlattenIs ==
  ASSUME NEW items, IsList(items), \A k \in 1 .. Len(items) : IsList(items[k])
  PROVE  \E f : Parts(f, items)
<1> DEFINE n == Len(items)
           c == CHOOSE f : Flat(f, items, n)
           f == [k \in 0 .. n |-> IF k = 0 THEN <<>> ELSE c[k]]
<1>1. n \in Nat
  BY ListIs
<1>2. Flat(c, items, n)
  BY <1>1, FlatExists
<1>3. FlattenSeq(items) = IF n = 0 THEN items ELSE c[n]
  BY DEF FlattenSeq, Flat
<1> HIDE DEF n, c
<1>4. \A k \in 1 .. n : c[k] = IF k = 1 THEN items[k] ELSE c[k - 1] \o items[k]
  BY <1>2 DEF Flat
<1>5. IsList(<<>>) /\ \A s : IsList(s) => <<>> \o s = s
  <2>1. <<>> \in Seq({})
    OBVIOUS
  <2>2. ASSUME NEW s, IsList(s) PROVE <<>> \o s = s
    <3>1. s \in Seq(ToSet(s))
      BY <2>2 DEF IsList
    <3> QED BY <3>1, ConcatEmptySeq
  <2> QED BY <2>1, <2>2, ListOf
<1>6. f[0] = <<>> /\ \A k \in 1 .. n : f[k] = c[k]
  BY <1>1
<1>7. ASSUME NEW k \in 1 .. n PROVE f[k] = f[k - 1] \o items[k]
  <2>1. CASE k = 1
    <3>1. k - 1 = 0 /\ IsList(items[k])
      BY <2>1 DEF n
    <3> HIDE DEF f
    <3>2. f[k] = items[k] /\ f[k - 1] = <<>>
      BY <1>4, <1>6, <2>1, <3>1
    <3>3. <<>> \o items[k] = items[k]
      BY <1>5, <3>1
    <3> QED BY <3>2, <3>3
  <2>2. CASE k # 1
    <3>1. k - 1 \in 1 .. n
      BY <1>1, <2>2
    <3> HIDE DEF f
    <3> QED BY <1>4, <1>6, <2>2, <3>1
  <2> QED BY <2>1, <2>2
<1> HIDE DEF f
<1> DEFINE S == {k \in 0 .. n : IsList(f[k])}
<1>8. 0 \in S
  BY <1>1, <1>5, <1>6
<1>9. ASSUME NEW k \in 1 .. n, k - 1 \in S PROVE k \in S
  <2>1. IsList(f[k - 1]) /\ IsList(items[k]) /\ k \in 0 .. n
    BY <1>9 DEF n
  <2>2. IsList(f[k - 1] \o items[k])
    BY <2>1, JoinIs
  <2> QED BY <1>7, <2>1, <2>2
<1> HIDE DEF S
<1>10. \A k \in 0 .. n : IsList(f[k])
  <2>1. 0 .. n \subseteq S
    BY <1>1, <1>8, <1>9, Along
  <2> QED BY <2>1 DEF S
<1>11. FlattenSeq(items) = f[n]
  <2>1. CASE n = 0
    <3>1. items = <<>>
      BY <2>1, EmptySeq DEF n, IsList
    <3> QED BY <1>3, <1>6, <2>1, <3>1
  <2>2. CASE n # 0
    <3>1. n \in 1 .. n
      BY <1>1, <2>2
    <3> QED BY <1>3, <1>6, <2>2, <3>1
  <2> QED BY <2>1, <2>2
<1>12. Parts(f, items)
  BY <1>6, <1>7, <1>10, <1>11 DEF Parts, n
<1> QED BY <1>12

LEMMA ManyIsList ==
  ASSUME Base \in Nat \ {0}, NEW items, IsList(items), \A k \in 1 .. Len(items) : IsList(items[k])
  PROVE  IsList(FlattenSeq(items)) /\ IsList(Many(items))
<1>1. PICK f : Parts(f, items)
  BY FlattenIs
<1>2. Len(items) \in Nat /\ Len(items) \in 0 .. Len(items)
  BY ListIs
<1>3. IsList(FlattenSeq(items))
  BY <1>1, <1>2 DEF Parts
<1>4. IsList(VarInt(Len(items)))
  BY <1>2, VarIntIsList
<1> QED BY <1>3, <1>4, JoinIs DEF Many

\* What a reader of a list has after each item.
NextItem(item, r) ==
  Then(r, Then(item[r.at], Read(item[r.at].at, Append(r.val, item[r.at].val))))

Upto(f, item, n, p) ==
  f = [k \in 0 .. n |-> IF k = 0 THEN Read(p, <<>>) ELSE NextItem(item, f[k - 1])]

LEMMA UptoIs ==
  ASSUME NEW n \in Nat, NEW item, NEW p, NEW r, Upto(r, item, n, p), NEW c, Upto(c, item, n, p)
  PROVE  c[n] = r[n]
<1> DEFINE S == {k \in 0 .. n : c[k] = r[k]}
<1>1. /\ \A k \in 0 .. n : r[k] = IF k = 0 THEN Read(p, <<>>) ELSE NextItem(item, r[k - 1])
      /\ \A k \in 0 .. n : c[k] = IF k = 0 THEN Read(p, <<>>) ELSE NextItem(item, c[k - 1])
  BY DEF Upto
<1>2. 0 \in S
  <2>1. 0 \in 0 .. n
    OBVIOUS
  <2> QED BY <1>1, <2>1
<1>3. ASSUME NEW k \in 1 .. n, k - 1 \in S PROVE k \in S
  <2>1. k \in 0 .. n /\ k # 0 /\ c[k - 1] = r[k - 1]
    BY <1>3
  <2> QED BY <1>1, <2>1
<1> HIDE DEF S
<1>4. 0 .. n \subseteq S
  BY <1>2, <1>3, Along
<1> QED BY <1>4 DEF S

\* A reader of each of some items gives each of some values.
ReadsItems(item, buf, items, values) ==
  /\ IsList(items) /\ \A k \in 1 .. Len(items) : IsList(items[k])
  /\ IsList(values) /\ Len(values) = Len(items)
  /\ \A q, k : k \in 1 .. Len(items) /\ Agrees(buf, q, items[k]) =>
       item[q] = Outcome(buf, q, items[k], values[k])

LEMMA ItemsRead ==
  ASSUME NEW item, NEW buf, NEW items, NEW values, ReadsItems(item, buf, items, values),
         NEW p, Agrees(buf, p, FlattenSeq(items))
  PROVE  \E r : Upto(r, item, Len(items), p)
                /\ r[Len(items)] = Outcome(buf, p, FlattenSeq(items), values)
<1> DEFINE n == Len(items)
           some(k) == SubSeq(values, 1, k)
<1> USE DEF ReadsItems
<1>1. PICK f : Parts(f, items)
  BY FlattenIs
<1>2. n \in Nat
  BY ListIs
<1>3. /\ f[0] = <<>> /\ FlattenSeq(items) = f[n]
      /\ \A k \in 1 .. n : f[k] = f[k - 1] \o items[k]
      /\ \A k \in 0 .. n : IsList(f[k])
  BY <1>1 DEF Parts
<1>4. some(0) = <<>> /\ some(n) = values
      /\ \A k \in 1 .. n : some(k) = Append(some(k - 1), values[k])
  <2>1. values \in Seq(ToSet(values)) /\ Len(values) = n
    BY DEF IsList
  <2>2. some(0) = <<>>
    BY SubSeqEmpty
  <2>3. some(n) = values
    BY <2>1, SubSeqFull
  <2>4. ASSUME NEW k \in 1 .. n PROVE some(k) = Append(some(k - 1), values[k])
    <3>1. 1 \in 1 .. Len(values) /\ k \in 1 .. Len(values)
      BY <1>2, <2>1
    <3>2. SubSeq(values, 1, k) = SubSeq(values, 1, k - 1) \o <<values[k]>>
      BY <2>1, <3>1, SubSeqRecursiveSecond
    <3>3. some(k - 1) \in Seq(ToSet(values)) /\ values[k] \in ToSet(values)
      <4>1. \A i \in 1 .. k - 1 : values[i] \in ToSet(values)
        BY <2>1, <3>1, ElementOfSeq
      <4>2. values[k] \in ToSet(values)
        BY <2>1, <3>1, ElementOfSeq
      <4> QED BY <4>1, <4>2, SubSeqProperties
    <3> DEFINE before == some(k - 1)
    <3> HIDE DEF before
    <3>4. before \in Seq(ToSet(values))
      BY <3>3 DEF before
    <3>5. Append(before, values[k]) = before \o <<values[k]>>
      BY <3>3, <3>4, AppendIsConcat
    <3> QED BY <3>2, <3>5 DEF before
  <2> QED BY <2>2, <2>3, <2>4
<1> HIDE DEF some
<1> DEFINE r == [k \in 0 .. n |-> Outcome(buf, p, f[k], some(k))]
<1>5. \A k \in 0 .. n : Agrees(buf, p, f[k])
  <2> DEFINE S == {i \in 0 .. n : Agrees(buf, p, f[n - i])}
  <2> HIDE DEF n
  <2>1. 0 \in S
    <3>1. n - 0 = n
      BY <1>2
    <3>2. Agrees(buf, p, f[n])
      BY <1>3
    <3> QED BY <1>2, <3>1, <3>2
  <2>2. ASSUME NEW i \in 1 .. n, i - 1 \in S PROVE i \in S
    <3> DEFINE k == n - (i - 1)
    <3>1. k \in 1 .. n /\ k - 1 = n - i /\ k - 1 \in 0 .. n /\ i \in 0 .. n
      BY <1>2
    <3>2. Agrees(buf, p, f[k])
      BY <2>2
    <3> HIDE DEF k
    <3>3. IsList(f[k - 1]) /\ IsList(items[k]) /\ f[k] = f[k - 1] \o items[k]
      BY <1>3, <3>1 DEF n
    <3>4. Agrees(buf, p, f[k - 1])
      BY <3>2, <3>3, SplitAgrees
    <3> QED BY <3>1, <3>4
  <2> HIDE DEF S
  <2>3. 0 .. n \subseteq S
    BY <1>2, <2>1, <2>2, Along
  <2>4. \A k \in 0 .. n : n - k \in 0 .. n /\ n - (n - k) = k
    BY <1>2
  <2> QED BY <2>3, <2>4 DEF S
<1>6. r[0] = Read(p, <<>>)
  <2>1. Len(f[0]) = 0 /\ p \in Nat /\ p <= Len(buf) + 1
    BY <1>2, <1>3, <1>5 DEF Agrees
  <2>2. Outcome(buf, p, f[0], some(0)) = Read(p, <<>>)
    BY <1>4, <2>1 DEF Outcome
  <2> QED BY <1>2, <2>2
<1>7. ASSUME NEW k \in 1 .. n PROVE r[k] = NextItem(item, r[k - 1])
  <2> DEFINE b == r[k - 1]
             e == f[k - 1]
             at == p + Len(e)
             last == Then(item[b.at], Read(item[b.at].at, Append(b.val, item[b.at].val)))
  <2>1. k \in 0 .. n /\ k - 1 \in 0 .. n
    BY <1>2
  <2>2. /\ b = Outcome(buf, p, e, some(k - 1)) /\ r[k] = Outcome(buf, p, e \o items[k], some(k))
        /\ Agrees(buf, p, e \o items[k]) /\ IsList(e) /\ IsList(items[k])
    BY <1>3, <1>5, <2>1
  <2> HIDE DEF b, e, r
  <2>3. ASSUME Agrees(buf, at, items[k]), b.val = some(k - 1), b.at = at
        PROVE  last = Outcome(buf, at, items[k], some(k))
    <3>1. item[b.at] = Outcome(buf, at, items[k], values[k])
      BY <2>3
    <3>2. some(k) = Append(b.val, values[k])
      BY <1>4, <2>3
    <3> HIDE DEF at
    <3> QED BY <3>1, <3>2, ThenGives
  <2> HIDE DEF last
  <2>4. Then(b, last) = Outcome(buf, p, e \o items[k], some(k))
    BY <2>2, <2>3, ThenReads
  <2>5. NextItem(item, b) = Then(b, last)
    BY DEF NextItem, last
  <2> QED BY <2>2, <2>4, <2>5 DEF b
<1>8. Upto(r, item, n, p)
  <2>1. r = [k \in 0 .. n |-> r[k]]
    OBVIOUS
  <2> HIDE DEF r
  <2>2. \A k \in 0 .. n : k # 0 => k \in 1 .. n
    BY <1>2
  <2>3. r = [k \in 0 .. n |-> IF k = 0 THEN Read(p, <<>>) ELSE NextItem(item, r[k - 1])]
    BY <1>6, <1>7, <2>1, <2>2
  <2> QED BY <2>3 DEF Upto
<1>9. r[n] = Outcome(buf, p, FlattenSeq(items), values)
  <2>1. n \in 0 .. n
    BY <1>2
  <2> QED BY <1>3, <1>4, <2>1
<1> QED BY <1>8, <1>9

\* A list is read back when each of its items is.
LEMMA ManyReads ==
  ASSUME Base \in Nat \ {0},
         NEW item, NEW buf, NEW items, NEW values, ReadsItems(item, buf, items, values),
         NEW at, Agrees(buf, at, Many(items))
  PROVE  DecMany(item, buf, at) = Outcome(buf, at, Many(items), values)
<1> DEFINE n == Len(items)
           flat == FlattenSeq(items)
           r == DecVarInt(buf, at)
           read(m, p) == (CHOOSE f : Upto(f, item, m, p))[m]
<1>1. DecMany(item, buf, at) = Then(r, read(r.val, r.at))
  BY DEF DecMany, Bind, Then, Upto, NextItem
<1>2. n \in Nat /\ Many(items) = VarInt(n) \o flat /\ IsList(flat) /\ IsList(VarInt(n))
  BY ListIs, ManyIsList, VarIntIsList DEF Many, ReadsItems
<1>3. r = Outcome(buf, at, VarInt(n), n)
  BY <1>2, SplitAgrees, VarIntReads
<1>4. ASSUME NEW p, Agrees(buf, p, flat) PROVE read(n, p) = Outcome(buf, p, flat, values)
  <2> DEFINE c == CHOOSE f : Upto(f, item, n, p)
  <2>1. PICK g : Upto(g, item, n, p) /\ g[n] = Outcome(buf, p, flat, values)
    BY <1>4, ItemsRead
  <2>2. Upto(c, item, n, p)
    BY <2>1
  <2> HIDE DEF c
  <2>3. c[n] = g[n]
    BY <1>2, <2>1, <2>2, UptoIs
  <2> QED BY <2>1, <2>3 DEF c
<1> HIDE DEF r, read, flat, n
<1> QED BY <1>1, <1>2, <1>3, <1>4, ThenReads

(* Encodings: the parts of a block                                            *)

\* A list whose items are encoded, and read wherever one is.
LEMMA ItemsAre ==
  ASSUME NEW values, IsList(values), NEW items, items = [i \in DOMAIN values |-> items[i]],
         NEW buf, NEW item,
         \A k \in DOMAIN values : IsList(items[k]) /\
           \A q : Agrees(buf, q, items[k]) => item[q] = Outcome(buf, q, items[k], values[k])
  PROVE  ReadsItems(item, buf, items, values)
<1>1. DOMAIN values = 1 .. Len(values) /\ Len(values) \in Nat
  BY ListIs
<1>2. DOMAIN items = 1 .. Len(values) /\ items = [i \in 1 .. Len(values) |-> items[i]]
  BY <1>1
<1>3. IsList(items) /\ Len(items) = Len(values)
  BY <1>1, <1>2, MakeList
<1> QED BY <1>1, <1>3 DEF ReadsItems

LEMMA PositionIs == ASSUME NEW buf, NEW q, NEW e, Agrees(buf, q, e) PROVE q \in 1 .. Len(buf) + 1
BY ListIs DEF Agrees

LEMMA InputReads ==
  ASSUME Base \in Nat \ {0}, NEW i, IsList(i.scriptSig),
         i = [txid |-> i.txid, vout |-> i.vout, scriptSig |-> i.scriptSig, sequence |-> i.sequence]
  PROVE  /\ IsList(EncInput(i))
         /\ \A buf, at : Agrees(buf, at, EncInput(i)) =>
              DecInput(buf, at) = Outcome(buf, at, EncInput(i), i)
<1> DEFINE e1 == <<i.txid, i.vout>>
           e2 == Bytes(i.scriptSig)
           e3 == <<i.sequence>>
           made(out, script, sequence) ==
             [txid |-> out[1], vout |-> out[2], scriptSig |-> script, sequence |-> sequence]
<1>1. IsList(e1) /\ IsList(e2) /\ IsList(e3) /\ Len(e1) = 2
  BY OneIsList, TwoIsList, BytesReads
<1>2. EncInput(i) = (e1 \o e2) \o e3
  BY DEF EncInput
<1>3. made(e1, i.scriptSig, i.sequence) = i
  OBVIOUS
<1>4. \A buf, q : Agrees(buf, q, e3) => Word(buf, q) = Outcome(buf, q, e3, i.sequence)
  BY WordReads
<1>5. \A buf, q : Agrees(buf, q, e2) => DecBytes(buf, q) = Outcome(buf, q, e2, i.scriptSig)
  BY BytesReads
<1> HIDE DEF e1, e2, e3, made
<1>6. EncInput(i) = e1 \o (e2 \o e3) /\ IsList(e2 \o e3) /\ IsList(EncInput(i))
  <2>1. (e1 \o e2) \o e3 = e1 \o (e2 \o e3) /\ IsList(e2 \o e3) /\ IsList(e1 \o (e2 \o e3))
    BY <1>1, ChainThree
  <2> QED BY <1>2, <2>1
<1>7. ASSUME NEW buf, NEW at, Agrees(buf, at, EncInput(i))
      PROVE  DecInput(buf, at) = Outcome(buf, at, EncInput(i), i)
  <2> DEFINE s3(out, script, q) ==
               LET r == Word(buf, q) IN Then(r, Read(r.at, made(out, script, r.val)))
             s2(out, p) == LET r == DecBytes(buf, p) IN Then(r, s3(out, r.val, r.at))
             r1 == Raw(buf, 2, at)
  <2>1. DecInput(buf, at) = Then(r1, s2(r1.val, r1.at))
    BY DEF DecInput, Bind, Then, made
  <2>2. \A q : Agrees(buf, q, e3) => s3(e1, i.scriptSig, q) = Outcome(buf, q, e3, i)
    BY <1>3, <1>4, ThenGives
  <2> HIDE DEF s3
  <2>3. \A p : Agrees(buf, p, e2 \o e3) => s2(e1, p) = Outcome(buf, p, e2 \o e3, i)
    BY <1>1, <1>5, <2>2, SplitAgrees, ThenReads
  <2> HIDE DEF s2
  <2>4. r1 = Outcome(buf, at, e1, e1)
    BY <1>1, <1>6, <1>7, SplitAgrees, RawReads
  <2> HIDE DEF r1
  <2> QED BY <1>1, <1>6, <1>7, <2>1, <2>3, <2>4, ThenReads
<1> QED BY <1>6, <1>7

LEMMA OutputReads ==
  ASSUME Base \in Nat \ {0}, Half \in Nat \ {0}, NEW o, o.value \in Nat, IsList(o.scriptPubKey),
         o = [value |-> o.value, scriptPubKey |-> o.scriptPubKey]
  PROVE  /\ IsList(EncOutput(o))
         /\ \A buf, at : Agrees(buf, at, EncOutput(o)) =>
              DecOutput(buf, at) = Outcome(buf, at, EncOutput(o), o)
<1> DEFINE e1 == Amount(o.value)
           e2 == Bytes(o.scriptPubKey)
           made(v, script) == [value |-> v, scriptPubKey |-> script]
<1>1. IsList(e1) /\ IsList(e2) /\ EncOutput(o) = e1 \o e2
  BY AmountReads, BytesReads DEF EncOutput
<1>2. made(o.value, o.scriptPubKey) = o
  OBVIOUS
<1>3. \A buf, q : Agrees(buf, q, e1) => DecAmount(buf, q) = Outcome(buf, q, e1, o.value)
  BY AmountReads
<1>4. \A buf, q : Agrees(buf, q, e2) => DecBytes(buf, q) = Outcome(buf, q, e2, o.scriptPubKey)
  BY BytesReads
<1> HIDE DEF e1, e2, made
<1>5. IsList(EncOutput(o))
  BY <1>1, JoinIs
<1>6. ASSUME NEW buf, NEW at, Agrees(buf, at, EncOutput(o))
      PROVE  DecOutput(buf, at) = Outcome(buf, at, EncOutput(o), o)
  <2> DEFINE s2(v, p) == LET r == DecBytes(buf, p) IN Then(r, Read(r.at, made(v, r.val)))
             r1 == DecAmount(buf, at)
  <2>1. DecOutput(buf, at) = Then(r1, s2(r1.val, r1.at))
    BY DEF DecOutput, Bind, Then, made
  <2>2. \A p : Agrees(buf, p, e2) => s2(o.value, p) = Outcome(buf, p, e2, o)
    BY <1>2, <1>4, ThenGives
  <2> HIDE DEF s2
  <2>3. r1 = Outcome(buf, at, e1, o.value)
    BY <1>1, <1>3, <1>6, SplitAgrees
  <2> HIDE DEF r1
  <2> QED BY <1>1, <1>6, <2>1, <2>2, <2>3, ThenReads
<1> QED BY <1>5, <1>6

\* The task reference, there or not.
\* The reference is read back, and the flag before it tells whether there is one.
RefIsRead(t, e) ==
  /\ IsList(e)
  /\ \A buf, at : Agrees(buf, at, e) =>
       /\ DecRef(buf, at) = Outcome(buf, at, e, t.ref)
       /\ at + Len(e) <= Len(buf) + 1 => (buf[at] = 1) = t.hasRef

LEMMA RefReads ==
  ASSUME Base \in Nat \ {0}, NEW t, TxShape(t),
         NEW e, e = IF t.hasRef THEN << 1 >> \o Bytes(t.ref) ELSE << 0 >>
  PROVE  RefIsRead(t, e)
<1> USE DEF RefIsRead
<1>1. t.hasRef \in BOOLEAN /\ IsList(t.ref) /\ (~ t.hasRef => t.ref = <<>>)
  BY DEF TxShape
<1> DEFINE s(buf, flag, p) == IF flag = 1 THEN DecBytes(buf, p) ELSE Read(p, <<>>)
<1>2. \A buf, at : DecRef(buf, at)
      = Then(Word(buf, at), s(buf, Word(buf, at).val, Word(buf, at).at))
  BY DEF DecRef, Bind, Then
<1>3. ASSUME NEW f, IsList(f), NEW x, NEW buf, NEW at, Agrees(buf, at, <<x>> \o f),
             at + Len(<<x>> \o f) <= Len(buf) + 1
      PROVE  buf[at] = x
  <2> DEFINE e1 == <<x>> \o f
  <2>1. e1[1] = x /\ Len(e1) = 1 + Len(f) /\ Len(f) \in Nat
    <3>1. IsList(<<x>>) /\ Len(<<x>>) = 1 /\ <<x>>[1] = x
      BY OneIsList
    <3>2. Len(f) \in Nat
      BY <1>3, ListIs
    <3> DEFINE one == <<x>>
    <3> HIDE DEF one
    <3>3. (one \o f)[1] = one[1] /\ Len(one \o f) = Len(one) + Len(f)
      BY <1>3, <3>1, JoinIs DEF one
    <3> QED BY <3>1, <3>2, <3>3 DEF one
  <2>2. Agrees(buf, at, e1) /\ at + Len(e1) <= Len(buf) + 1
    BY <1>3
  <2> HIDE DEF e1
  <2>3. at \in Nat /\ Len(buf) \in Nat
    BY <2>2, ListIs DEF Agrees
  <2>4. 1 \in 1 .. Len(e1) /\ at + 1 <= Len(buf) + 1 /\ at + 1 - 1 = at
    BY <2>1, <2>2, <2>3
  <2>5. buf[at + 1 - 1] = e1[1]
    BY <2>2, <2>4 DEF Agrees
  <2> QED BY <2>1, <2>4, <2>5
<1>4. CASE t.hasRef
  <2> DEFINE e1 == <<1>>
             e2 == Bytes(t.ref)
  <2>1. IsList(e1) /\ IsList(e2) /\ e = e1 \o e2
    BY <1>1, <1>4, OneIsList, BytesReads
  <2>2. \A buf, q : Agrees(buf, q, e2) => DecBytes(buf, q) = Outcome(buf, q, e2, t.ref)
    BY <1>1, BytesReads
  <2>3. \A buf, q : Agrees(buf, q, e1) => Word(buf, q) = Outcome(buf, q, e1, 1)
    BY WordReads
  <2>4. \A buf, p : s(buf, 1, p) = DecBytes(buf, p)
    OBVIOUS
  <2>5. \A buf, at : Agrees(buf, at, e) /\ at + Len(e) <= Len(buf) + 1 => buf[at] = 1
    BY <1>3, <2>1
  <2> HIDE DEF e1, e2, s
  <2>6. IsList(e)
    BY <2>1, JoinIs
  <2>7. ASSUME NEW buf, NEW at, Agrees(buf, at, e) PROVE DecRef(buf, at)
        = Outcome(buf, at, e, t.ref)
    <3> DEFINE r == Word(buf, at)
    <3>1. r = Outcome(buf, at, e1, 1)
      BY <2>1, <2>3, <2>7, SplitAgrees
    <3>2. DecRef(buf, at) = Then(r, s(buf, r.val, r.at))
      BY <1>2
    <3> HIDE DEF r
    <3>3. ASSUME Agrees(buf, at + Len(e1), e2), r.val = 1, r.at = at + Len(e1)
          PROVE  s(buf, r.val, r.at) = Outcome(buf, at + Len(e1), e2, t.ref)
      BY <2>2, <2>4, <3>3
    <3>4. Agrees(buf, at, e1 \o e2)
      BY <2>1, <2>7
    <3>5. Then(r, s(buf, r.val, r.at)) = Outcome(buf, at, e1 \o e2, t.ref)
      BY <2>1, <3>1, <3>3, <3>4, ThenReads
    <3> QED BY <2>1, <3>2, <3>5
  <2> QED BY <1>1, <1>4, <2>5, <2>6, <2>7
<1>5. CASE ~ t.hasRef
  <2> DEFINE none == <<0>>
  <2>1. e = none /\ IsList(none) /\ t.ref = <<>>
    BY <1>1, <1>5, OneIsList
  <2>2. \A buf, q : Agrees(buf, q, none) => Word(buf, q) = Outcome(buf, q, none, 0)
    BY WordReads
  <2>3. \A buf, p : s(buf, 0, p) = Read(p, <<>>)
    OBVIOUS
  <2>4. ASSUME NEW buf, NEW at, Agrees(buf, at, e), at + Len(e) <= Len(buf) + 1 PROVE buf[at] = 0
    <3>1. IsList(<<>>) /\ <<0>> = <<0>> \o <<>>
      <4>1. <<>> \in Seq({0}) /\ <<0>> \in Seq({0})
        OBVIOUS
      <4> QED BY <4>1, ListOf, ConcatEmptySeq
    <3> QED BY <1>3, <2>1, <2>4, <3>1
  <2> HIDE DEF none, s
  <2>5. ASSUME NEW buf, NEW at, Agrees(buf, at, e) PROVE DecRef(buf, at)
        = Outcome(buf, at, e, t.ref)
    <3> DEFINE r == Word(buf, at)
    <3>1. r = Outcome(buf, at, none, 0)
      BY <2>1, <2>2, <2>5
    <3>2. DecRef(buf, at) = Then(r, s(buf, r.val, r.at))
      BY <1>2
    <3> HIDE DEF r
    <3>3. r.val = 0 /\ r.at = at + Len(none) => s(buf, r.val, r.at) = Read(at + Len(none), t.ref)
      BY <2>1, <2>3
    <3>4. Then(r, s(buf, r.val, r.at)) = Outcome(buf, at, none, t.ref)
      BY <3>1, <3>3, ThenGives
    <3> QED BY <2>1, <3>2, <3>4
  <2>6. 0 # 1
    OBVIOUS
  <2> QED BY <1>1, <1>5, <2>1, <2>4, <2>5, <2>6
<1> QED BY <1>1, <1>4, <1>5

LEMMA ListReads ==
  ASSUME Base \in Nat \ {0}, NEW values, IsList(values),
         NEW items, items = [i \in DOMAIN values |-> items[i]],
         \A k \in DOMAIN values : IsList(items[k])
  PROVE  IsList(Many(items))
<1>1. DOMAIN values = 1 .. Len(values) /\ Len(values) \in Nat
  BY ListIs
<1>2. IsList(items) /\ Len(items) = Len(values)
  <2>1. DOMAIN items = 1 .. Len(values) /\ items = [i \in 1 .. Len(values) |-> items[i]]
    BY <1>1
  <2> QED BY <1>1, <2>1, MakeList
<1> QED BY <1>1, <1>2, ManyIsList

LEMMA InputsRead ==
  ASSUME Base \in Nat \ {0}, NEW t, TxShape(t)
  PROVE  LET items == [i \in DOMAIN t.inputs |-> EncInput(t.inputs[i])]
         IN /\ IsList(Many(items))
            /\ \A buf, at : Agrees(buf, at, Many(items)) =>
                 DecMany([x \in 1 .. Len(buf) + 1 |-> DecInput(buf, x)], buf, at)
                   = Outcome(buf, at, Many(items), t.inputs)
<1> DEFINE values == t.inputs
           items == [i \in DOMAIN values |-> EncInput(values[i])]
           item(buf) == [x \in 1 .. Len(buf) + 1 |-> DecInput(buf, x)]
<1>1. IsList(values)
  BY DEF TxShape
<1>2. ASSUME NEW k \in DOMAIN values
      PROVE  /\ IsList(items[k])
             /\ \A buf, q : Agrees(buf, q, items[k]) =>
                  item(buf)[q] = Outcome(buf, q, items[k], values[k])
  <2> DEFINE v == values[k]
  <2>1. items[k] = EncInput(v) /\ v \in ToSet(values)
    BY DEF ToSet
  <2>2. IsList(EncInput(v)) /\ \A buf, q : Agrees(buf, q, EncInput(v)) =>
          DecInput(buf, q) = Outcome(buf, q, EncInput(v), v)
    BY <2>1, InputReads DEF TxShape
  <2>3. \A buf, q : q \in 1 .. Len(buf) + 1 => item(buf)[q] = DecInput(buf, q)
    OBVIOUS
  <2> HIDE DEF items, item, v
  <2> QED BY <2>1, <2>2, <2>3, PositionIs DEF v
<1>3. items = [i \in DOMAIN values |-> items[i]]
  OBVIOUS
<1> HIDE DEF items, item, values
<1>4. IsList(Many(items))
  BY <1>1, <1>2, <1>3, ListReads
<1>5. ASSUME NEW buf, NEW at, Agrees(buf, at, Many(items))
      PROVE  DecMany(item(buf), buf, at) = Outcome(buf, at, Many(items), values)
  <2> DEFINE read == item(buf)
  <2>1. \A k \in DOMAIN values : \A q : Agrees(buf, q, items[k]) =>
          read[q] = Outcome(buf, q, items[k], values[k])
    BY <1>2
  <2> HIDE DEF read
  <2>2. ReadsItems(read, buf, items, values)
    BY <1>1, <1>2, <1>3, <2>1, ItemsAre
  <2> QED BY <1>5, <2>2, ManyReads DEF read
<1> QED BY <1>4, <1>5 DEF items, item, values

LEMMA OutputsRead ==
  ASSUME Base \in Nat \ {0}, Half \in Nat \ {0}, NEW t, TxShape(t)
  PROVE  LET items == [i \in DOMAIN t.outputs |-> EncOutput(t.outputs[i])]
         IN /\ IsList(Many(items))
            /\ \A buf, at : Agrees(buf, at, Many(items)) =>
                 DecMany([x \in 1 .. Len(buf) + 1 |-> DecOutput(buf, x)], buf, at)
                   = Outcome(buf, at, Many(items), t.outputs)
<1> DEFINE values == t.outputs
           items == [i \in DOMAIN values |-> EncOutput(values[i])]
           item(buf) == [x \in 1 .. Len(buf) + 1 |-> DecOutput(buf, x)]
<1>1. IsList(values)
  BY DEF TxShape
<1>2. ASSUME NEW k \in DOMAIN values
      PROVE  /\ IsList(items[k])
             /\ \A buf, q : Agrees(buf, q, items[k]) =>
                  item(buf)[q] = Outcome(buf, q, items[k], values[k])
  <2> DEFINE v == values[k]
  <2>1. items[k] = EncOutput(v) /\ v \in ToSet(values)
    BY DEF ToSet
  <2>2. IsList(EncOutput(v)) /\ \A buf, q : Agrees(buf, q, EncOutput(v)) =>
          DecOutput(buf, q) = Outcome(buf, q, EncOutput(v), v)
    BY <2>1, OutputReads DEF TxShape
  <2>3. \A buf, q : q \in 1 .. Len(buf) + 1 => item(buf)[q] = DecOutput(buf, q)
    OBVIOUS
  <2> HIDE DEF items, item, v
  <2> QED BY <2>1, <2>2, <2>3, PositionIs DEF v
<1>3. items = [i \in DOMAIN values |-> items[i]]
  OBVIOUS
<1> HIDE DEF items, item, values
<1>4. IsList(Many(items))
  BY <1>1, <1>2, <1>3, ListReads
<1>5. ASSUME NEW buf, NEW at, Agrees(buf, at, Many(items))
      PROVE  DecMany(item(buf), buf, at) = Outcome(buf, at, Many(items), values)
  <2> DEFINE read == item(buf)
  <2>1. \A k \in DOMAIN values : \A q : Agrees(buf, q, items[k]) =>
          read[q] = Outcome(buf, q, items[k], values[k])
    BY <1>2
  <2> HIDE DEF read
  <2>2. ReadsItems(read, buf, items, values)
    BY <1>1, <1>2, <1>3, <2>1, ItemsAre
  <2> QED BY <1>5, <2>2, ManyReads DEF read
<1> QED BY <1>4, <1>5 DEF items, item, values

LEMMA TxReads ==
  ASSUME Base \in Nat \ {0}, Half \in Nat \ {0}, NEW t, TxShape(t)
  PROVE  /\ IsList(EncTx(t))
         /\ \A buf, at : Agrees(buf, at, EncTx(t)) =>
              DecTx(buf, at) = Outcome(buf, at, EncTx(t), t)
<1> DEFINE e1 == <<t.version>>
           e2 == Many([i \in DOMAIN t.inputs |-> EncInput(t.inputs[i])])
           e3 == Many([i \in DOMAIN t.outputs |-> EncOutput(t.outputs[i])])
           e4 == <<t.locktime>>
           e5 == IF t.hasRef THEN <<1>> \o Bytes(t.ref) ELSE <<0>>
           made(version, inputs, outputs, locktime, hasRef, ref) ==
             [version |-> version, inputs |-> inputs, outputs |-> outputs, locktime |-> locktime,
              hasRef |-> hasRef, ref |-> ref]
<1>1. IsList(e1) /\ IsList(e2) /\ IsList(e3) /\ IsList(e4) /\ IsList(e5)
  BY OneIsList, InputsRead, OutputsRead, RefReads DEF RefIsRead
<1>2. EncTx(t) = (((e1 \o e2) \o e3) \o e4) \o e5
  BY DEF EncTx
<1>3. made(t.version, t.inputs, t.outputs, t.locktime, t.hasRef, t.ref) = t
  BY DEF TxShape
<1>4. \A buf, q : Agrees(buf, q, e1) =>
        Word(buf, q) = Outcome(buf, q, e1, t.version)
  BY WordReads
<1>5. \A buf, q : Agrees(buf, q, e2) =>
        DecMany([x \in 1 .. Len(buf) + 1 |-> DecInput(buf, x)], buf, q)
          = Outcome(buf, q, e2, t.inputs)
  BY InputsRead
<1>6. \A buf, q : Agrees(buf, q, e3) =>
        DecMany([x \in 1 .. Len(buf) + 1 |-> DecOutput(buf, x)], buf, q)
          = Outcome(buf, q, e3, t.outputs)
  BY OutputsRead
<1>7. \A buf, q : Agrees(buf, q, e4) =>
        Word(buf, q) = Outcome(buf, q, e4, t.locktime)
  BY WordReads
<1>8. \A buf, q : Agrees(buf, q, e5) =>
        /\ DecRef(buf, q) = Outcome(buf, q, e5, t.ref)
        /\ q + Len(e5) <= Len(buf) + 1 => (buf[q] = 1) = t.hasRef
  <2>1. e5 = IF t.hasRef THEN <<1>> \o Bytes(t.ref) ELSE <<0>>
    OBVIOUS
  <2> HIDE DEF e1, e2, e3, e4, e5, made
  <2>2. Base \in Nat \ {0} /\ TxShape(t)
    OBVIOUS
  <2>3. RefIsRead(t, e5)
    BY ONLY <2>1, <2>2, RefReads
  <2> QED BY ONLY <2>3 DEF RefIsRead
<1> HIDE DEF e1, e2, e3, e4, e5, made
<1>9. EncTx(t) = e1 \o (e2 \o (e3 \o (e4 \o e5))) /\ IsList(EncTx(t))
      /\ IsList(e2 \o (e3 \o (e4 \o e5)))
      /\ IsList(e3 \o (e4 \o e5))
      /\ IsList(e4 \o e5)
  <2>1. FiveLists(e1, e2, e3, e4, e5)
    BY <1>1 DEF FiveLists, FourLists, ThreeLists
  <2>2. FiveJoined(e1, e2, e3, e4, e5)
    BY ONLY <2>1, ChainFive
  <2> QED BY ONLY <1>2, <2>2 DEF FiveJoined
<1>10. ASSUME NEW buf, NEW at, Agrees(buf, at, EncTx(t))
      PROVE  DecTx(buf, at) = Outcome(buf, at, EncTx(t), t)
  <2> DEFINE s5(version, inputs, outputs, locktime, p) ==
               LET r == DecRef(buf, p)
               IN Then(r, Read(r.at, made(version, inputs, outputs, locktime, buf[p] = 1, r.val)))
             s4(version, inputs, outputs, p) ==
               LET r == Word(buf, p)
               IN Then(r, s5(version, inputs, outputs, r.val, r.at))
             s3(version, inputs, p) ==
               LET r == DecMany([x \in 1 .. Len(buf) + 1 |-> DecOutput(buf, x)], buf, p)
               IN Then(r, s4(version, inputs, r.val, r.at))
             s2(version, p) ==
               LET r == DecMany([x \in 1 .. Len(buf) + 1 |-> DecInput(buf, x)], buf, p)
               IN Then(r, s3(version, r.val, r.at))
             r1 == Word(buf, at)
  <2>1. DecTx(buf, at) = Then(r1, s2(r1.val, r1.at))
    BY DEF DecTx, Bind, Then, made
  <2>2. \A p : Agrees(buf, p, e5) =>
          s5(t.version, t.inputs, t.outputs, t.locktime, p) = Outcome(buf, p, e5, t)
    BY <1>3, <1>8, ThenGives
  <2> HIDE DEF s5
  <2>3. ASSUME NEW p, Agrees(buf, p, e4 \o e5)
        PROVE  s4(t.version, t.inputs, t.outputs, p) = Outcome(buf, p, e4 \o e5, t)
    <3> DEFINE r == Word(buf, p)
    <3>1. r = Outcome(buf, p, e4, t.locktime)
      BY <1>1, <1>7, <1>9, <2>3, SplitAgrees
    <3>2. s4(t.version, t.inputs, t.outputs, p)
          = Then(r, s5(t.version, t.inputs, t.outputs, r.val, r.at))
      OBVIOUS
    <3> HIDE DEF r, s4
    <3> QED BY <1>1, <1>9, <2>2, <2>3, <3>1, <3>2, ThenReads
  <2> HIDE DEF s4
  <2>4. ASSUME NEW p, Agrees(buf, p, e3 \o (e4 \o e5))
        PROVE  s3(t.version, t.inputs, p) = Outcome(buf, p, e3 \o (e4 \o e5), t)
    <3> DEFINE r == DecMany([x \in 1 .. Len(buf) + 1 |-> DecOutput(buf, x)], buf, p)
    <3>1. r = Outcome(buf, p, e3, t.outputs)
      BY <1>1, <1>6, <1>9, <2>4, SplitAgrees
    <3>2. s3(t.version, t.inputs, p) = Then(r, s4(t.version, t.inputs, r.val, r.at))
      OBVIOUS
    <3> HIDE DEF r, s3
    <3> QED BY <1>1, <1>9, <2>3, <2>4, <3>1, <3>2, ThenReads
  <2> HIDE DEF s3
  <2>5. ASSUME NEW p, Agrees(buf, p, e2 \o (e3 \o (e4 \o e5)))
        PROVE  s2(t.version, p) = Outcome(buf, p, e2 \o (e3 \o (e4 \o e5)), t)
    <3> DEFINE r == DecMany([x \in 1 .. Len(buf) + 1 |-> DecInput(buf, x)], buf, p)
    <3>1. r = Outcome(buf, p, e2, t.inputs)
      BY <1>1, <1>5, <1>9, <2>5, SplitAgrees
    <3>2. s2(t.version, p) = Then(r, s3(t.version, r.val, r.at))
      OBVIOUS
    <3> HIDE DEF r, s2
    <3> QED BY <1>1, <1>9, <2>4, <2>5, <3>1, <3>2, ThenReads
  <2> HIDE DEF s2
  <2>6. r1 = Outcome(buf, at, e1, t.version)
    BY <1>1, <1>4, <1>9, <1>10, SplitAgrees
  <2> HIDE DEF r1
  <2> QED BY <1>1, <1>9, <1>10, <2>1, <2>5, <2>6, ThenReads
<1> QED BY <1>9, <1>10

LEMMA StringsRead ==
  ASSUME Base \in Nat \ {0}, NEW c, ContributionShape(c)
  PROVE  LET items == [i \in DOMAIN c.inputs |-> Bytes(c.inputs[i])]
         IN /\ IsList(Many(items))
            /\ \A buf, at : Agrees(buf, at, Many(items)) =>
                 DecMany([x \in 1 .. Len(buf) + 1 |-> DecBytes(buf, x)], buf, at)
                   = Outcome(buf, at, Many(items), c.inputs)
<1> DEFINE values == c.inputs
           items == [i \in DOMAIN values |-> Bytes(values[i])]
           item(buf) == [x \in 1 .. Len(buf) + 1 |-> DecBytes(buf, x)]
<1>1. IsList(values)
  BY DEF ContributionShape
<1>2. ASSUME NEW k \in DOMAIN values
      PROVE  /\ IsList(items[k])
             /\ \A buf, q : Agrees(buf, q, items[k]) =>
                  item(buf)[q] = Outcome(buf, q, items[k], values[k])
  <2> DEFINE v == values[k]
  <2>1. items[k] = Bytes(v) /\ v \in ToSet(values)
    BY DEF ToSet
  <2>2. IsList(Bytes(v)) /\ \A buf, q : Agrees(buf, q, Bytes(v)) =>
          DecBytes(buf, q) = Outcome(buf, q, Bytes(v), v)
    BY <2>1, BytesReads DEF ContributionShape
  <2>3. \A buf, q : q \in 1 .. Len(buf) + 1 => item(buf)[q] = DecBytes(buf, q)
    OBVIOUS
  <2> HIDE DEF items, item, v
  <2> QED BY <2>1, <2>2, <2>3, PositionIs DEF v
<1>3. items = [i \in DOMAIN values |-> items[i]]
  OBVIOUS
<1> HIDE DEF items, item, values
<1>4. IsList(Many(items))
  BY <1>1, <1>2, <1>3, ListReads
<1>5. ASSUME NEW buf, NEW at, Agrees(buf, at, Many(items))
      PROVE  DecMany(item(buf), buf, at) = Outcome(buf, at, Many(items), values)
  <2> DEFINE read == item(buf)
  <2>1. \A k \in DOMAIN values : \A q : Agrees(buf, q, items[k]) =>
          read[q] = Outcome(buf, q, items[k], values[k])
    BY <1>2
  <2> HIDE DEF read
  <2>2. ReadsItems(read, buf, items, values)
    BY <1>1, <1>2, <1>3, <2>1, ItemsAre
  <2> QED BY <1>5, <2>2, ManyReads DEF read
<1> QED BY <1>4, <1>5 DEF items, item, values

LEMMA ContributionReads ==
  ASSUME Base \in Nat \ {0}, NEW c, ContributionShape(c)
  PROVE  /\ IsList(EncContribution(c))
         /\ \A buf, at : Agrees(buf, at, EncContribution(c)) =>
              DecContribution(buf, at) = Outcome(buf, at, EncContribution(c), c)
<1> DEFINE e1 == Bytes(c.miner)
           e2 == Bytes(c.proof)
           e3 == Bytes(c.circuit)
           e4 == Many([i \in DOMAIN c.inputs |-> Bytes(c.inputs[i])])
           e5 == <<c.weight>>
           made(miner, proof, circuit, inputs, weight) ==
             [miner |-> miner, proof |-> proof, circuit |-> circuit, inputs |-> inputs,
              weight |-> weight]
<1>1. IsList(e1) /\ IsList(e2) /\ IsList(e3) /\ IsList(e4) /\ IsList(e5)
  BY OneIsList, BytesReads, StringsRead DEF ContributionShape
<1>2. EncContribution(c) = (((e1 \o e2) \o e3) \o e4) \o e5
  BY DEF EncContribution
<1>3. made(c.miner, c.proof, c.circuit, c.inputs, c.weight) = c
  BY DEF ContributionShape
<1>4. \A buf, q : Agrees(buf, q, e1) =>
        DecBytes(buf, q) = Outcome(buf, q, e1, c.miner)
  BY BytesReads DEF ContributionShape
<1>5. \A buf, q : Agrees(buf, q, e2) =>
        DecBytes(buf, q) = Outcome(buf, q, e2, c.proof)
  BY BytesReads DEF ContributionShape
<1>6. \A buf, q : Agrees(buf, q, e3) =>
        DecBytes(buf, q) = Outcome(buf, q, e3, c.circuit)
  BY BytesReads DEF ContributionShape
<1>7. \A buf, q : Agrees(buf, q, e4) =>
        DecMany([x \in 1 .. Len(buf) + 1 |-> DecBytes(buf, x)], buf, q)
          = Outcome(buf, q, e4, c.inputs)
  BY StringsRead
<1>8. \A buf, q : Agrees(buf, q, e5) =>
        Word(buf, q) = Outcome(buf, q, e5, c.weight)
  BY WordReads
<1> HIDE DEF e1, e2, e3, e4, e5, made
<1>9. EncContribution(c) = e1 \o (e2 \o (e3 \o (e4 \o e5))) /\ IsList(EncContribution(c))
      /\ IsList(e2 \o (e3 \o (e4 \o e5)))
      /\ IsList(e3 \o (e4 \o e5))
      /\ IsList(e4 \o e5)
  <2>1. FiveLists(e1, e2, e3, e4, e5)
    BY <1>1 DEF FiveLists, FourLists, ThreeLists
  <2>2. FiveJoined(e1, e2, e3, e4, e5)
    BY ONLY <2>1, ChainFive
  <2> QED BY ONLY <1>2, <2>2 DEF FiveJoined
<1>10. ASSUME NEW buf, NEW at, Agrees(buf, at, EncContribution(c))
      PROVE  DecContribution(buf, at) = Outcome(buf, at, EncContribution(c), c)
  <2> DEFINE s5(miner, proof, circuit, inputs, p) ==
               LET r == Word(buf, p)
               IN Then(r, Read(r.at, made(miner, proof, circuit, inputs, r.val)))
             s4(miner, proof, circuit, p) ==
               LET r == DecMany([x \in 1 .. Len(buf) + 1 |-> DecBytes(buf, x)], buf, p)
               IN Then(r, s5(miner, proof, circuit, r.val, r.at))
             s3(miner, proof, p) ==
               LET r == DecBytes(buf, p)
               IN Then(r, s4(miner, proof, r.val, r.at))
             s2(miner, p) ==
               LET r == DecBytes(buf, p)
               IN Then(r, s3(miner, r.val, r.at))
             r1 == DecBytes(buf, at)
  <2>1. DecContribution(buf, at) = Then(r1, s2(r1.val, r1.at))
    BY DEF DecContribution, Bind, Then, made
  <2>2. \A p : Agrees(buf, p, e5) =>
          s5(c.miner, c.proof, c.circuit, c.inputs, p) = Outcome(buf, p, e5, c)
    BY <1>3, <1>8, ThenGives
  <2> HIDE DEF s5
  <2>3. ASSUME NEW p, Agrees(buf, p, e4 \o e5)
        PROVE  s4(c.miner, c.proof, c.circuit, p) = Outcome(buf, p, e4 \o e5, c)
    <3> DEFINE r == DecMany([x \in 1 .. Len(buf) + 1 |-> DecBytes(buf, x)], buf, p)
    <3>1. r = Outcome(buf, p, e4, c.inputs)
      BY <1>1, <1>7, <1>9, <2>3, SplitAgrees
    <3>2. s4(c.miner, c.proof, c.circuit, p)
          = Then(r, s5(c.miner, c.proof, c.circuit, r.val, r.at))
      OBVIOUS
    <3> HIDE DEF r, s4
    <3> QED BY <1>1, <1>9, <2>2, <2>3, <3>1, <3>2, ThenReads
  <2> HIDE DEF s4
  <2>4. ASSUME NEW p, Agrees(buf, p, e3 \o (e4 \o e5))
        PROVE  s3(c.miner, c.proof, p) = Outcome(buf, p, e3 \o (e4 \o e5), c)
    <3> DEFINE r == DecBytes(buf, p)
    <3>1. r = Outcome(buf, p, e3, c.circuit)
      BY <1>1, <1>6, <1>9, <2>4, SplitAgrees
    <3>2. s3(c.miner, c.proof, p) = Then(r, s4(c.miner, c.proof, r.val, r.at))
      OBVIOUS
    <3> HIDE DEF r, s3
    <3> QED BY <1>1, <1>9, <2>3, <2>4, <3>1, <3>2, ThenReads
  <2> HIDE DEF s3
  <2>5. ASSUME NEW p, Agrees(buf, p, e2 \o (e3 \o (e4 \o e5)))
        PROVE  s2(c.miner, p) = Outcome(buf, p, e2 \o (e3 \o (e4 \o e5)), c)
    <3> DEFINE r == DecBytes(buf, p)
    <3>1. r = Outcome(buf, p, e2, c.proof)
      BY <1>1, <1>5, <1>9, <2>5, SplitAgrees
    <3>2. s2(c.miner, p) = Then(r, s3(c.miner, r.val, r.at))
      OBVIOUS
    <3> HIDE DEF r, s2
    <3> QED BY <1>1, <1>9, <2>4, <2>5, <3>1, <3>2, ThenReads
  <2> HIDE DEF s2
  <2>6. r1 = Outcome(buf, at, e1, c.miner)
    BY <1>1, <1>4, <1>9, <1>10, SplitAgrees
  <2> HIDE DEF r1
  <2> QED BY <1>1, <1>9, <1>10, <2>1, <2>5, <2>6, ThenReads
<1> QED BY <1>9, <1>10

LEMMA ShareReads ==
  ASSUME Base \in Nat \ {0}, NEW s, IsList(s.miner), s = [miner |-> s.miner, weight |-> s.weight]
  PROVE  /\ IsList(EncShare(s))
         /\ \A buf, at : Agrees(buf, at, EncShare(s)) =>
              DecShare(buf, at) = Outcome(buf, at, EncShare(s), s)
<1> DEFINE e1 == Bytes(s.miner)
           e2 == <<s.weight>>
           made(miner, weight) ==
             [miner |-> miner, weight |-> weight]
<1>1. IsList(e1) /\ IsList(e2)
  BY OneIsList, BytesReads
<1>2. EncShare(s) = e1 \o e2
  BY DEF EncShare
<1>3. made(s.miner, s.weight) = s
  OBVIOUS
<1>4. \A buf, q : Agrees(buf, q, e1) =>
        DecBytes(buf, q) = Outcome(buf, q, e1, s.miner)
  BY BytesReads
<1>5. \A buf, q : Agrees(buf, q, e2) =>
        Word(buf, q) = Outcome(buf, q, e2, s.weight)
  BY WordReads
<1> HIDE DEF e1, e2, made
<1>6. EncShare(s) = e1 \o e2 /\ IsList(EncShare(s))
  BY <1>1, <1>2, JoinIs
<1>7. ASSUME NEW buf, NEW at, Agrees(buf, at, EncShare(s))
      PROVE  DecShare(buf, at) = Outcome(buf, at, EncShare(s), s)
  <2> DEFINE s2(miner, p) ==
               LET r == Word(buf, p)
               IN Then(r, Read(r.at, made(miner, r.val)))
             r1 == DecBytes(buf, at)
  <2>1. DecShare(buf, at) = Then(r1, s2(r1.val, r1.at))
    BY DEF DecShare, Bind, Then, made
  <2>2. \A p : Agrees(buf, p, e2) =>
          s2(s.miner, p) = Outcome(buf, p, e2, s)
    BY <1>3, <1>5, ThenGives
  <2> HIDE DEF s2
  <2>3. r1 = Outcome(buf, at, e1, s.miner)
    BY <1>1, <1>4, <1>6, <1>7, SplitAgrees
  <2> HIDE DEF r1
  <2> QED BY <1>1, <1>6, <1>7, <2>1, <2>2, <2>3, ThenReads
<1> QED BY <1>6, <1>7

EpochShape(e) ==
  /\ e = [start |-> e.start, index |-> e.index, shares |-> e.shares, pool |-> e.pool]
  /\ e.index \in Nat /\ e.pool \in Nat /\ IsList(e.shares)
  /\ \A s \in ToSet(e.shares) : s = [miner |-> s.miner, weight |-> s.weight] /\ IsList(s.miner)

LEMMA SharesRead ==
  ASSUME Base \in Nat \ {0}, NEW e, EpochShape(e)
  PROVE  LET items == [i \in DOMAIN e.shares |-> EncShare(e.shares[i])]
         IN /\ IsList(Many(items))
            /\ \A buf, at : Agrees(buf, at, Many(items)) =>
                 DecMany([x \in 1 .. Len(buf) + 1 |-> DecShare(buf, x)], buf, at)
                   = Outcome(buf, at, Many(items), e.shares)
<1> DEFINE values == e.shares
           items == [i \in DOMAIN values |-> EncShare(values[i])]
           item(buf) == [x \in 1 .. Len(buf) + 1 |-> DecShare(buf, x)]
<1>1. IsList(values)
  BY DEF EpochShape
<1>2. ASSUME NEW k \in DOMAIN values
      PROVE  /\ IsList(items[k])
             /\ \A buf, q : Agrees(buf, q, items[k]) =>
                  item(buf)[q] = Outcome(buf, q, items[k], values[k])
  <2> DEFINE v == values[k]
  <2>1. items[k] = EncShare(v) /\ v \in ToSet(values)
    BY DEF ToSet
  <2>2. IsList(EncShare(v)) /\ \A buf, q : Agrees(buf, q, EncShare(v)) =>
          DecShare(buf, q) = Outcome(buf, q, EncShare(v), v)
    BY <2>1, ShareReads DEF EpochShape
  <2>3. \A buf, q : q \in 1 .. Len(buf) + 1 => item(buf)[q] = DecShare(buf, q)
    OBVIOUS
  <2> HIDE DEF items, item, v
  <2> QED BY <2>1, <2>2, <2>3, PositionIs DEF v
<1>3. items = [i \in DOMAIN values |-> items[i]]
  OBVIOUS
<1> HIDE DEF items, item, values
<1>4. IsList(Many(items))
  BY <1>1, <1>2, <1>3, ListReads
<1>5. ASSUME NEW buf, NEW at, Agrees(buf, at, Many(items))
      PROVE  DecMany(item(buf), buf, at) = Outcome(buf, at, Many(items), values)
  <2> DEFINE read == item(buf)
  <2>1. \A k \in DOMAIN values : \A q : Agrees(buf, q, items[k]) =>
          read[q] = Outcome(buf, q, items[k], values[k])
    BY <1>2
  <2> HIDE DEF read
  <2>2. ReadsItems(read, buf, items, values)
    BY <1>1, <1>2, <1>3, <2>1, ItemsAre
  <2> QED BY <1>5, <2>2, ManyReads DEF read
<1> QED BY <1>4, <1>5 DEF items, item, values

LEMMA EpochReads ==
  ASSUME Base \in Nat \ {0}, Half \in Nat \ {0}, NEW e, EpochShape(e)
  PROVE  /\ IsList(EncEpoch(e))
         /\ \A buf, at : Agrees(buf, at, EncEpoch(e)) =>
              DecEpoch(buf, at) = Outcome(buf, at, EncEpoch(e), e)
<1> DEFINE e1 == <<e.start>>
           e2 == VarInt(e.index)
           e3 == Many([i \in DOMAIN e.shares |-> EncShare(e.shares[i])])
           e4 == Amount(e.pool)
           made(start, index, shares, pool) ==
             [start |-> start, index |-> index, shares |-> shares, pool |-> pool]
<1>1. IsList(e1) /\ IsList(e2) /\ IsList(e3) /\ IsList(e4)
  BY OneIsList, VarIntIsList, SharesRead, AmountReads DEF EpochShape
<1>2. EncEpoch(e) = ((e1 \o e2) \o e3) \o e4
  BY DEF EncEpoch
<1>3. made(e.start, e.index, e.shares, e.pool) = e
  BY DEF EpochShape
<1>4. \A buf, q : Agrees(buf, q, e1) =>
        Word(buf, q) = Outcome(buf, q, e1, e.start)
  BY WordReads
<1>5. \A buf, q : Agrees(buf, q, e2) =>
        DecVarInt(buf, q) = Outcome(buf, q, e2, e.index)
  BY VarIntReads DEF EpochShape
<1>6. \A buf, q : Agrees(buf, q, e3) =>
        DecMany([x \in 1 .. Len(buf) + 1 |-> DecShare(buf, x)], buf, q)
          = Outcome(buf, q, e3, e.shares)
  BY SharesRead
<1>7. \A buf, q : Agrees(buf, q, e4) =>
        DecAmount(buf, q) = Outcome(buf, q, e4, e.pool)
  BY AmountReads DEF EpochShape
<1> HIDE DEF e1, e2, e3, e4, made
<1>8. EncEpoch(e) = e1 \o (e2 \o (e3 \o e4)) /\ IsList(EncEpoch(e))
      /\ IsList(e2 \o (e3 \o e4))
      /\ IsList(e3 \o e4)
  <2>1. FourLists(e1, e2, e3, e4)
    BY <1>1 DEF FiveLists, FourLists, ThreeLists
  <2>2. FourJoined(e1, e2, e3, e4)
    BY ONLY <2>1, ChainFour
  <2> QED BY ONLY <1>2, <2>2 DEF FourJoined
<1>9. ASSUME NEW buf, NEW at, Agrees(buf, at, EncEpoch(e))
      PROVE  DecEpoch(buf, at) = Outcome(buf, at, EncEpoch(e), e)
  <2> DEFINE s4(start, index, shares, p) ==
               LET r == DecAmount(buf, p)
               IN Then(r, Read(r.at, made(start, index, shares, r.val)))
             s3(start, index, p) ==
               LET r == DecMany([x \in 1 .. Len(buf) + 1 |-> DecShare(buf, x)], buf, p)
               IN Then(r, s4(start, index, r.val, r.at))
             s2(start, p) ==
               LET r == DecVarInt(buf, p)
               IN Then(r, s3(start, r.val, r.at))
             r1 == Word(buf, at)
  <2>1. DecEpoch(buf, at) = Then(r1, s2(r1.val, r1.at))
    BY DEF DecEpoch, Bind, Then, made
  <2>2. \A p : Agrees(buf, p, e4) =>
          s4(e.start, e.index, e.shares, p) = Outcome(buf, p, e4, e)
    BY <1>3, <1>7, ThenGives
  <2> HIDE DEF s4
  <2>3. ASSUME NEW p, Agrees(buf, p, e3 \o e4)
        PROVE  s3(e.start, e.index, p) = Outcome(buf, p, e3 \o e4, e)
    <3> DEFINE r == DecMany([x \in 1 .. Len(buf) + 1 |-> DecShare(buf, x)], buf, p)
    <3>1. r = Outcome(buf, p, e3, e.shares)
      BY <1>1, <1>6, <1>8, <2>3, SplitAgrees
    <3>2. s3(e.start, e.index, p) = Then(r, s4(e.start, e.index, r.val, r.at))
      OBVIOUS
    <3> HIDE DEF r, s3
    <3> QED BY <1>1, <1>8, <2>2, <2>3, <3>1, <3>2, ThenReads
  <2> HIDE DEF s3
  <2>4. ASSUME NEW p, Agrees(buf, p, e2 \o (e3 \o e4))
        PROVE  s2(e.start, p) = Outcome(buf, p, e2 \o (e3 \o e4), e)
    <3> DEFINE r == DecVarInt(buf, p)
    <3>1. r = Outcome(buf, p, e2, e.index)
      BY <1>1, <1>5, <1>8, <2>4, SplitAgrees
    <3>2. s2(e.start, p) = Then(r, s3(e.start, r.val, r.at))
      OBVIOUS
    <3> HIDE DEF r, s2
    <3> QED BY <1>1, <1>8, <2>3, <2>4, <3>1, <3>2, ThenReads
  <2> HIDE DEF s2
  <2>5. r1 = Outcome(buf, at, e1, e.start)
    BY <1>1, <1>4, <1>8, <1>9, SplitAgrees
  <2> HIDE DEF r1
  <2> QED BY <1>1, <1>8, <1>9, <2>1, <2>4, <2>5, ThenReads
<1> QED BY <1>8, <1>9

LEMMA WholeAgrees == ASSUME NEW e, IsList(e) PROVE Agrees(e, 1, e)
<1>1. Len(e) \in Nat
  BY ListIs
<1>2. \A i \in 1 .. Len(e) : 1 + i - 1 = i
  BY <1>1
<1> QED BY <1>1, <1>2 DEF Agrees

LEMMA FramedTxReads ==
  ASSUME Base \in Nat \ {0}, Half \in Nat \ {0}, NEW t, TxShape(t)
  PROVE  /\ IsList(EncFramedTx(t))
         /\ \A buf, at : Agrees(buf, at, EncFramedTx(t)) =>
              DecFramedTx(buf, at) = Outcome(buf, at, EncFramedTx(t), t)
<1> DEFINE e == EncTx(t)
           f == Bytes(e)
<1>1. IsList(e)
  BY TxReads
<1>2. IsList(f) /\ \A buf, at : Agrees(buf, at, f) => DecBytes(buf, at) = Outcome(buf, at, f, e)
  <2> HIDE DEF e
  <2> QED BY <1>1, BytesReads
<1>3. DecTx(e, 1).ok /\ DecTx(e, 1).val = t
  <2>1. DecTx(e, 1) = Outcome(e, 1, e, t)
    BY <1>1, TxReads, WholeAgrees
  <2> HIDE DEF e
  <2>2. 1 + Len(e) <= Len(e) + 1
    BY <1>1, ListIs
  <2> QED BY <2>1, <2>2, OutcomeIs
<1>4. EncFramedTx(t) = f
  BY DEF EncFramedTx
<1>5. ASSUME NEW buf, NEW at, Agrees(buf, at, f)
      PROVE  DecFramedTx(buf, at) = Outcome(buf, at, f, t)
  <2> DEFINE r == DecBytes(buf, at)
             next == Then(DecTx(r.val, 1), Read(r.at, DecTx(r.val, 1).val))
  <2>1. DecFramedTx(buf, at) = Then(r, next)
    BY DEF DecFramedTx, Bind, Then
  <2>2. r = Outcome(buf, at, f, e)
    BY <1>2, <1>5
  <2> HIDE DEF r, e, f
  <2>3. r.val = e /\ r.at = at + Len(f) => next = Read(at + Len(f), t)
    BY <1>3 DEF Then
  <2> HIDE DEF next
  <2> QED BY <2>1, <2>2, <2>3, ThenGives
<1> QED BY <1>2, <1>4, <1>5

LEMMA AuditReads ==
  ASSUME Base \in Nat \ {0}, NEW a, a = [id |-> a.id, result |-> a.result]
  PROVE  /\ IsList(EncAudit(a))
         /\ \A buf, at : Agrees(buf, at, EncAudit(a)) =>
              DecAudit(buf, at) = Outcome(buf, at, EncAudit(a), a)
<1> DEFINE e == <<a.id, a.result>>
           f == Bytes(e)
           made(raw) == [id |-> raw[1], result |-> raw[2]]
<1>1. IsList(e)
  BY TwoIsList
<1>2. made(e) = a
  OBVIOUS
<1>3. EncAudit(a) = f
  BY DEF EncAudit
<1> HIDE DEF e, made
<1>4. IsList(f) /\ \A buf, at : Agrees(buf, at, f) => DecBytes(buf, at) = Outcome(buf, at, f, e)
  BY <1>1, BytesReads
<1>5. ASSUME NEW buf, NEW at, Agrees(buf, at, f)
      PROVE  DecAudit(buf, at) = Outcome(buf, at, f, a)
  <2> DEFINE r == DecBytes(buf, at)
  <2>1. DecAudit(buf, at) = Then(r, Read(r.at, made(r.val)))
    BY DEF DecAudit, Bind, Then, made
  <2>2. r = Outcome(buf, at, f, e)
    BY <1>4, <1>5
  <2> HIDE DEF r, f
  <2> QED BY <1>2, <2>1, <2>2, ThenGives
<1> QED BY <1>3, <1>4, <1>5

\* The fields of a header, in the order they are written.
HeaderShape(h) == h = [f \in ToSet(HeaderFields) |-> h[f]]

LEMMA FieldsAre ==
  /\ IsList(HeaderFields) /\ Len(HeaderFields) = 8
  /\ ToSet(HeaderFields) = {"version", "prevHash", "merkleRoot", "computeRoot", "epochRoot",
                            "auditRoot", "timestamp", "height"}
  /\ \A i \in 1 .. 8 : HeaderFields[i] \in ToSet(HeaderFields)
  /\ \A f \in ToSet(HeaderFields) : \E i \in 1 .. 8 : HeaderFields[i] = f
  /\ \A i, j \in 1 .. 8 : HeaderFields[i] = HeaderFields[j] => i = j
<1>1. DOMAIN HeaderFields = 1 .. 8 /\ HeaderFields = [i \in 1 .. 8 |-> HeaderFields[i]]
  BY DEF HeaderFields
<1>2. IsList(HeaderFields) /\ DOMAIN HeaderFields = 1 .. 8 /\ Len(HeaderFields) = 8
  <2>1. 8 \in Nat
    OBVIOUS
  <2> QED BY ONLY <1>1, <2>1, MakeList
<1>3. ToSet(HeaderFields) = {HeaderFields[i] : i \in 1 .. 8}
  BY <1>2 DEF ToSet
<1>4. /\ HeaderFields[1] = "version" /\ HeaderFields[2] = "prevHash"
      /\ HeaderFields[3] = "merkleRoot" /\ HeaderFields[4] = "computeRoot"
      /\ HeaderFields[5] = "epochRoot" /\ HeaderFields[6] = "auditRoot"
      /\ HeaderFields[7] = "timestamp" /\ HeaderFields[8] = "height"
  BY DEF HeaderFields
<1>5. \A i \in 1 .. 8 : i = 1 \/ i = 2 \/ i = 3 \/ i = 4 \/ i = 5 \/ i = 6 \/ i = 7 \/ i = 8
  OBVIOUS
<1>6. \A i, j \in 1 .. 8 : HeaderFields[i] = HeaderFields[j] => i = j
  <2>1. \A i, j \in 1 .. 8 : i < j => HeaderFields[i] # HeaderFields[j]
    BY <1>4, <1>5
  <2>2. \A i, j \in 1 .. 8 : i < j \/ j < i \/ i = j
    OBVIOUS
  <2> QED BY <2>1, <2>2
<1>7. ToSet(HeaderFields) = {"version", "prevHash", "merkleRoot", "computeRoot", "epochRoot",
                             "auditRoot", "timestamp", "height"}
  BY <1>3, <1>4, <1>5
<1> QED BY <1>2, <1>3, <1>6, <1>7

LEMMA HeaderReads ==
  ASSUME NEW h, HeaderShape(h)
  PROVE  /\ IsList(EncHeader(h))
         /\ \A buf, at : Agrees(buf, at, EncHeader(h)) =>
              DecHeader(buf, at) = Outcome(buf, at, EncHeader(h), h)
<1> DEFINE words == [i \in 1 .. 8 |-> h[HeaderFields[i]]]
           e == EncHeader(h)
           place(f) == CHOOSE i \in 1 .. 8 : HeaderFields[i] = f
           made(raw) == [f \in ToSet(HeaderFields) |-> raw[place(f)]]
<1>1. IsList(words) /\ Len(words) = 8
  <2>1. DOMAIN words = 1 .. 8 /\ words = [i \in 1 .. 8 |-> words[i]] /\ 8 \in Nat
    OBVIOUS
  <2> HIDE DEF words
  <2> QED BY <2>1, MakeList
<1>2. /\ IsList(e) /\ Len(e) = 9 /\ e[9] = 0
      /\ \A i \in 1 .. 8 : e[i] = words[i]
  <2> DEFINE zero == <<0>>
  <2>1. e = words \o zero
    BY DEF EncHeader
  <2>2. IsList(zero) /\ Len(zero) = 1 /\ zero[1] = 0
    BY OneIsList
  <2> HIDE DEF e, words, zero
  <2>3. /\ IsList(words \o zero) /\ Len(words \o zero) = Len(words) + Len(zero)
        /\ \A i \in 1 .. Len(words) : (words \o zero)[i] = words[i]
        /\ \A i \in 1 .. Len(zero) : (words \o zero)[Len(words) + i] = zero[i]
    <3>1. IsList(words) /\ IsList(zero)
      BY <1>1, <2>2
    <3> QED BY ONLY <3>1, JoinIs
  <2>4. Len(words) + Len(zero) = 9 /\ Len(words) + 1 = 9 /\ 1 \in 1 .. Len(zero)
    BY <1>1, <2>2
  <2> QED BY <1>1, <2>1, <2>2, <2>3, <2>4
<1>3. \A f \in ToSet(HeaderFields) : place(f) \in 1 .. 8 /\ HeaderFields[place(f)] = f
  BY FieldsAre
<1>4. made(e) = h
  <2>1. \A f \in ToSet(HeaderFields) : e[place(f)] = h[f]
    <3> HIDE DEF e, place
    <3> QED BY <1>2, <1>3
  <2> HIDE DEF e, place
  <2> QED BY <2>1 DEF HeaderShape
<1>5. ASSUME NEW buf, NEW at, Agrees(buf, at, e)
      PROVE  DecHeader(buf, at) = Outcome(buf, at, e, h)
  <2> DEFINE r == Raw(buf, 9, at)
             next == IF r.val[9] # 0 THEN Fail ELSE Read(r.at, made(r.val))
  <2>1. DecHeader(buf, at) = Then(r, next)
    BY DEF DecHeader, Bind, Then
  <2> HIDE DEF e, made
  <2>2. r = Outcome(buf, at, e, e)
    BY <1>2, <1>5, RawReads
  <2> HIDE DEF r
  <2>3. r.val = e /\ r.at = at + Len(e) => next = Read(at + Len(e), h)
    BY <1>2, <1>4
  <2> HIDE DEF next
  <2> QED BY <2>1, <2>2, <2>3, ThenGives
<1> QED BY <1>2, <1>5

\* A block whose parts can be read back.
BlockShape(b) ==
  /\ b = [header |-> b.header, transactions |-> b.transactions, proofs |-> b.proofs,
          audits |-> b.audits, epoch |-> b.epoch]
  /\ HeaderShape(b.header)
  /\ IsList(b.transactions) /\ \A t \in ToSet(b.transactions) : TxShape(t)
  /\ IsList(b.proofs) /\ \A c \in ToSet(b.proofs) : ContributionShape(c)
  /\ IsList(b.audits) /\ \A a \in ToSet(b.audits) : a = [id |-> a.id, result |-> a.result]
  /\ EpochShape(b.epoch)

LEMMA TransactionsRead ==
  ASSUME Base \in Nat \ {0}, Half \in Nat \ {0}, NEW b, BlockShape(b)
  PROVE  LET items == [i \in DOMAIN b.transactions |-> EncFramedTx(b.transactions[i])]
         IN /\ IsList(Many(items))
            /\ \A buf, at : Agrees(buf, at, Many(items)) =>
                 DecMany([x \in 1 .. Len(buf) + 1 |-> DecFramedTx(buf, x)], buf, at)
                   = Outcome(buf, at, Many(items), b.transactions)
<1> DEFINE values == b.transactions
           items == [i \in DOMAIN values |-> EncFramedTx(values[i])]
           item(buf) == [x \in 1 .. Len(buf) + 1 |-> DecFramedTx(buf, x)]
<1>1. IsList(values)
  BY DEF BlockShape
<1>2. ASSUME NEW k \in DOMAIN values
      PROVE  /\ IsList(items[k])
             /\ \A buf, q : Agrees(buf, q, items[k]) =>
                  item(buf)[q] = Outcome(buf, q, items[k], values[k])
  <2> DEFINE v == values[k]
  <2>1. items[k] = EncFramedTx(v) /\ v \in ToSet(values)
    BY DEF ToSet
  <2>2. IsList(EncFramedTx(v)) /\ \A buf, q : Agrees(buf, q, EncFramedTx(v)) =>
          DecFramedTx(buf, q) = Outcome(buf, q, EncFramedTx(v), v)
    BY <2>1, FramedTxReads DEF BlockShape
  <2>3. \A buf, q : q \in 1 .. Len(buf) + 1 => item(buf)[q] = DecFramedTx(buf, q)
    OBVIOUS
  <2> HIDE DEF items, item, v
  <2> QED BY <2>1, <2>2, <2>3, PositionIs DEF v
<1>3. items = [i \in DOMAIN values |-> items[i]]
  OBVIOUS
<1> HIDE DEF items, item, values
<1>4. IsList(Many(items))
  BY <1>1, <1>2, <1>3, ListReads
<1>5. ASSUME NEW buf, NEW at, Agrees(buf, at, Many(items))
      PROVE  DecMany(item(buf), buf, at) = Outcome(buf, at, Many(items), values)
  <2> DEFINE read == item(buf)
  <2>1. \A k \in DOMAIN values : \A q : Agrees(buf, q, items[k]) =>
          read[q] = Outcome(buf, q, items[k], values[k])
    BY <1>2
  <2> HIDE DEF read
  <2>2. ReadsItems(read, buf, items, values)
    BY <1>1, <1>2, <1>3, <2>1, ItemsAre
  <2> QED BY <1>5, <2>2, ManyReads DEF read
<1> QED BY <1>4, <1>5 DEF items, item, values

LEMMA ContributionsRead ==
  ASSUME Base \in Nat \ {0}, NEW b, BlockShape(b)
  PROVE  LET items == [i \in DOMAIN b.proofs |-> EncContribution(b.proofs[i])]
         IN /\ IsList(Many(items))
            /\ \A buf, at : Agrees(buf, at, Many(items)) =>
                 DecMany([x \in 1 .. Len(buf) + 1 |-> DecContribution(buf, x)], buf, at)
                   = Outcome(buf, at, Many(items), b.proofs)
<1> DEFINE values == b.proofs
           items == [i \in DOMAIN values |-> EncContribution(values[i])]
           item(buf) == [x \in 1 .. Len(buf) + 1 |-> DecContribution(buf, x)]
<1>1. IsList(values)
  BY DEF BlockShape
<1>2. ASSUME NEW k \in DOMAIN values
      PROVE  /\ IsList(items[k])
             /\ \A buf, q : Agrees(buf, q, items[k]) =>
                  item(buf)[q] = Outcome(buf, q, items[k], values[k])
  <2> DEFINE v == values[k]
  <2>1. items[k] = EncContribution(v) /\ v \in ToSet(values)
    BY DEF ToSet
  <2>2. IsList(EncContribution(v)) /\ \A buf, q : Agrees(buf, q, EncContribution(v)) =>
          DecContribution(buf, q) = Outcome(buf, q, EncContribution(v), v)
    BY <2>1, ContributionReads DEF BlockShape
  <2>3. \A buf, q : q \in 1 .. Len(buf) + 1 => item(buf)[q] = DecContribution(buf, q)
    OBVIOUS
  <2> HIDE DEF items, item, v
  <2> QED BY <2>1, <2>2, <2>3, PositionIs DEF v
<1>3. items = [i \in DOMAIN values |-> items[i]]
  OBVIOUS
<1> HIDE DEF items, item, values
<1>4. IsList(Many(items))
  BY <1>1, <1>2, <1>3, ListReads
<1>5. ASSUME NEW buf, NEW at, Agrees(buf, at, Many(items))
      PROVE  DecMany(item(buf), buf, at) = Outcome(buf, at, Many(items), values)
  <2> DEFINE read == item(buf)
  <2>1. \A k \in DOMAIN values : \A q : Agrees(buf, q, items[k]) =>
          read[q] = Outcome(buf, q, items[k], values[k])
    BY <1>2
  <2> HIDE DEF read
  <2>2. ReadsItems(read, buf, items, values)
    BY <1>1, <1>2, <1>3, <2>1, ItemsAre
  <2> QED BY <1>5, <2>2, ManyReads DEF read
<1> QED BY <1>4, <1>5 DEF items, item, values

LEMMA AuditsRead ==
  ASSUME Base \in Nat \ {0}, NEW b, BlockShape(b)
  PROVE  LET items == [i \in DOMAIN b.audits |-> EncAudit(b.audits[i])]
         IN /\ IsList(Many(items))
            /\ \A buf, at : Agrees(buf, at, Many(items)) =>
                 DecMany([x \in 1 .. Len(buf) + 1 |-> DecAudit(buf, x)], buf, at)
                   = Outcome(buf, at, Many(items), b.audits)
<1> DEFINE values == b.audits
           items == [i \in DOMAIN values |-> EncAudit(values[i])]
           item(buf) == [x \in 1 .. Len(buf) + 1 |-> DecAudit(buf, x)]
<1>1. IsList(values)
  BY DEF BlockShape
<1>2. ASSUME NEW k \in DOMAIN values
      PROVE  /\ IsList(items[k])
             /\ \A buf, q : Agrees(buf, q, items[k]) =>
                  item(buf)[q] = Outcome(buf, q, items[k], values[k])
  <2> DEFINE v == values[k]
  <2>1. items[k] = EncAudit(v) /\ v \in ToSet(values)
    BY DEF ToSet
  <2>2. IsList(EncAudit(v)) /\ \A buf, q : Agrees(buf, q, EncAudit(v)) =>
          DecAudit(buf, q) = Outcome(buf, q, EncAudit(v), v)
    BY <2>1, AuditReads DEF BlockShape
  <2>3. \A buf, q : q \in 1 .. Len(buf) + 1 => item(buf)[q] = DecAudit(buf, q)
    OBVIOUS
  <2> HIDE DEF items, item, v
  <2> QED BY <2>1, <2>2, <2>3, PositionIs DEF v
<1>3. items = [i \in DOMAIN values |-> items[i]]
  OBVIOUS
<1> HIDE DEF items, item, values
<1>4. IsList(Many(items))
  BY <1>1, <1>2, <1>3, ListReads
<1>5. ASSUME NEW buf, NEW at, Agrees(buf, at, Many(items))
      PROVE  DecMany(item(buf), buf, at) = Outcome(buf, at, Many(items), values)
  <2> DEFINE read == item(buf)
  <2>1. \A k \in DOMAIN values : \A q : Agrees(buf, q, items[k]) =>
          read[q] = Outcome(buf, q, items[k], values[k])
    BY <1>2
  <2> HIDE DEF read
  <2>2. ReadsItems(read, buf, items, values)
    BY <1>1, <1>2, <1>3, <2>1, ItemsAre
  <2> QED BY <1>5, <2>2, ManyReads DEF read
<1> QED BY <1>4, <1>5 DEF items, item, values

LEMMA BlockReads ==
  ASSUME Base \in Nat \ {0}, Half \in Nat \ {0}, NEW b, BlockShape(b)
  PROVE  /\ IsList(EncodeBlock(b))
         /\ \A buf : Agrees(buf, 1, EncodeBlock(b)) =>
              DecodeBlock(buf) = Outcome(buf, 1, EncodeBlock(b), b)
<1> DEFINE e1 == EncHeader(b.header)
           e2 == Many([i \in DOMAIN b.transactions |-> EncFramedTx(b.transactions[i])])
           e3 == Many([i \in DOMAIN b.proofs |-> EncContribution(b.proofs[i])])
           e4 == Many([i \in DOMAIN b.audits |-> EncAudit(b.audits[i])])
           e5 == EncEpoch(b.epoch)
           made(header, txs, proofs, audits, epoch) ==
             [header |-> header, transactions |-> txs, proofs |-> proofs, audits |-> audits,
              epoch |-> epoch]
<1>1. IsList(e1) /\ IsList(e2) /\ IsList(e3) /\ IsList(e4) /\ IsList(e5)
  BY HeaderReads, TransactionsRead, ContributionsRead, AuditsRead, EpochReads DEF BlockShape
<1>2. EncodeBlock(b) = (((e1 \o e2) \o e3) \o e4) \o e5
  BY DEF EncodeBlock
<1>3. made(b.header, b.transactions, b.proofs, b.audits, b.epoch) = b
  BY DEF BlockShape
<1>4. \A buf, q : Agrees(buf, q, e1) =>
        DecHeader(buf, q) = Outcome(buf, q, e1, b.header)
  BY HeaderReads DEF BlockShape
<1>5. \A buf, q : Agrees(buf, q, e2) =>
        DecMany([x \in 1 .. Len(buf) + 1 |-> DecFramedTx(buf, x)], buf, q)
          = Outcome(buf, q, e2, b.transactions)
  BY TransactionsRead
<1>6. \A buf, q : Agrees(buf, q, e3) =>
        DecMany([x \in 1 .. Len(buf) + 1 |-> DecContribution(buf, x)], buf, q)
          = Outcome(buf, q, e3, b.proofs)
  BY ContributionsRead
<1>7. \A buf, q : Agrees(buf, q, e4) =>
        DecMany([x \in 1 .. Len(buf) + 1 |-> DecAudit(buf, x)], buf, q)
          = Outcome(buf, q, e4, b.audits)
  BY AuditsRead
<1>8. \A buf, q : Agrees(buf, q, e5) =>
        DecEpoch(buf, q) = Outcome(buf, q, e5, b.epoch)
  BY EpochReads DEF BlockShape
<1> HIDE DEF e1, e2, e3, e4, e5, made
<1>9. EncodeBlock(b) = e1 \o (e2 \o (e3 \o (e4 \o e5))) /\ IsList(EncodeBlock(b))
      /\ IsList(e2 \o (e3 \o (e4 \o e5)))
      /\ IsList(e3 \o (e4 \o e5))
      /\ IsList(e4 \o e5)
  <2>1. FiveLists(e1, e2, e3, e4, e5)
    BY <1>1 DEF FiveLists, FourLists, ThreeLists
  <2>2. FiveJoined(e1, e2, e3, e4, e5)
    BY ONLY <2>1, ChainFive
  <2> QED BY ONLY <1>2, <2>2 DEF FiveJoined
<1>10. ASSUME NEW buf, Agrees(buf, 1, EncodeBlock(b))
      PROVE  DecodeBlock(buf) = Outcome(buf, 1, EncodeBlock(b), b)
  <2> DEFINE s5(header, txs, proofs, audits, p) ==
               LET r == DecEpoch(buf, p)
               IN Then(r, Read(r.at, made(header, txs, proofs, audits, r.val)))
             s4(header, txs, proofs, p) ==
               LET r == DecMany([x \in 1 .. Len(buf) + 1 |-> DecAudit(buf, x)], buf, p)
               IN Then(r, s5(header, txs, proofs, r.val, r.at))
             s3(header, txs, p) ==
               LET r == DecMany([x \in 1 .. Len(buf) + 1 |-> DecContribution(buf, x)], buf, p)
               IN Then(r, s4(header, txs, r.val, r.at))
             s2(header, p) ==
               LET r == DecMany([x \in 1 .. Len(buf) + 1 |-> DecFramedTx(buf, x)], buf, p)
               IN Then(r, s3(header, r.val, r.at))
             r1 == DecHeader(buf, 1)
  <2>1. DecodeBlock(buf) = Then(r1, s2(r1.val, r1.at))
    BY DEF DecodeBlock, Bind, Then, made
  <2>2. \A p : Agrees(buf, p, e5) =>
          s5(b.header, b.transactions, b.proofs, b.audits, p) = Outcome(buf, p, e5, b)
    BY <1>3, <1>8, ThenGives
  <2> HIDE DEF s5
  <2>3. ASSUME NEW p, Agrees(buf, p, e4 \o e5)
        PROVE  s4(b.header, b.transactions, b.proofs, p) = Outcome(buf, p, e4 \o e5, b)
    <3> DEFINE r == DecMany([x \in 1 .. Len(buf) + 1 |-> DecAudit(buf, x)], buf, p)
    <3>1. r = Outcome(buf, p, e4, b.audits)
      BY <1>1, <1>7, <1>9, <2>3, SplitAgrees
    <3>2. s4(b.header, b.transactions, b.proofs, p)
          = Then(r, s5(b.header, b.transactions, b.proofs, r.val, r.at))
      OBVIOUS
    <3> HIDE DEF r, s4
    <3> QED BY <1>1, <1>9, <2>2, <2>3, <3>1, <3>2, ThenReads
  <2> HIDE DEF s4
  <2>4. ASSUME NEW p, Agrees(buf, p, e3 \o (e4 \o e5))
        PROVE  s3(b.header, b.transactions, p) = Outcome(buf, p, e3 \o (e4 \o e5), b)
    <3> DEFINE r == DecMany([x \in 1 .. Len(buf) + 1 |-> DecContribution(buf, x)], buf, p)
    <3>1. r = Outcome(buf, p, e3, b.proofs)
      BY <1>1, <1>6, <1>9, <2>4, SplitAgrees
    <3>2. s3(b.header, b.transactions, p) = Then(r, s4(b.header, b.transactions, r.val, r.at))
      OBVIOUS
    <3> HIDE DEF r, s3
    <3> QED BY <1>1, <1>9, <2>3, <2>4, <3>1, <3>2, ThenReads
  <2> HIDE DEF s3
  <2>5. ASSUME NEW p, Agrees(buf, p, e2 \o (e3 \o (e4 \o e5)))
        PROVE  s2(b.header, p) = Outcome(buf, p, e2 \o (e3 \o (e4 \o e5)), b)
    <3> DEFINE r == DecMany([x \in 1 .. Len(buf) + 1 |-> DecFramedTx(buf, x)], buf, p)
    <3>1. r = Outcome(buf, p, e2, b.transactions)
      BY <1>1, <1>5, <1>9, <2>5, SplitAgrees
    <3>2. s2(b.header, p) = Then(r, s3(b.header, r.val, r.at))
      OBVIOUS
    <3> HIDE DEF r, s2
    <3> QED BY <1>1, <1>9, <2>4, <2>5, <3>1, <3>2, ThenReads
  <2> HIDE DEF s2
  <2>6. r1 = Outcome(buf, 1, e1, b.header)
    BY <1>1, <1>4, <1>9, <1>10, SplitAgrees
  <2> HIDE DEF r1
  <2> QED BY <1>1, <1>9, <1>10, <2>1, <2>5, <2>6, ThenReads
<1> QED BY <1>9, <1>10

(* Encodings: lists in the order of their keys                                *)

\* A numbering of 1 .. n along which the keys grow.
KeyOrder(p, key, n) ==
  p \in [1 .. n -> 1 .. n] /\ \A i, j \in 1 .. n : i < j => key[p[i]] < key[p[j]]

\* A numbering that grows is the identity.
LEMMA GrowsOneByOne ==
  ASSUME NEW n \in Nat, NEW q \in [1 .. n -> 1 .. n],
         \A i, j \in 1 .. n : i < j => q[i] < q[j]
  PROVE  \A i \in 1 .. n : q[i] = i
<1> DEFINE Low == {i \in 0 .. n : i = 0 \/ i <= q[i]}
           High == {k \in 0 .. n : k = n \/ q[n - k] <= n - k}
<1>1. 0 .. n \subseteq Low
  <2>1. 0 \in Low
    OBVIOUS
  <2>2. ASSUME NEW i \in 1 .. n, i - 1 \in Low PROVE i \in Low
    <3>1. CASE i = 1
      BY <3>1
    <3>2. CASE i # 1
      <4>1. i - 1 \in 1 .. n /\ i - 1 < i /\ i - 1 <= q[i - 1]
        BY <2>2, <3>2
      <4>2. q[i - 1] < q[i] /\ q[i] \in Int /\ q[i - 1] \in Int
        BY <4>1
      <4> QED BY <4>1, <4>2
    <3> QED BY <3>1, <3>2
  <2> HIDE DEF Low
  <2> QED BY <2>1, <2>2, Along
<1>2. 0 .. n \subseteq High
  <2>1. 0 \in High
    OBVIOUS
  <2>2. ASSUME NEW i \in 1 .. n, i - 1 \in High PROVE i \in High
    <3>1. CASE i = n
      BY <3>1
    <3>2. CASE i # n
      <4>1. /\ n - i \in 1 .. n /\ n - (i - 1) \in 1 .. n /\ n - i < n - (i - 1)
            /\ q[n - (i - 1)] <= n - (i - 1)
        BY <2>2, <3>2
      <4>2. q[n - i] < q[n - (i - 1)] /\ q[n - i] \in Int /\ q[n - (i - 1)] \in Int
        BY <4>1
      <4>3. q[n - i] <= n - i
        BY <4>1, <4>2
      <4> QED BY <4>3
    <3> QED BY <3>1, <3>2
  <2> HIDE DEF High
  <2> QED BY <2>1, <2>2, Along
<1>3. ASSUME NEW i \in 1 .. n PROVE q[i] = i
  <2>1. i <= q[i]
    BY <1>1
  <2>2. n - i \in 0 .. n /\ n - i # n /\ n - (n - i) = i
    OBVIOUS
  <2>3. q[i] <= i
    BY <1>2, <2>2
  <2> QED BY <2>1, <2>3
<1> QED BY <1>3

\* Keys grow along one numbering only.
LEMMA OneKeyOrder ==
  ASSUME NEW n \in Nat, NEW key, \A i \in 1 .. n : key[i] \in Int,
         NEW p, KeyOrder(p, key, n), NEW q, KeyOrder(q, key, n)
  PROVE  p = q
<1>1. p \in [1 .. n -> 1 .. n] /\ q \in [1 .. n -> 1 .. n]
  BY DEF KeyOrder
<1>2. \A i, j \in 1 .. n : p[i] = p[j] => i = j
  <2> SUFFICES ASSUME NEW i \in 1 .. n, NEW j \in 1 .. n, i # j PROVE p[i] # p[j]
    OBVIOUS
  <2>1. i < j \/ j < i
    OBVIOUS
  <2>2. key[p[i]] < key[p[j]] \/ key[p[j]] < key[p[i]]
    BY <2>1 DEF KeyOrder
  <2>3. key[p[i]] \in Int /\ key[p[j]] \in Int
    BY <1>1
  <2> QED BY <2>2, <2>3
<1>3. \A m \in 1 .. n : \E k \in 1 .. n : p[k] = m
  <2>1. p \in Injection(1 .. n, 1 .. n)
    BY <1>1, <1>2 DEF Injection, IsInjective
  <2>2. IsFiniteSet(1 .. n)
    BY FS_Interval
  <2>3. p \in Surjection(1 .. n, 1 .. n)
    BY <2>1, <2>2, FS_Injection
  <2> QED BY <2>3 DEF Surjection
<1> DEFINE u == [i \in 1 .. n |-> CHOOSE k \in 1 .. n : p[k] = q[i]]
<1>4. \A i \in 1 .. n : u[i] \in 1 .. n /\ p[u[i]] = q[i]
  BY <1>1, <1>3
<1>5. u \in [1 .. n -> 1 .. n]
  BY <1>4
<1> HIDE DEF u
<1>6. ASSUME NEW i \in 1 .. n, NEW j \in 1 .. n, i < j PROVE u[i] < u[j]
  <2>1. key[q[i]] < key[q[j]]
    BY <1>6 DEF KeyOrder
  <2>2. key[q[i]] \in Int /\ key[q[j]] \in Int
    BY <1>1
  <2>3. u[j] < u[i] => key[p[u[j]]] < key[p[u[i]]]
    BY <1>4 DEF KeyOrder
  <2>4. u[i] \in 1 .. n /\ u[j] \in 1 .. n /\ p[u[i]] = q[i] /\ p[u[j]] = q[j]
    BY <1>4
  <2>5. u[j] # u[i] /\ ~ (u[j] < u[i])
    BY <2>1, <2>2, <2>3, <2>4
  <2> QED BY <2>4, <2>5
<1>7. \A i \in 1 .. n : u[i] = i
  BY <1>5, <1>6, GrowsOneByOne
<1>8. \A i \in 1 .. n : p[i] = q[i]
  BY <1>4, <1>7
<1> QED BY <1>1, <1>8

Keyed(s, key) ==
  /\ IsList(s) /\ \A i \in DOMAIN s : key[i] \in Int
  /\ \A i, j \in DOMAIN s : key[i] = key[j] => i = j

\* A list with one item of a key is put in order, in the only way there is.
LEMMA ByKeyOrder ==
  ASSUME NEW s, NEW key, Keyed(s, key)
  PROVE  \E p : KeyOrder(p, key, Len(s)) /\ ByKey(s, key) = [i \in 1 .. Len(s) |-> s[p[i]]]
<1> DEFINE n == Len(s)
           S == 1 .. n
           R == {x \in S \X S : key[x[1]] < key[x[2]]}
           order == CHOOSE p \in SetToSeqs(DOMAIN s) :
                      \A i, j \in DOMAIN p : i < j => key[p[i]] < key[p[j]]
<1>1. n \in Nat /\ DOMAIN s = S
  BY ListIs DEF Keyed
<1>2. IsFiniteSet(S) /\ Cardinality(S) = n
  <2> HIDE DEF n
  <2>1. IsFiniteSet(1 .. n) /\ Cardinality(1 .. n) = n
    BY <1>1, FS_Interval
  <2> QED BY <2>1
<1>3. \A i \in S : key[i] \in Int
  BY <1>1 DEF Keyed
<1>4. \A i, j \in S : key[i] = key[j] => i = j
  BY <1>1 DEF Keyed
<1>5. \A x, y \in S : <<x, y>> \in R <=> key[x] < key[y]
  OBVIOUS
<1> HIDE DEF R
<1>6. TotalOrder(R, S)
  <2>1. \A x \in S : <<x, x>> \notin R
    BY <1>3, <1>5
  <2>2. \A x, y \in S : x # y => <<x, y>> \in R \/ <<y, x>> \in R
    BY <1>3, <1>4, <1>5
  <2>3. \A x, y, z \in S : <<x, y>> \in R /\ <<y, z>> \in R => <<x, z>> \in R
    BY <1>3, <1>5
  <2> QED BY <2>1, <2>2, <2>3 DEF TotalOrder
<1>7. PICK p \in SetToSeqs(S) : \A i, j \in DOMAIN p : i < j => <<p[i], p[j]>> \in R
  <2> HIDE DEF S
  <2> QED BY <1>2, <1>6, Orderly
<1>8. \A f \in SetToSeqs(S) : f \in [S -> S]
  BY <1>2 DEF SetToSeqs
<1>9. \A i, j \in DOMAIN p : i < j => key[p[i]] < key[p[j]]
  BY <1>5, <1>7, <1>8
<1>10. order \in SetToSeqs(S) /\ \A i, j \in DOMAIN order : i < j => key[order[i]] < key[order[j]]
  BY <1>1, <1>7, <1>9
<1>11. ByKey(s, key) = [i \in S |-> s[order[i]]]
  BY <1>1 DEF ByKey
<1> HIDE DEF order
<1>12. KeyOrder(order, key, n)
  BY <1>8, <1>10 DEF KeyOrder
<1> QED BY <1>11, <1>12

LEMMA ByKeyIs ==
  ASSUME NEW s, NEW key, Keyed(s, key), NEW p, KeyOrder(p, key, Len(s))
  PROVE  ByKey(s, key) = [i \in 1 .. Len(s) |-> s[p[i]]]
<1>1. PICK q : KeyOrder(q, key, Len(s)) /\ ByKey(s, key) = [i \in 1 .. Len(s) |-> s[q[i]]]
  BY ByKeyOrder
<1>2. Len(s) \in Nat /\ \A i \in 1 .. Len(s) : key[i] \in Int
  BY ListIs DEF Keyed
<1>3. p = q
  BY <1>1, <1>2, OneKeyOrder
<1> QED BY <1>1, <1>3

\* A list put in order is the same list in order: putting it in order again, or
\* from back to front, gives it again.
LEMMA ByKeyAgain ==
  ASSUME NEW s, NEW key, Keyed(s, key), NEW t, t = ByKey(s, key),
         NEW keyOf, keyOf = [i \in 1 .. Len(s) |-> keyOf[i]],
         \A i, j \in 1 .. Len(s) : t[i] = s[j] => keyOf[i] = key[j]
  PROVE  /\ IsList(t) /\ Len(t) = Len(s) /\ ToSet(t) \subseteq ToSet(s)
         /\ ByKey(t, keyOf) = t
<1> DEFINE n == Len(s)
<1>1. PICK p : KeyOrder(p, key, n) /\ t = [i \in 1 .. n |-> s[p[i]]]
  BY ByKeyOrder
<1>2. n \in Nat /\ DOMAIN s = 1 .. n /\ (\A i \in 1 .. n : key[i] \in Int) /\ p \in [1 .. n -> 1 .. n]
  BY <1>1, ListIs DEF Keyed, KeyOrder
<1> HIDE DEF n
<1>3. IsList(t) /\ Len(t) = n /\ DOMAIN t = 1 .. n
  <2>1. DOMAIN t = 1 .. n /\ t = [i \in 1 .. n |-> t[i]]
    BY <1>1
  <2> QED BY <1>2, <2>1, MakeList
<1>4. ToSet(t) \subseteq ToSet(s)
  BY <1>1, <1>2, <1>3 DEF ToSet
<1>5. \A i \in 1 .. n : keyOf[i] = key[p[i]]
  BY <1>1, <1>2 DEF n
<1>6. \A i, j \in 1 .. n : i < j => keyOf[i] < keyOf[j]
  BY <1>1, <1>5 DEF KeyOrder
<1>7. Keyed(t, keyOf)
  <2>1. \A i \in 1 .. n : keyOf[i] \in Int
    BY <1>2, <1>5
  <2>2. ASSUME NEW i \in 1 .. n, NEW j \in 1 .. n, keyOf[i] = keyOf[j] PROVE i = j
    <3>1. ~ (keyOf[i] < keyOf[j]) /\ ~ (keyOf[j] < keyOf[i])
      <4>1. keyOf[i] \in Int /\ keyOf[i] = keyOf[j]
        BY <2>1, <2>2
      <4>2. \A a, b : a \in Int /\ a = b => ~ (a < b) /\ ~ (b < a)
        OBVIOUS
      <4> QED BY ONLY <4>1, <4>2
    <3>2. ~ (i < j) /\ ~ (j < i)
      BY <1>6, <3>1
    <3> QED BY <3>2
  <2> QED BY <1>3, <2>1, <2>2 DEF Keyed
<1> DEFINE id == [i \in 1 .. n |-> i]
<1>8. KeyOrder(id, keyOf, n) /\ \A i \in 1 .. n : id[i] = i
  BY <1>6 DEF KeyOrder
<1> HIDE DEF id
<1>9. ByKey(t, keyOf) = [i \in 1 .. n |-> t[id[i]]]
  BY <1>3, <1>7, <1>8, ByKeyIs
<1>10. ByKey(t, keyOf) = t
  BY <1>1, <1>8, <1>9
<1> QED BY <1>3, <1>4, <1>10 DEF n

LEMMA ByKeyReversed ==
  ASSUME NEW s, NEW key, Keyed(s, key),
         NEW keyOf, \A i \in 1 .. Len(s) : keyOf[i] = key[Len(s) + 1 - i]
  PROVE  ByKey(Reverse(s), keyOf) = ByKey(s, key)
<1> DEFINE n == Len(s)
           r == Reverse(s)
<1>1. PICK p : KeyOrder(p, key, n) /\ ByKey(s, key) = [i \in 1 .. n |-> s[p[i]]]
  BY ByKeyOrder
<1>2. n \in Nat /\ DOMAIN s = 1 .. n /\ (\A i \in 1 .. n : key[i] \in Int) /\ p \in [1 .. n -> 1 .. n]
  BY <1>1, ListIs DEF Keyed, KeyOrder
<1>3. r = [i \in 1 .. n |-> s[(n - i) + 1]]
  BY DEF Reverse
<1>4. \A i, j \in 1 .. n : key[i] = key[j] => i = j
  BY <1>2 DEF Keyed
<1>5. \A i \in 1 .. n : keyOf[i] = key[n + 1 - i]
  OBVIOUS
<1> HIDE DEF n, r
<1>6. IsList(r) /\ Len(r) = n /\ DOMAIN r = 1 .. n
  <2>1. DOMAIN r = 1 .. n /\ r = [i \in 1 .. n |-> r[i]]
    BY <1>3
  <2> QED BY <1>2, <2>1, MakeList
<1>7. Keyed(r, keyOf)
  <2>1. \A i \in 1 .. n : n + 1 - i \in 1 .. n
    BY <1>2
  <2>2. \A i \in 1 .. n : keyOf[i] \in Int
    BY <1>2, <1>5, <2>1
  <2>3. ASSUME NEW i \in 1 .. n, NEW j \in 1 .. n, keyOf[i] = keyOf[j] PROVE i = j
    <3>1. key[n + 1 - i] = key[n + 1 - j]
      BY <1>5, <2>3
    <3>2. n + 1 - i \in 1 .. n /\ n + 1 - j \in 1 .. n
      BY <2>1
    <3>3. n + 1 - i = n + 1 - j
      BY ONLY <1>4, <3>1, <3>2
    <3> QED BY ONLY <1>2, <3>3
  <2> QED BY <1>6, <2>2, <2>3 DEF Keyed
<1> DEFINE q == [i \in 1 .. n |-> n + 1 - p[i]]
<1>8. \A i \in 1 .. n : /\ q[i] \in 1 .. n /\ n + 1 - q[i] = p[i] /\ (n - q[i]) + 1 = p[i]
  BY <1>2
<1>9. q \in [1 .. n -> 1 .. n]
  BY <1>8
<1> HIDE DEF q
<1>10. \A i \in 1 .. n : keyOf[q[i]] = key[p[i]] /\ r[q[i]] = s[p[i]]
  BY <1>3, <1>5, <1>8
<1>11. KeyOrder(q, keyOf, n)
  BY <1>1, <1>9, <1>10 DEF KeyOrder
<1>12. ByKey(r, keyOf) = [i \in 1 .. n |-> r[q[i]]]
  BY <1>6, <1>7, <1>11, ByKeyIs
<1> QED BY <1>1, <1>10, <1>12 DEF r

(* Encodings: what is assembled decodes                                       *)

\* A block that decodes to itself, whose body hashes to its header's roots.
Assembled(b) ==
  /\ BlockShape(b)
  /\ b.header.auditRoot = AuditRoot(b.audits)
  /\ \A shares \in {b.epoch.shares, Reverse(b.epoch.shares)} :
       b.header.epochRoot = EpochRoot([b.epoch EXCEPT !.shares = shares])

\* Verdicts of requests of their own, contributions of miners of their own.
VerdictsFit(audits) ==
  /\ IsList(audits)
  /\ \A a \in ToSet(audits) : a = [id |-> a.id, result |-> a.result] /\ a.id \in Int
  /\ \A i, j \in DOMAIN audits : audits[i].id = audits[j].id => i = j

ContributionsFit(proofs) ==
  /\ IsList(proofs)
  /\ \A c \in ToSet(proofs) : ContributionShape(c) /\ c.miner[1] \in Int
  /\ \A i, j \in DOMAIN proofs : proofs[i].miner[1] = proofs[j].miner[1] => i = j

LEMMA VerdictsSorted ==
  ASSUME NEW audits, VerdictsFit(audits), NEW t, t = SortedAudits(audits)
  PROVE  /\ IsList(t) /\ DOMAIN t = DOMAIN audits
         /\ \A a \in ToSet(t) : a = [id |-> a.id, result |-> a.result]
         /\ SortedAudits(t) = t
<1> DEFINE key == [i \in DOMAIN audits |-> audits[i].id]
           keyOf == [i \in DOMAIN t |-> t[i].id]
           n == Len(audits)
<1>1. IsList(audits) /\ DOMAIN audits = 1 .. n /\ n \in Nat
  BY ListIs DEF VerdictsFit
<1>2. Keyed(audits, key)
  <2>1. \A i \in DOMAIN audits : key[i] = audits[i].id /\ audits[i] \in ToSet(audits)
    BY DEF ToSet
  <2> HIDE DEF key
  <2> QED BY <1>1, <2>1 DEF Keyed, VerdictsFit
<1>3. t = ByKey(audits, key)
  BY DEF SortedAudits
<1>4. DOMAIN t = 1 .. n
  <2> HIDE DEF key
  <2> QED BY <1>2, <1>3, ByKeyOrder
<1>5. \A i, j \in 1 .. n : t[i] = audits[j] => keyOf[i] = key[j]
  BY <1>1, <1>4
<1>6. keyOf = [i \in 1 .. n |-> keyOf[i]]
  BY <1>4
<1>7. SortedAudits(t) = ByKey(t, keyOf)
  BY DEF SortedAudits
<1> HIDE DEF key, keyOf
<1>8. IsList(t) /\ Len(t) = n /\ ToSet(t) \subseteq ToSet(audits) /\ ByKey(t, keyOf) = t
  BY <1>2, <1>3, <1>5, <1>6, ByKeyAgain
<1>9. \A a \in ToSet(t) : a = [id |-> a.id, result |-> a.result]
  BY <1>8 DEF VerdictsFit
<1> QED BY <1>1, <1>4, <1>7, <1>8, <1>9

LEMMA SharesFit ==
  ASSUME NEW proofs, ContributionsFit(proofs), NEW shares, shares = Shares(proofs)
  PROVE  /\ IsList(shares) /\ Len(shares) = Len(proofs)
         /\ \A s \in ToSet(shares) : s = [miner |-> s.miner, weight |-> s.weight] /\ IsList(s.miner)
         /\ SortedShares(Reverse(shares)) = SortedShares(shares)
<1> DEFINE n == Len(proofs)
           key == [i \in DOMAIN shares |-> shares[i].miner[1]]
           back == Reverse(shares)
           keyOf == [i \in DOMAIN back |-> back[i].miner[1]]
<1>1. n \in Nat /\ DOMAIN proofs = 1 .. n
  BY ListIs DEF ContributionsFit
<1>2. /\ DOMAIN shares = 1 .. n /\ shares = [i \in 1 .. n |-> shares[i]]
      /\ \A i \in 1 .. n : shares[i] = [miner |-> proofs[i].miner, weight |-> proofs[i].weight]
  BY <1>1 DEF Shares
<1> HIDE DEF n
<1>3. IsList(shares) /\ Len(shares) = n
  BY <1>1, <1>2, MakeList
<1>4. \A i \in 1 .. n : /\ IsList(proofs[i].miner) /\ proofs[i].miner[1] \in Int
                        /\ shares[i].miner = proofs[i].miner
                        /\ shares[i] = [miner |-> shares[i].miner, weight |-> shares[i].weight]
  <2>1. \A i \in 1 .. n : proofs[i] \in ToSet(proofs)
    BY <1>1 DEF ToSet
  <2>2. \A c \in ToSet(proofs) : IsList(c.miner) /\ c.miner[1] \in Int
    BY DEF ContributionsFit, ContributionShape
  <2>3. ASSUME NEW i \in 1 .. n
        PROVE  /\ shares[i].miner = proofs[i].miner
               /\ shares[i] = [miner |-> shares[i].miner, weight |-> shares[i].weight]
    <3>1. shares[i] = [miner |-> proofs[i].miner, weight |-> proofs[i].weight]
      BY <1>2
    <3> QED BY ONLY <3>1
  <2> QED BY <2>1, <2>2, <2>3
<1>5. \A s \in ToSet(shares) : s = [miner |-> s.miner, weight |-> s.weight] /\ IsList(s.miner)
  <2>1. ASSUME NEW s \in ToSet(shares)
        PROVE  s = [miner |-> s.miner, weight |-> s.weight] /\ IsList(s.miner)
    <3>1. PICK i \in 1 .. n : s = shares[i]
      BY <1>2 DEF ToSet
    <3> QED BY ONLY <1>4, <3>1
  <2> QED BY <2>1
<1>6. \A i \in 1 .. n : key[i] = shares[i].miner[1]
  BY <1>2
<1>7. Keyed(shares, key)
  <2>1. \A i, j \in 1 .. n : proofs[i].miner[1] = proofs[j].miner[1] => i = j
    BY <1>1 DEF ContributionsFit
  <2> HIDE DEF key
  <2>2. \A i \in 1 .. n : key[i] = proofs[i].miner[1] /\ key[i] \in Int
    BY ONLY <1>4, <1>6
  <2>3. \A i, j \in 1 .. n : key[i] = key[j] => i = j
    BY <2>1, <2>2
  <2>4. DOMAIN shares = 1 .. n
    BY <1>2
  <2> QED BY ONLY <1>3, <2>2, <2>3, <2>4 DEF Keyed
<1>8. DOMAIN back = 1 .. n /\ \A i \in 1 .. n : n + 1 - i \in 1 .. n /\ back[i] = shares[n + 1 - i]
  <2>1. back = [i \in 1 .. n |-> shares[(n - i) + 1]]
    BY <1>3 DEF Reverse
  <2>2. \A i \in 1 .. n : n + 1 - i \in 1 .. n /\ (n - i) + 1 = n + 1 - i
    BY <1>1
  <2> HIDE DEF back
  <2> QED BY <2>1, <2>2
<1>9. \A i \in 1 .. n : keyOf[i] = key[n + 1 - i]
  <2> HIDE DEF back
  <2> QED BY <1>2, <1>8
<1>10. SortedShares(shares) = ByKey(shares, key) /\ SortedShares(back) = ByKey(back, keyOf)
  BY DEF SortedShares
<1> HIDE DEF key, keyOf
<1>11. ByKey(back, keyOf) = ByKey(shares, key)
  BY <1>3, <1>7, <1>9, ByKeyReversed
<1> QED BY <1>3, <1>5, <1>10, <1>11 DEF n

LEMMA EpochFits ==
  ASSUME Half \in Nat \ {0}, NEW prev, prev.height \in Nat, NEW proofs, ContributionsFit(proofs),
         NEW e, e = Epoch(prev, proofs)
  PROVE  /\ EpochShape(e)
         /\ \A shares \in {e.shares, Reverse(e.shares)} :
              EpochRoot(e) = EpochRoot([e EXCEPT !.shares = shares])
<1> DEFINE own == Shares(proofs)
<1>1. e = [start |-> 0, index |-> prev.height, shares |-> own, pool |-> Half + Len(proofs)]
  BY DEF Epoch
<1>2. /\ IsList(own) /\ SortedShares(Reverse(own)) = SortedShares(own)
      /\ \A s \in ToSet(own) : s = [miner |-> s.miner, weight |-> s.weight] /\ IsList(s.miner)
  BY SharesFit
<1>3. Half + Len(proofs) \in Nat
  BY ListIs DEF ContributionsFit
<1> HIDE DEF own
<1>4. EpochShape(e)
  BY <1>1, <1>2, <1>3 DEF EpochShape
<1>5. ASSUME NEW shares \in {e.shares, Reverse(e.shares)}
      PROVE  EpochRoot(e) = EpochRoot([e EXCEPT !.shares = shares])
  <2> DEFINE f == [e EXCEPT !.shares = shares]
  <2>1. e.shares = own /\ f.shares = shares
    BY <1>1
  <2>2. SortedShares(shares) = SortedShares(own)
    BY <1>2, <2>1
  <2>3. [f EXCEPT !.shares = SortedShares(own)] = [e EXCEPT !.shares = SortedShares(own)]
    BY <1>1
  <2> HIDE DEF f
  <2>4. EpochRoot(e) = EncEpoch([e EXCEPT !.shares = SortedShares(own)])
    BY <2>1 DEF EpochRoot
  <2>5. EpochRoot(f) = EncEpoch([f EXCEPT !.shares = SortedShares(own)])
    BY <2>1, <2>2 DEF EpochRoot
  <2> QED BY <2>3, <2>4, <2>5 DEF f
<1> QED BY <1>4, <1>5

LEMMA AnyBlockIsAssembled ==
  ASSUME Half \in Nat \ {0}, NEW prev, prev.height \in Nat,
         NEW txs, IsList(txs), \A t \in ToSet(txs) : TxShape(t),
         NEW proofs, ContributionsFit(proofs), NEW audits, VerdictsFit(audits)
  PROVE  Assembled(AnyBlock(prev, txs, proofs, audits))
<1> DEFINE b == AnyBlock(prev, txs, proofs, audits)
           e == Epoch(prev, proofs)
           sorted == SortedAudits(audits)
           header == [version |-> 3, prevHash |-> EncHeader(prev), height |-> prev.height + 1,
                      timestamp |-> prev.timestamp + 1, merkleRoot |-> TxRoot(txs),
                      computeRoot |-> ComputeRoot(proofs), epochRoot |-> EpochRoot(e),
                      auditRoot |-> AuditRoot(audits)]
<1>1. b = [header |-> header, transactions |-> txs, proofs |-> proofs, audits |-> sorted, epoch |-> e]
  BY DEF AnyBlock, AssembleBlock
<1>2. header.auditRoot = AuditRoot(audits) /\ header.epochRoot = EpochRoot(e)
  OBVIOUS
<1>3. HeaderShape(header)
  <2>1. DOMAIN header = ToSet(HeaderFields)
    BY FieldsAre
  <2>2. header = [f \in DOMAIN header |-> header[f]]
    OBVIOUS
  <2> HIDE DEF header
  <2> QED BY <2>1, <2>2 DEF HeaderShape
<1> HIDE DEF b, e, header
<1>4. /\ EpochShape(e)
      /\ \A shares \in {e.shares, Reverse(e.shares)} :
           EpochRoot(e) = EpochRoot([e EXCEPT !.shares = shares])
  BY EpochFits DEF e
<1>5. /\ IsList(sorted) /\ DOMAIN sorted = DOMAIN audits /\ SortedAudits(sorted) = sorted
      /\ \A a \in ToSet(sorted) : a = [id |-> a.id, result |-> a.result]
  BY VerdictsSorted
<1>6. AuditRoot(audits) = AuditRoot(sorted)
  <2>1. AuditRoot(audits) = MerkleRoot([i \in DOMAIN audits |-> <<EncAudit(sorted[i])>>])
    BY DEF AuditRoot
  <2> HIDE DEF sorted
  <2>2. AuditRoot(sorted) = MerkleRoot([i \in DOMAIN audits |-> <<EncAudit(sorted[i])>>])
    BY <1>5 DEF AuditRoot
  <2> QED BY <2>1, <2>2
<1> HIDE DEF sorted
<1>7. /\ b.header = header /\ b.transactions = txs /\ b.proofs = proofs
      /\ b.audits = sorted /\ b.epoch = e
      /\ b = [header |-> b.header, transactions |-> b.transactions, proofs |-> b.proofs,
              audits |-> b.audits, epoch |-> b.epoch]
  BY <1>1
<1>8. IsList(proofs) /\ \A c \in ToSet(proofs) : ContributionShape(c)
  BY DEF ContributionsFit
<1>9. BlockShape(b)
  BY <1>3, <1>4, <1>5, <1>7, <1>8 DEF BlockShape
<1>10. Assembled(b)
  BY <1>2, <1>4, <1>6, <1>7, <1>9 DEF Assembled
<1> QED BY <1>10 DEF b

\* The buffer is the block's bytes, or as many of them as were kept.
BufferInv ==
  /\ Assembled(block)
  /\ \E n \in 0 .. Len(EncodeBlock(block)) : buffer = SubSeq(EncodeBlock(block), 1, n)

LEMMA PrefixIs ==
  ASSUME NEW e, IsList(e), NEW n \in 0 .. Len(e)
  PROVE  /\ IsList(SubSeq(e, 1, n)) /\ Len(SubSeq(e, 1, n)) = n
         /\ \A i \in 1 .. n : SubSeq(e, 1, n)[i] = e[i]
         /\ n = Len(e) => SubSeq(e, 1, n) = e
<1> DEFINE s == SubSeq(e, 1, n)
<1>1. e \in Seq(ToSet(e)) /\ Len(e) \in Nat
  BY ListIs DEF IsList
<1>2. 1 \in 1 .. Len(e) + 1 /\ n \in 1 - 1 .. Len(e) /\ n - 1 + 1 = n /\ \A i \in 1 .. n : 1 + i - 1 = i
  BY <1>1
<1>3. s \in Seq(ToSet(e)) /\ Len(s) = n - 1 + 1 /\ \A i \in 1 .. n - 1 + 1 : s[i] = e[1 + i - 1]
  BY <1>1, <1>2, SubSeqProperties
<1> HIDE DEF s
<1>4. IsList(s) /\ Len(s) = n /\ \A i \in 1 .. n : s[i] = e[i]
  BY <1>2, <1>3, ListOf
<1>5. n = Len(e) => s = e
  BY <1>4, SameList
<1> QED BY <1>4, <1>5 DEF s

LEMMA CodecHolds == ASSUME EncodingHypothesis, BufferInv PROVE CodecInv
<1> DEFINE e == EncodeBlock(block)
           r == DecodeBlock(buffer)
<1>1. Base \in Nat \ {0} /\ Half \in Nat \ {0}
  BY DEF EncodingHypothesis
<1>2. Assembled(block) /\ BlockShape(block)
  BY DEF BufferInv, Assembled
<1>3. IsList(e) /\ (Agrees(buffer, 1, e) => r = Outcome(buffer, 1, e, block))
  BY <1>1, <1>2, BlockReads
<1>4. PICK n \in 0 .. Len(e) : buffer = SubSeq(e, 1, n)
  BY DEF BufferInv
<1> HIDE DEF e, r
<1>5. /\ IsList(buffer) /\ Len(buffer) = n /\ (\A i \in 1 .. n : buffer[i] = e[i])
      /\ n = Len(e) => buffer = e
  BY <1>3, <1>4, PrefixIs
<1>6. Len(e) \in Nat
  BY <1>3, ListIs
<1>7. Agrees(buffer, 1, e)
  <2>1. \A i \in 1 .. Len(e) : 1 + i <= n + 1 => i \in 1 .. n /\ 1 + i - 1 = i
    BY <1>6
  <2> QED BY <1>3, <1>5, <1>6, <2>1 DEF Agrees
<1>8. r = Outcome(buffer, 1, e, block)
  BY <1>3, <1>7
<1>9. ASSUME buffer = e
      PROVE  /\ r.ok /\ r.at = Len(buffer) + 1 /\ r.val = block
             /\ block.header.auditRoot = AuditRoot(r.val.audits)
             /\ \A shares \in {r.val.epoch.shares, Reverse(r.val.epoch.shares)} :
                  block.header.epochRoot = EpochRoot([r.val.epoch EXCEPT !.shares = shares])
  <2>1. 1 + Len(e) <= Len(buffer) + 1 /\ 1 + Len(e) = Len(buffer) + 1
    BY <1>6, <1>9
  <2>2. r.ok /\ r.at = Len(buffer) + 1 /\ r.val = block
    BY <1>8, <2>1, OutcomeIs
  <2> QED BY <1>2, <2>2 DEF Assembled
<1>10. ASSUME buffer # e PROVE ~ r.ok
  <2>1. ~ (1 + Len(e) <= Len(buffer) + 1)
    BY <1>5, <1>6, <1>10
  <2> QED BY <1>8, <2>1, OutcomeIs
<1> QED BY <1>9, <1>10 DEF CodecInv, e, r

LEMMA BufferStarts == ASSUME EncodingHypothesis, EncodingInit PROVE BufferInv
<1>1. Half \in Nat \ {0} /\ Base \in Nat \ {0}
  BY DEF EncodingHypothesis
<1>2. IsList(<<>>) /\ ToSet(<<>>) = {} /\ DOMAIN (<<>>) = {}
  BY DEF IsList, ToSet
<1>3. VerdictsFit(<<>>) /\ ContributionsFit(<<>>)
  BY <1>2 DEF VerdictsFit, ContributionsFit
<1>4. Assembled(block)
  <2>1. CASE \E prev \in Previous, txs \in TxLists, proofs \in ProofLists, audits \in AuditLists :
               block = AnyBlock(prev, txs, proofs, audits)
    <3>1. PICK prev \in Previous, txs \in TxLists, proofs \in ProofLists, audits \in AuditLists :
                 block = AnyBlock(prev, txs, proofs, audits)
      BY <2>1
    <3>2. prev.height \in Nat /\ IsList(txs) /\ (\A t \in ToSet(txs) : TxShape(t))
      BY DEF EncodingHypothesis
    <3>3. ContributionsFit(proofs)
      BY DEF EncodingHypothesis, ContributionsFit
    <3>4. VerdictsFit(audits)
      BY DEF EncodingHypothesis, VerdictsFit
    <3> QED BY <1>1, <3>1, <3>2, <3>3, <3>4, AnyBlockIsAssembled
  <2>2. CASE block = AnyBlock(CHOOSE h \in Previous : TRUE, <<>>, <<>>, <<>>)
    <3> DEFINE prev == CHOOSE h \in Previous : TRUE
    <3>1. prev \in Previous /\ prev.height \in Nat
      BY DEF EncodingHypothesis
    <3> HIDE DEF prev
    <3>2. Assembled(AnyBlock(prev, <<>>, <<>>, <<>>))
      BY <1>1, <1>2, <1>3, <3>1, AnyBlockIsAssembled
    <3> QED BY <2>2, <3>2 DEF prev
  <2> QED BY <2>1, <2>2 DEF EncodingInit
<1>5. buffer = EncodeBlock(block)
  BY DEF EncodingInit
<1> DEFINE e == EncodeBlock(block)
<1>6. IsList(e)
  BY <1>1, <1>4, BlockReads DEF Assembled
<1> HIDE DEF e
<1>7. Len(e) \in 0 .. Len(e) /\ SubSeq(e, 1, Len(e)) = e
  <2>1. Len(e) \in 0 .. Len(e)
    BY <1>6, ListIs
  <2> QED BY <1>6, <2>1, PrefixIs
<1> QED BY <1>4, <1>5, <1>7 DEF BufferInv, e

LEMMA BufferKeeps ==
  ASSUME BufferInv, [EncodingNext]_encodingVars PROVE BufferInv'
<1> DEFINE e == EncodeBlock(block)
<1>1. block' = block
  BY DEF EncodingNext, Truncate, Alter, encodingVars
<1>2. CASE Truncate
  <2>1. buffer = e
    BY <1>2 DEF Truncate, Whole
  <2>2. PICK n \in 0 .. Len(e) - 1 : buffer' = SubSeq(e, 1, n)
    BY <1>2, <2>1 DEF Truncate
  <2>3. PICK m \in 0 .. Len(e) : e = SubSeq(e, 1, m)
    BY <2>1 DEF BufferInv
  <2>4. n \in 0 .. Len(e)
    BY <2>2, <2>3
  <2> QED BY <1>1, <2>2, <2>4 DEF BufferInv
<1>3. CASE Alter \/ UNCHANGED encodingVars
  <2>1. buffer' = buffer
    BY <1>3 DEF Alter, encodingVars
  <2> QED BY <1>1, <2>1 DEF BufferInv
<1> QED BY <1>2, <1>3 DEF EncodingNext

\* What is encoded decodes to itself, and what is hashed or signed can be changed in no way.
THEOREM EncodingsCommit == ASSUME EncodingHypothesis PROVE EncodingSpec => []EncodingInv
<1> DEFINE Inv == BufferInv /\ TreesInv /\ SealInv
<1>1. EncodingInit => Inv
  BY BufferStarts, EncodingStarts
<1>2. Inv /\ [EncodingNext]_encodingVars => Inv'
  BY BufferKeeps, EncodingKeeps
<1>3. Inv => EncodingInv
  BY CodecHolds, InclusionHolds, MerkleHolds, FrameHolds DEF EncodingInv
<1> QED BY <1>1, <1>2, <1>3, PTL DEF EncodingSpec

===============================================================================
