--------------------------- MODULE Ledger_proofs ---------------------------
(***************************************************************************)
(* For all transactions, blocks and reorgs:                                *)
(*  - nothing is minted or lost: the unspent outputs and the epoch's pool   *)
(*    are worth what was there at the fork and one subsidy for every block  *)
(*    since;                                                                *)
(*  - what is pending can go into the next block, all of it together, and   *)
(*    leaves the pool only when it cannot, or for something that pays more; *)
(*  - no key a wallet showed is lost, and what it spends is valid;          *)
(*  - the chain's rules stay open: its target, its times and its emission   *)
(*    are what the blocks so far say, restarts included.                    *)
(* The lemmas come in this order: what a transaction and a block do to the *)
(* outputs, settlements, branches, the pool's order, its books, the steps; *)
(* the wallet's keystore and its spends; compact targets, the reward, the  *)
(* retarget, the window, the chain state and what replaying it gives.      *)
(***************************************************************************)
EXTENDS Mempool, Wallet, ChainRules, SequenceTheorems, Sums

-----------------------------------------------------------------------------
(* The model's recursive functions                                           *)

\* Each transaction of a block is applied to what the ones before it left.
LEMMA AfterStep ==
  ASSUME NEW utxos, NEW txs, Len(txs) \in Nat, NEW height
  PROVE  /\ DOMAIN After(utxos, txs, height) = 0 .. Len(txs)
         /\ After(utxos, txs, height)[0] = utxos
         /\ \A i \in 1 .. Len(txs) :
              After(utxos, txs, height)[i] =
                ApplyTransaction(After(utxos, txs, height)[i - 1], txs[i], height)
<1> DEFINE Step(f, i) == IF i = 0 THEN utxos ELSE ApplyTransaction(f[i - 1], txs[i], height)
           Is(f, n) == f = [i \in 0 .. n |-> Step(f, i)]
           N == {n \in Nat : \E f : Is(f, n)}
<1>1. 0 \in N
  <2> DEFINE f == [i \in 0 .. 0 |-> utxos]
  <2>1. Is(f, 0)
    BY SMT
  <2> QED BY <2>1
<1>2. ASSUME NEW n \in N PROVE n + 1 \in N
  <2>1. PICK f : Is(f, n)
    OBVIOUS
  <2>2. n \in Nat
    OBVIOUS
  <2> DEFINE g == [i \in 0 .. n + 1 |-> IF i = n + 1 THEN Step(f, i) ELSE f[i]]
  <2>3. \A i \in 0 .. n : f[i] = Step(f, i)
    BY <2>1
  <2>4. \A i \in 0 .. n + 1 : g[i] = Step(g, i)
    <3> SUFFICES ASSUME NEW i \in 0 .. n + 1 PROVE g[i] = Step(g, i)
      OBVIOUS
    <3>1. CASE i = 0
      BY <2>2, <2>3, <3>1
    <3>2. CASE i # 0
      <4>1. i - 1 \in 0 .. n /\ i - 1 # n + 1 /\ i - 1 \in 0 .. n + 1
        BY <2>2, <3>2
      <4>2. g[i - 1] = f[i - 1]
        BY <4>1
      <4>3. i # n + 1 => i \in 0 .. n
        BY <2>2
      <4> QED BY <2>3, <3>2, <4>2, <4>3
    <3> QED BY <3>1, <3>2
  <2>5. g = [i \in 0 .. n + 1 |-> g[i]]
    OBVIOUS
  <2> HIDE DEF g, Step
  <2>6. Is(g, n + 1)
    BY <2>4, <2>5
  <2> QED BY <2>2, <2>6
<1>3. N = Nat
  <2>1. N \in SUBSET Nat
    OBVIOUS
  <2> HIDE DEF N
  <2> QED BY <1>1, <1>2, <2>1, Induction
<1> DEFINE a == After(utxos, txs, height)
<1>4. a = CHOOSE f : Is(f, Len(txs))
  BY DEF After
<1>5. \E f : Is(f, Len(txs))
  BY <1>3
<1> HIDE DEF a, Is
<1>6. Is(a, Len(txs))
  BY <1>4, <1>5
<1>7. a = [i \in 0 .. Len(txs) |-> Step(a, i)]
  BY <1>6 DEF Is
<1>8. DOMAIN a = 0 .. Len(txs) /\ \A i \in 0 .. Len(txs) : a[i] = Step(a, i)
  BY <1>7
<1>9. 0 \in 0 .. Len(txs) /\ \A i \in 1 .. Len(txs) : i \in 0 .. Len(txs) /\ i # 0
  OBVIOUS
<1> QED BY <1>8, <1>9 DEF a

\* Each block is applied to the ledger of the ones before it.
LEMMA StatesStep ==
  ASSUME NEW blocks, Len(blocks) \in Nat
  PROVE  /\ DOMAIN States(blocks) = 0 .. Len(blocks)
         /\ States(blocks)[0] = AtFork
         /\ \A i \in 1 .. Len(blocks) :
              States(blocks)[i] = ApplyBlockState(States(blocks)[i - 1], blocks[i], Fork + i)
<1> DEFINE Step(f, i) == IF i = 0 THEN AtFork ELSE ApplyBlockState(f[i - 1], blocks[i], Fork + i)
           Is(f, n) == f = [i \in 0 .. n |-> Step(f, i)]
           N == {n \in Nat : \E f : Is(f, n)}
<1>1. 0 \in N
  <2> DEFINE f == [i \in 0 .. 0 |-> AtFork]
  <2>1. Is(f, 0)
    BY SMT
  <2> QED BY <2>1
<1>2. ASSUME NEW n \in N PROVE n + 1 \in N
  <2>1. PICK f : Is(f, n)
    OBVIOUS
  <2>2. n \in Nat
    OBVIOUS
  <2> DEFINE g == [i \in 0 .. n + 1 |-> IF i = n + 1 THEN Step(f, i) ELSE f[i]]
  <2>3. \A i \in 0 .. n : f[i] = Step(f, i)
    BY <2>1
  <2>4. \A i \in 0 .. n + 1 : g[i] = Step(g, i)
    <3> SUFFICES ASSUME NEW i \in 0 .. n + 1 PROVE g[i] = Step(g, i)
      OBVIOUS
    <3>1. CASE i = 0
      BY <2>2, <2>3, <3>1
    <3>2. CASE i # 0
      <4>1. i - 1 \in 0 .. n /\ i - 1 # n + 1 /\ i - 1 \in 0 .. n + 1
        BY <2>2, <3>2
      <4>2. g[i - 1] = f[i - 1]
        BY <4>1
      <4>3. i # n + 1 => i \in 0 .. n
        BY <2>2
      <4> QED BY <2>3, <3>2, <4>2, <4>3
    <3> QED BY <3>1, <3>2
  <2>5. g = [i \in 0 .. n + 1 |-> g[i]]
    OBVIOUS
  <2> HIDE DEF g, Step
  <2>6. Is(g, n + 1)
    BY <2>4, <2>5
  <2> QED BY <2>2, <2>6
<1>3. N = Nat
  <2>1. N \in SUBSET Nat
    OBVIOUS
  <2> HIDE DEF N
  <2> QED BY <1>1, <1>2, <2>1, Induction
<1> DEFINE s == States(blocks)
<1>4. s = CHOOSE f : Is(f, Len(blocks))
  BY DEF States
<1>5. \E f : Is(f, Len(blocks))
  BY <1>3
<1> HIDE DEF s, Is
<1>6. Is(s, Len(blocks))
  BY <1>4, <1>5
<1>7. s = [i \in 0 .. Len(blocks) |-> Step(s, i)]
  BY <1>6 DEF Is
<1>8. DOMAIN s = 0 .. Len(blocks) /\ \A i \in 0 .. Len(blocks) : s[i] = Step(s, i)
  BY <1>7
<1>9. 0 \in 0 .. Len(blocks) /\ \A i \in 1 .. Len(blocks) : i \in 0 .. Len(blocks) /\ i # 0
  OBVIOUS
<1> QED BY <1>8, <1>9 DEF s

\* Two branches have the same ledgers as long as they have the same blocks.
LEMMA StatesAgree ==
  ASSUME NEW b, Len(b) \in Nat, NEW c, Len(c) \in Nat,
         NEW k \in Nat, k <= Len(b), k <= Len(c), \A i \in 1 .. k : b[i] = c[i]
  PROVE  \A i \in 0 .. k : States(b)[i] = States(c)[i]
<1> DEFINE S == {i \in 0 .. k : States(b)[i] = States(c)[i]}
<1>1. 0 \in S
  BY StatesStep
<1>2. ASSUME NEW i \in 1 .. k, i - 1 \in S PROVE i \in S
  <2>1. i \in 1 .. Len(b) /\ i \in 1 .. Len(c) /\ b[i] = c[i]
    OBVIOUS
  <2>2. States(b)[i] = ApplyBlockState(States(b)[i - 1], b[i], Fork + i)
    BY <2>1, StatesStep
  <2>3. States(c)[i] = ApplyBlockState(States(c)[i - 1], c[i], Fork + i)
    BY <2>1, StatesStep
  <2>4. States(b)[i - 1] = States(c)[i - 1]
    BY <1>2
  <2> QED BY <2>1, <2>2, <2>3, <2>4
<1>3. 0 .. k \subseteq S
  <2> HIDE DEF S
  <2> QED BY <1>1, <1>2, Along
<1> QED BY <1>3

-----------------------------------------------------------------------------
(* The unspent outputs                                                       *)

Value(utxos) == [c \in DOMAIN utxos |-> utxos[c].value]

\* What the unspent outputs are, once the transactions of applied have been
\* applied, none of which can be applied again: their inputs are gone for good.
UtxoGood(utxos, applied, top) ==
  /\ IsFiniteSet(DOMAIN utxos)
  /\ \A c \in DOMAIN utxos :
       /\ utxos[c].value \in Nat
       /\ \/ c[1] = "fund" /\ utxos[c].value = ValueOf(c)
          \/ c[1] = "tx" /\ utxos[c].value = ValueOf(c) /\ c[2] \in applied
          \/ c[1] = "coinbase" /\ c[2] \in Nat /\ c[2] <= top
  /\ \A t \in applied :
       /\ Inputs[t] \cap DOMAIN utxos = {}
       /\ \A c \in Inputs[t] : c[1] = "tx" => c[2] \in applied

\* No transaction spends a settlement made in the run.
LEMMA InputKinds == \A t \in Tx : \A c \in Inputs[t] : c[1] = "fund" \/ c[1] = "tx"
<1> TAKE t \in Tx
<1> TAKE c \in Inputs[t]
<1>1. CASE c \in DOMAIN Funds
  BY <1>1, LedgerAssumption
<1>2. CASE c \notin DOMAIN Funds
  <2>1. c \in {<<"tx", s, i>> : s \in Tx, i \in 1 .. 9}
    BY <1>2, LedgerAssumption
  <2>2. PICK s \in Tx, i \in 1 .. 9 : c = <<"tx", s, i>>
    BY <2>1
  <2> QED BY <2>2
<1> QED BY <1>1, <1>2

LEMMA WorthIs == \A utxos : Worth(utxos) = Sum(Value(utxos), DOMAIN utxos)
<1> SUFFICES ASSUME NEW utxos PROVE Worth(utxos) = Sum(Value(utxos), DOMAIN utxos)
  OBVIOUS
<1>1. DOMAIN Value(utxos) = DOMAIN utxos
  BY DEF Value
<1>2. Worth(utxos) = SumFunction(Value(utxos))
  BY DEF Worth, Value
<1> QED BY <1>1, <1>2, SumIs

LEMMA WorthType ==
  ASSUME NEW utxos, NEW applied, NEW top, UtxoGood(utxos, applied, top)
  PROVE  Worth(utxos) \in Nat
<1>1. IsFiniteSet(DOMAIN utxos) /\ \A c \in DOMAIN utxos : Value(utxos)[c] \in Nat
  BY DEF UtxoGood, Value
<1>2. Sum(Value(utxos), DOMAIN utxos) \in Nat
  BY <1>1, SumNatural
<1> QED BY <1>2, WorthIs

Created(t) == {<<"tx", t, i>> : i \in {j \in DOMAIN Outputs[t] : Outputs[t][j] > 0}}

\* The created outputs hold what the transaction pays.
LEMMA CreatedWorth ==
  ASSUME NEW t \in Tx, NEW h, \A c \in Created(t) : h[c] = ValueOf(c)
  PROVE  /\ IsFiniteSet(Created(t)) /\ \A c \in Created(t) : h[c] \in Nat
         /\ Sum(h, Created(t)) = Paid(t) /\ Paid(t) \in Nat
<1> DEFINE out == Outputs[t]
           P == {j \in DOMAIN out : out[j] > 0}
           g == [j \in P |-> <<"tx", t, j>>]
<1>1. out \in Seq(Nat) /\ IsFiniteSet(DOMAIN out) /\ \A j \in DOMAIN out : out[j] \in Nat
  <2>1. out \in Seq(Nat)
    BY LedgerAssumption
  <2> HIDE DEF out
  <2>2. DOMAIN out = 1 .. Len(out) /\ Len(out) \in Nat /\ \A j \in DOMAIN out : out[j] \in Nat
    BY <2>1
  <2> QED BY <2>1, <2>2, FS_Interval
<1>2. Paid(t) = Sum(out, DOMAIN out)
  BY SumIs DEF Paid
<1>3. IsFiniteSet(P)
  BY <1>1, FS_Subset
<1>4. Sum(out, DOMAIN out) = Sum(out, P)
  <2>1. \A j \in DOMAIN out \ P : out[j] = 0
    BY <1>1
  <2>2. P \in SUBSET DOMAIN out /\ \A j \in DOMAIN out : out[j] \in Int
    BY <1>1
  <2> HIDE DEF out, P
  <2> QED BY <1>1, <2>1, <2>2, SumZeros
<1>5. Created(t) = {g[j] : j \in P}
  BY DEF Created
<1>6. \A j \in P : h[g[j]] = out[j]
  <2> TAKE j \in P
  <2>1. g[j] = <<"tx", t, j>> /\ g[j] \in Created(t)
    BY <1>5
  <2>2. ValueOf(<<"tx", t, j>>) = out[j]
    BY DEF ValueOf
  <2> QED BY <2>1, <2>2
<1>7. \A i, j \in P : g[i] = g[j] => i = j
  OBVIOUS
<1>8. \A j \in P : out[j] \in Int
  BY <1>1
<1>9. Sum(out, DOMAIN out) \in Nat
  BY <1>1, SumNatural
<1>10. \A c \in Created(t) : h[c] \in Nat
  BY <1>1, <1>5, <1>6
<1> HIDE DEF out, P, g
<1>11. IsFiniteSet({g[j] : j \in P}) /\ Sum(h, {g[j] : j \in P}) = Sum(out, P)
  BY <1>3, <1>6, <1>7, <1>8, SumImage
<1> QED BY <1>2, <1>4, <1>5, <1>9, <1>10, <1>11

LEMMA Applying ==
  ASSUME NEW utxos, NEW t, NEW height
  PROVE  LET new == ApplyTransaction(utxos, t, height) IN
         /\ DOMAIN new = (DOMAIN utxos \ Inputs[t]) \cup Created(t)
         /\ \A c \in Created(t) : new[c].value = ValueOf(c)
         /\ \A c \in (DOMAIN utxos \ Inputs[t]) \ Created(t) : new[c] = utxos[c]
BY DEF ApplyTransaction, Created

\* A valid spend has not been made before, and costs its fee.
LEMMA SpendOnce ==
  ASSUME NEW utxos, NEW applied \in SUBSET Tx, NEW top \in Nat,
         NEW height, NEW t \in Tx,
         UtxoGood(utxos, applied, top), ValidSpend(t, utxos, height)
  PROVE  /\ t \notin applied /\ Fee(t) \in Nat
         /\ Sum(Value(utxos), Inputs[t]) = Spent(t) /\ Spent(t) \in Nat
         /\ \A c \in Inputs[t] : c[1] = "tx" => c[2] \in applied
<1>1. Inputs[t] \subseteq DOMAIN utxos /\ Paid(t) <= Spent(t)
  BY DEF ValidSpend
<1>2. Inputs[t] # {} /\ IsFiniteSet(Inputs[t])
  BY LedgerAssumption
<1>3. t \notin applied
  BY <1>1, <1>2 DEF UtxoGood
<1>4. \A c \in Inputs[t] : c[1] = "fund" \/ c[1] = "tx"
  BY InputKinds
<1>5. \A c \in Inputs[t] : /\ utxos[c].value = ValueOf(c) /\ ValueOf(c) \in Nat
                           /\ c[1] = "tx" => c[2] \in applied
  <2> TAKE c \in Inputs[t]
  <2>1. c[1] # "coinbase" /\ (c[1] = "fund" => c[1] # "tx")
    BY <1>4
  <2> QED BY <1>1, <2>1 DEF UtxoGood
<1> DEFINE f == [c \in Inputs[t] |-> ValueOf(c)]
<1>6. Spent(t) = Sum(f, Inputs[t])
  <2>1. DOMAIN f = Inputs[t]
    OBVIOUS
  <2>2. Spent(t) = SumFunction(f)
    BY DEF Spent
  <2> HIDE DEF f
  <2> QED BY <2>1, <2>2, SumIs
<1>7. \A c \in Inputs[t] : f[c] \in Nat /\ Value(utxos)[c] = f[c]
  BY <1>1, <1>5 DEF Value
<1> HIDE DEF f
<1>8. Spent(t) \in Nat
  BY <1>2, <1>6, <1>7, SumNatural
<1>9. Sum(Value(utxos), Inputs[t]) = Spent(t)
  <2>1. \A c \in Inputs[t] : Value(utxos)[c] \in Int
    BY <1>7
  <2> QED BY <1>2, <1>6, <1>7, <2>1, SumSame
<1>10. Paid(t) \in Nat
  <2> DEFINE h == [c \in Created(t) |-> ValueOf(c)]
  <2>1. \A c \in Created(t) : h[c] = ValueOf(c)
    OBVIOUS
  <2> HIDE DEF h
  <2> QED BY <2>1, CreatedWorth
<1>11. Fee(t) \in Nat
  BY <1>1, <1>8, <1>10 DEF Fee
<1> QED BY <1>3, <1>5, <1>8, <1>9, <1>11

LEMMA ApplyOne ==
  ASSUME NEW utxos, NEW applied \in SUBSET Tx, NEW top \in Nat,
         NEW height, NEW t \in Tx,
         UtxoGood(utxos, applied, top), ValidSpend(t, utxos, height)
  PROVE  LET new == ApplyTransaction(utxos, t, height) IN
         /\ UtxoGood(new, applied \cup {t}, top)
         /\ Worth(new) = Worth(utxos) - Fee(t)
<1> DEFINE new == ApplyTransaction(utxos, t, height)
           kept == DOMAIN utxos \ Inputs[t]
           made == Created(t)
<1>1. /\ t \notin applied /\ Fee(t) \in Nat
      /\ Sum(Value(utxos), Inputs[t]) = Spent(t) /\ Spent(t) \in Nat
      /\ \A c \in Inputs[t] : c[1] = "tx" => c[2] \in applied
  BY SpendOnce
<1>2. IsFiniteSet(DOMAIN utxos) /\ Inputs[t] \subseteq DOMAIN utxos
  BY DEF UtxoGood, ValidSpend
<1>3. \A c \in made : c[1] = "tx" /\ c[2] = t
  BY DEF Created
<1>4. \A c \in DOMAIN utxos : c \notin made
  BY <1>1, <1>3 DEF UtxoGood
<1>5. /\ DOMAIN new = kept \cup made /\ kept \cap made = {}
      /\ \A c \in made : new[c].value = ValueOf(c)
      /\ \A c \in kept : new[c] = utxos[c] /\ c \in DOMAIN utxos /\ c \notin Inputs[t]
  <2>1. /\ DOMAIN new = kept \cup made
        /\ \A c \in made : new[c].value = ValueOf(c)
        /\ \A c \in kept \ made : new[c] = utxos[c]
    BY DEF ApplyTransaction, Created
  <2> HIDE DEF new, made
  <2> QED BY <1>4, <2>1
<1>6. /\ IsFiniteSet(made) /\ Sum(Value(new), made) = Paid(t) /\ Paid(t) \in Nat
      /\ \A c \in made : Value(new)[c] \in Nat
  <2>1. \A c \in made : Value(new)[c] = ValueOf(c)
    BY <1>5 DEF Value
  <2> QED BY <2>1, CreatedWorth
<1>7. IsFiniteSet(kept) /\ IsFiniteSet(Inputs[t])
  BY <1>2, FS_Subset
<1>8. \A c \in DOMAIN utxos : Value(utxos)[c] \in Nat
  BY DEF Value, UtxoGood
<1>9. \A c \in kept : Value(new)[c] = Value(utxos)[c]
  BY <1>5 DEF Value
<1> HIDE DEF new, made
<1>10. UtxoGood(new, applied \cup {t}, top)
  <2>1. IsFiniteSet(DOMAIN new)
    <3> HIDE DEF kept
    <3>1. IsFiniteSet(kept) /\ IsFiniteSet(made)
      BY <1>6, <1>7
    <3>2. IsFiniteSet(kept \cup made)
      BY <3>1, FS_Union
    <3> QED BY <1>5, <3>2
  <2>2. ASSUME NEW c \in kept
        PROVE  /\ new[c].value \in Nat
               /\ \/ c[1] = "fund" /\ new[c].value = ValueOf(c)
                  \/ c[1] = "tx" /\ new[c].value = ValueOf(c) /\ c[2] \in applied \cup {t}
                  \/ c[1] = "coinbase" /\ c[2] \in Nat /\ c[2] <= top
    BY <1>5 DEF UtxoGood
  <2>3. ASSUME NEW c \in made
        PROVE  /\ new[c].value \in Nat
               /\ c[1] = "tx" /\ new[c].value = ValueOf(c) /\ c[2] \in applied \cup {t}
    BY <1>3, <1>5, <1>6 DEF Value
  <2>4. ASSUME NEW s \in applied \cup {t}
        PROVE  /\ Inputs[s] \cap DOMAIN new = {}
               /\ \A c \in Inputs[s] : c[1] = "tx" => c[2] \in applied \cup {t}
    <3>1. /\ Inputs[s] \cap kept = {}
          /\ \A c \in Inputs[s] : c[1] = "tx" => c[2] \in applied
      BY <1>1 DEF UtxoGood
    <3>2. Inputs[s] \cap made = {}
      BY <1>1, <1>3, <3>1
    <3> QED BY <1>5, <3>1, <3>2
  <2> QED BY <1>5, <2>1, <2>2, <2>3, <2>4 DEF UtxoGood
<1>11. Worth(new) = Worth(utxos) - Fee(t)
  <2>1. Worth(utxos) = Sum(Value(utxos), Inputs[t]) + Sum(Value(utxos), kept)
    <3>1. Inputs[t] \cup kept = DOMAIN utxos /\ Inputs[t] \cap kept = {}
      BY <1>2
    <3>2. \A c \in Inputs[t] \cup kept : Value(utxos)[c] \in Int
      BY <1>8, <3>1
    <3>3. Sum(Value(utxos), Inputs[t] \cup kept) = Sum(Value(utxos), Inputs[t]) + Sum(Value(utxos), kept)
      BY <1>7, <3>1, <3>2, SumUnion
    <3> QED BY <3>1, <3>3, WorthIs
  <2>2. \A c \in kept : Value(utxos)[c] \in Int /\ Value(new)[c] \in Int
    BY <1>8, <1>9
  <2>3. Sum(Value(new), kept) = Sum(Value(utxos), kept)
    BY <1>7, <1>9, <2>2, SumSame
  <2>4. Sum(Value(utxos), kept) \in Int
    BY <1>7, <2>2, SumType
  <2>5. Worth(new) = Sum(Value(new), kept) + Sum(Value(new), made)
    <3>1. \A c \in kept \cup made : Value(new)[c] \in Int
      BY <1>6, <2>2
    <3>2. Sum(Value(new), kept \cup made) = Sum(Value(new), kept) + Sum(Value(new), made)
      BY <1>5, <1>6, <1>7, <3>1, SumUnion
    <3> QED BY <1>5, <3>2, WorthIs
  <2> QED BY <1>1, <1>6, <2>1, <2>3, <2>4, <2>5 DEF Fee
<1> QED BY <1>10, <1>11 DEF new

LEMMA SumNext ==
  ASSUME NEW j \in Nat, NEW i, i = j + 1, NEW f, \A k \in 1 .. i : f[k] \in Nat
  PROVE  Sum(f, 1 .. i) = f[i] + Sum(f, 1 .. j) /\ Sum(f, 1 .. j) \in Nat
<1> DEFINE T == 1 .. j
<1>1. IsFiniteSet(T) /\ i \notin T /\ 1 .. i = T \cup {i} /\ f[i] \in Int
  <2>1. IsFiniteSet(T)
    BY FS_Interval
  <2>2. i \notin T /\ 1 .. i = T \cup {i} /\ f[i] \in Int
    OBVIOUS
  <2> QED BY <2>1, <2>2
<1>2. \A k \in T : f[k] \in Nat
  OBVIOUS
<1> HIDE DEF T
<1>3. Sum(f, T \cup {i}) = f[i] + Sum(f, T)
  BY <1>1, <1>2, SumAdd
<1>4. Sum(f, T) \in Nat
  BY <1>1, <1>2, SumNatural
<1> QED BY <1>1, <1>3, <1>4 DEF T

\* The transactions of a valid block take their fees out of the unspent outputs.
LEMMA ApplyAll ==
  ASSUME NEW utxos, NEW applied \in SUBSET Tx, NEW top \in Nat, UtxoGood(utxos, applied, top),
         NEW height, NEW txs \in Seq(Tx), ValidTransactions(utxos, txs, height)
  PROVE  LET new == ApplyTransactions(utxos, txs, height) IN
         /\ \E all \in SUBSET Tx : UtxoGood(new, all, top)
         /\ BlockFees(utxos, txs, height) \in Nat
         /\ Worth(new) = Worth(utxos) - BlockFees(utxos, txs, height)
<1> DEFINE a == After(utxos, txs, height)
           n == Len(txs)
           fee == [i \in DOMAIN txs |-> IF Inputs[txs[i]] \subseteq DOMAIN a[i - 1]
                                          THEN Fee(txs[i]) ELSE 0]
           Good(i) == /\ \E all \in SUBSET Tx : UtxoGood(a[i], all, top)
                      /\ \A j \in 1 .. i : fee[j] \in Nat
                      /\ Worth(a[i]) = Worth(utxos) - Sum(fee, 1 .. i)
           S == {i \in 0 .. n : Good(i)}
<1>1. n \in Nat /\ DOMAIN txs = 1 .. n /\ \A i \in 1 .. n : txs[i] \in Tx
  OBVIOUS
<1>2. /\ a[0] = utxos
      /\ \A i \in 1 .. n : a[i] = ApplyTransaction(a[i - 1], txs[i], height)
  <2>1. Len(txs) \in Nat
    OBVIOUS
  <2> QED BY <2>1, AfterStep
<1>3. \A i \in 1 .. n : ValidSpend(txs[i], a[i - 1], height)
  BY <1>1 DEF ValidTransactions
<1>4. \A i \in 1 .. n : fee[i] = Fee(txs[i])
  BY <1>1, <1>3 DEF ValidSpend
<1>5. Worth(utxos) \in Nat
  BY WorthType
<1>6. BlockFees(utxos, txs, height) = Sum(fee, 1 .. n)
  <2>1. DOMAIN fee = 1 .. n
    BY <1>1
  <2>2. BlockFees(utxos, txs, height) = SumFunction(fee)
    BY DEF BlockFees
  <2> HIDE DEF fee
  <2> QED BY <2>1, <2>2, SumIs
<1> HIDE DEF a, fee, n
<1>7. 0 \in S
  <2>1. 1 .. 0 = {} /\ 0 \in 0 .. n
    BY <1>1
  <2>2. Sum(fee, 1 .. 0) = 0
    BY <2>1, SumEmpty
  <2> QED BY <1>2, <1>5, <2>1, <2>2
<1>8. ASSUME NEW i \in 1 .. n, i - 1 \in S PROVE i \in S
  <2> DEFINE j == i - 1
  <2>1. Good(j)
    BY <1>8
  <2>2. i \in Nat /\ j \in Nat /\ i \in 0 .. n /\ i \notin 1 .. j /\ 1 .. i = (1 .. j) \cup {i}
    BY <1>1
  <2>3. PICK all \in SUBSET Tx : UtxoGood(a[j], all, top)
    BY <2>1
  <2>4. txs[i] \in Tx /\ ValidSpend(txs[i], a[j], height)
    BY <1>1, <1>3
  <2>5. Fee(txs[i]) \in Nat
    BY <2>3, <2>4, SpendOnce
  <2>6. /\ UtxoGood(a[i], all \cup {txs[i]}, top)
        /\ Worth(a[i]) = Worth(a[j]) - Fee(txs[i])
    <3>1. a[i] = ApplyTransaction(a[j], txs[i], height)
      BY <1>2
    <3> DEFINE u == a[j]
               t == txs[i]
    <3>2. UtxoGood(u, all, top) /\ t \in Tx /\ ValidSpend(t, u, height)
      BY <2>3, <2>4
    <3>3. a[i] = ApplyTransaction(u, t, height)
      BY <3>1
    <3> HIDE DEF j, u, t
    <3>4. /\ UtxoGood(ApplyTransaction(u, t, height), all \cup {t}, top)
          /\ Worth(ApplyTransaction(u, t, height)) = Worth(u) - Fee(t)
      BY <3>2, ApplyOne
    <3>5. UtxoGood(a[i], all \cup {t}, top) /\ Worth(a[i]) = Worth(u) - Fee(t)
      BY <3>3, <3>4
    <3> QED BY <3>5 DEF u, t
  <2>7. fee[i] = Fee(txs[i])
    BY <1>4
  <2>8. all \cup {txs[i]} \in SUBSET Tx
    BY <2>4
  <2>9. /\ \A k \in 1 .. j : fee[k] \in Nat
        /\ Worth(a[j]) = Worth(utxos) - Sum(fee, 1 .. j)
    BY <2>1
  <2> HIDE DEF j
  <2>10. \A k \in 1 .. i : fee[k] \in Nat
    <3> TAKE k \in 1 .. i
    <3>1. k \in 1 .. j \/ k = i
      BY <2>2
    <3> QED BY <2>5, <2>7, <2>9, <3>1
  <2>11. i = j + 1
    BY <2>2 DEF j
  <2>12. Sum(fee, 1 .. i) = fee[i] + Sum(fee, 1 .. j) /\ Sum(fee, 1 .. j) \in Nat
    BY <2>2, <2>10, <2>11, SumNext
  <2>13. Worth(a[i]) = Worth(utxos) - Sum(fee, 1 .. i)
    <3> DEFINE u == Sum(fee, 1 .. i)
               v == Sum(fee, 1 .. j)
               w == Fee(txs[i])
               x == Worth(utxos)
    <3>1. u = w + v /\ v \in Nat /\ w \in Nat /\ x \in Nat
      BY <1>5, <2>5, <2>7, <2>12
    <3>2. Worth(a[i]) = (x - v) - w
      BY <2>6, <2>9
    <3> HIDE DEF u, v, w, x
    <3>3. (x - v) - w = x - u
      BY <3>1
    <3> QED BY <3>2, <3>3 DEF u, x
  <2>14. Good(i)
    BY <2>6, <2>8, <2>10, <2>13
  <2> QED BY <2>2, <2>14
<1>9. n \in S
  <2>1. 0 .. n \subseteq S
    <3> HIDE DEF S
    <3> QED BY <1>1, <1>7, <1>8, Along
  <2> QED BY <1>1, <2>1
<1>10. Good(n)
  BY <1>9
<1>11. Sum(fee, 1 .. n) \in Nat
  <2>1. IsFiniteSet(1 .. n) /\ \A j \in 1 .. n : fee[j] \in Nat
    BY <1>1, <1>10, FS_Interval
  <2> QED BY <2>1, SumNatural
<1> QED BY <1>6, <1>10, <1>11 DEF ApplyTransactions, a, n

-----------------------------------------------------------------------------
(* The settlement                                                            *)

Worked(work) ==
  /\ IsFiniteSet(DOMAIN work) /\ DOMAIN work \subseteq Nat
  /\ \A m \in DOMAIN work : work[m] \in Nat

\* Somebody is settled last.
LEMMA LastIsMiner ==
  ASSUME NEW work, Worked(work), DOMAIN work # {}
  PROVE  LastSettled(work) \in DOMAIN work
<1> DEFINE D == DOMAIN work
           Before(m, n) == work[m] < work[n] \/ (work[m] = work[n] /\ m > n)
           F == {s \in SUBSET D : s # {} => \E m \in s : \A n \in s \ {m} : Before(m, n)}
<1>1. IsFiniteSet(D) /\ \A m \in D : m \in Nat /\ work[m] \in Nat
  BY DEF Worked
<1>2. {} \in F
  OBVIOUS
<1>3. ASSUME NEW s \in SUBSET D, NEW x \in D \ s, s \in F PROVE s \cup {x} \in F
  <2>1. CASE s = {}
    <3>1. x \in s \cup {x} /\ \A n \in (s \cup {x}) \ {x} : Before(x, n)
      BY <2>1
    <3> QED BY <3>1
  <2>2. CASE s # {}
    <3>1. PICK m \in s : \A n \in s \ {m} : Before(m, n)
      BY <1>3, <2>2
    <3>2. \A n \in s : n \in Nat /\ work[n] \in Nat
      BY <1>1
    <3>3. x \in Nat /\ work[x] \in Nat /\ m # x
      BY <1>1
    <3>4. CASE Before(m, x)
      <4>1. \A n \in (s \cup {x}) \ {m} : Before(m, n)
        BY <3>1, <3>4
      <4> QED BY <4>1
    <3>5. CASE ~ Before(m, x)
      <4>1. Before(x, m)
        BY <3>2, <3>3, <3>5
      <4>2. \A n \in (s \cup {x}) \ {x} : Before(x, n)
        BY <3>1, <3>2, <3>3, <4>1
      <4> QED BY <4>2
    <3> QED BY <3>4, <3>5
  <2> QED BY <2>1, <2>2
<1>4. D \in F
  <2> HIDE DEF F, D
  <2> QED BY <1>1, <1>2, <1>3, FiniteInduction
<1>5. \E m \in D : \A n \in D \ {m} : Before(m, n)
  BY <1>4
<1> QED BY <1>5 DEF LastSettled

\* A share is a floor.
LEMMA Floor ==
  ASSUME NEW a \in Nat, NEW b \in Nat, b > 0
  PROVE  a \div b \in Nat /\ b * (a \div b) <= a
OBVIOUS

LEMMA Cancel ==
  ASSUME NEW a \in Nat, NEW b \in Nat, NEW t \in Nat, t > 0, t * a <= b * t
  PROVE  a <= b
<1> SUFFICES ASSUME a >= b + 1 PROVE FALSE
  OBVIOUS
<1>1. t * a >= t * (b + 1)
  OBVIOUS
<1>2. t * (b + 1) = b * t + t
  OBVIOUS
<1> QED BY <1>1, <1>2

\* The shares never exceed the pool, and the last miner takes the rest.
LEMMA PayoutSum ==
  ASSUME NEW amount \in Nat, NEW work, Worked(work), \E m \in DOMAIN work : work[m] > 0
  PROVE  /\ DOMAIN Payout(amount, work) = DOMAIN work
         /\ \A m \in DOMAIN work : Payout(amount, work)[m] \in Nat
         /\ Sum(Payout(amount, work), DOMAIN work) = amount
<1> DEFINE D == DOMAIN work
           last == LastSettled(work)
           R == D \ {last}
           T == TotalWork(work)
           share == [n \in R |-> Share(amount, work, n)]
           scaled == [n \in D |-> amount * work[n]]
           floors == [n \in R |-> T * share[n]]
           p == Payout(amount, work)
<1>1. IsFiniteSet(D) /\ (\A m \in D : work[m] \in Nat) /\ last \in D
  BY LastIsMiner DEF Worked
<1>2. T = Sum(work, D)
  BY SumIs DEF TotalWork
<1>3. T \in Nat /\ \A m \in D : work[m] <= T
  <2> HIDE DEF D, T
  <2> QED BY <1>1, <1>2, SumNatural
<1>4. T > 0
  BY <1>1, <1>3
<1>5. IsFiniteSet(R) /\ R \subseteq D
  BY <1>1, FS_Subset
<1>6. \A n \in R : share[n] \in Nat /\ T * share[n] <= amount * work[n] /\ amount * work[n] \in Nat
  <2> SUFFICES ASSUME NEW n \in R
               PROVE  share[n] \in Nat /\ T * share[n] <= amount * work[n] /\ amount * work[n] \in Nat
    OBVIOUS
  <2>1. amount * work[n] \in Nat
    BY <1>1, <1>5
  <2>2. share[n] = (amount * work[n]) \div T
    BY DEF Share
  <2> HIDE DEF T, share, R
  <2> QED BY <1>3, <1>4, <2>1, <2>2, Floor
<1>7. /\ DOMAIN share = R
      /\ \A n \in R : floors[n] = T * share[n] /\ scaled[n] = amount * work[n]
      /\ \A n \in D : scaled[n] = amount * work[n]
  BY <1>5
<1>8. /\ DOMAIN p = D
      /\ p[last] = amount - SumFunction(share)
      /\ \A n \in R : p[n] = share[n]
  BY <1>1 DEF Payout
<1>9. R \cup {last} = D /\ last \notin R
  BY <1>1
<1> HIDE DEF D, last, R, T, share, scaled, floors, p
<1>10. SumFunction(share) = Sum(share, R)
  BY <1>7, SumIs
<1>11. Sum(share, R) \in Nat
  BY <1>5, <1>6, SumNatural
<1>12. Sum(share, R) <= amount
  <2>1. \A n \in R : share[n] \in Int /\ floors[n] = T * share[n]
    BY <1>6, <1>7
  <2>2. Sum(floors, R) = T * Sum(share, R)
    BY <1>3, <1>5, <2>1, SumScales
  <2>3. \A n \in R : floors[n] \in Int /\ scaled[n] \in Int /\ floors[n] <= scaled[n]
    BY <1>3, <1>6, <1>7
  <2>4. Sum(floors, R) <= Sum(scaled, R)
    BY <1>5, <2>3, SumGrows
  <2>5. \A n \in D : work[n] \in Int /\ scaled[n] = amount * work[n]
    BY <1>1, <1>7
  <2>6. Sum(scaled, D) = amount * T
    BY <1>1, <1>2, <2>5, SumScales
  <2>7. \A n \in D : scaled[n] \in Nat
    <3> TAKE n \in D
    <3>1. work[n] \in Nat /\ scaled[n] = amount * work[n]
      BY <1>1, <1>7
    <3> QED BY <3>1
  <2>8. Sum(scaled, D) = scaled[last] + Sum(scaled, R)
    <3>1. Sum(scaled, R \cup {last}) = scaled[last] + Sum(scaled, R)
      <4>1. (\A n \in R : scaled[n] \in Int) /\ scaled[last] \in Int
        BY <1>9, <2>7
      <4> QED BY <1>5, <1>9, <4>1, SumAdd
    <3> QED BY <1>9, <3>1
  <2>9. scaled[last] \in Nat /\ Sum(scaled, R) \in Int
    <3>1. \A n \in R : scaled[n] \in Int
      BY <2>3
    <3> QED BY <1>5, <1>9, <2>7, <3>1, SumType
  <2>10. T * Sum(share, R) <= amount * T
    <3> DEFINE x == T * Sum(share, R)
               y == amount * T
    <3>1. x \in Int /\ y \in Int
      BY <1>3, <1>11
    <3> HIDE DEF x, y
    <3>2. x <= y
      <4>1. x = Sum(floors, R) /\ y = scaled[last] + Sum(scaled, R)
        BY <2>2, <2>6, <2>8 DEF x, y
      <4> QED BY <2>4, <2>9, <3>1, <4>1
    <3> QED BY <3>2 DEF x, y
  <2> QED BY <1>3, <1>4, <1>11, <2>10, Cancel
<1>13. p[last] \in Nat /\ \A n \in R : p[n] \in Nat
  BY <1>6, <1>8, <1>10, <1>11, <1>12
<1>14. Sum(p, R) = Sum(share, R)
  <2>1. \A n \in R : p[n] \in Int /\ p[n] = share[n]
    BY <1>8, <1>13
  <2> QED BY <1>5, <2>1, SumSame
<1>15. Sum(p, D) = p[last] + Sum(p, R)
  <2>1. Sum(p, R \cup {last}) = p[last] + Sum(p, R)
    <3>1. (\A n \in R : p[n] \in Int) /\ p[last] \in Int
      BY <1>13
    <3> QED BY <1>5, <1>9, <3>1, SumAdd
  <2> QED BY <1>9, <2>1
<1>16. Sum(p, D) = amount
  BY <1>8, <1>10, <1>11, <1>14, <1>15
<1>17. \A n \in D : p[n] \in Nat
  BY <1>9, <1>13
<1> QED BY <1>8, <1>16, <1>17 DEF D, p

\* The settlement's coins are the pool.
LEMMA SettledWorth ==
  ASSUME NEW amount \in Nat, NEW work, Worked(work), \E m \in DOMAIN work : work[m] > 0, NEW height
  PROVE  LET coins == Settled(amount, work, height) IN
         /\ IsFiniteSet(DOMAIN coins)
         /\ \A c \in DOMAIN coins : coins[c].value \in Nat /\ c[1] = "coinbase" /\ c[2] = height
         /\ Sum(Value(coins), DOMAIN coins) = amount
<1> DEFINE coins == Settled(amount, work, height)
           p == Payout(amount, work)
           D == DOMAIN work
           P == {m \in D : p[m] > 0}
           g == [m \in P |-> <<"coinbase", height, m>>]
<1>1. IsFiniteSet(D) /\ (\A m \in D : p[m] \in Nat) /\ Sum(p, D) = amount
  BY PayoutSum DEF Worked
<1>2. IsFiniteSet(P) /\ P \in SUBSET D
  BY <1>1, FS_Subset
<1>3. Sum(p, D) = Sum(p, P)
  <2>1. \A m \in D \ P : p[m] = 0
    BY <1>1
  <2>2. \A m \in D : p[m] \in Int
    BY <1>1
  <2> HIDE DEF p, D, P
  <2> QED BY <1>1, <1>2, <2>1, <2>2, SumZeros
<1>4. DOMAIN coins = {g[m] : m \in P}
  BY DEF Settled
<1>5. \A m \in P : coins[g[m]].value = p[m]
  BY DEF Settled
<1>6. \A m, n \in P : g[m] = g[n] => m = n
  OBVIOUS
<1>7. \A c \in DOMAIN coins : c[1] = "coinbase" /\ c[2] = height
  <2>1. \A m \in P : g[m][1] = "coinbase" /\ g[m][2] = height
    OBVIOUS
  <2> HIDE DEF g, P, coins
  <2> QED BY <1>4, <2>1
<1>8. \A m \in P : Value(coins)[g[m]] = p[m] /\ p[m] \in Nat
  BY <1>1, <1>4, <1>5 DEF Value
<1>9. \A c \in DOMAIN coins : coins[c].value \in Nat
  BY <1>1, <1>4, <1>5
<1> HIDE DEF coins, p, D, P, g
<1>10. IsFiniteSet({g[m] : m \in P}) /\ Sum(Value(coins), {g[m] : m \in P}) = Sum(p, P)
  BY <1>2, <1>6, <1>8, SumImage
<1> QED BY <1>1, <1>3, <1>4, <1>7, <1>9, <1>10 DEF coins

-----------------------------------------------------------------------------
(* One block                                                                 *)

AnyBlock == [txs : Seq(Tx), work : Works]

StateGood(state, top) ==
  /\ \E applied \in SUBSET Tx : UtxoGood(state.utxos, applied, top)
  /\ state.pool \in Nat
  /\ DOMAIN state.work \subseteq Miner /\ \A m \in DOMAIN state.work : state.work[m] \in Nat

LEMMA MoreWork ==
  ASSUME NEW work, DOMAIN work \subseteq Miner, \A m \in DOMAIN work : work[m] \in Nat,
         NEW new \in Works, \E m \in DOMAIN new : new[m] > 0
  PROVE  LET sum == AddWork(work, new) IN
         /\ DOMAIN sum \subseteq Miner /\ \A m \in DOMAIN sum : sum[m] \in Nat
         /\ Worked(sum) /\ \E m \in DOMAIN sum : sum[m] > 0
<1> DEFINE sum == AddWork(work, new)
<1>1. DOMAIN new \subseteq Miner /\ \A m \in DOMAIN new : new[m] \in Nat
  BY MempoolAssumption
<1>2. /\ DOMAIN sum = DOMAIN work \cup DOMAIN new
      /\ \A m \in DOMAIN sum : sum[m] = (IF m \in DOMAIN work THEN work[m] ELSE 0)
                                          + (IF m \in DOMAIN new THEN new[m] ELSE 0)
  BY DEF AddWork
<1> HIDE DEF sum
<1>3. \A m \in DOMAIN sum : sum[m] \in Nat
  BY <1>1, <1>2
<1>4. PICK m \in DOMAIN new : new[m] > 0
  OBVIOUS
<1>5. m \in DOMAIN sum /\ sum[m] > 0
  BY <1>1, <1>2, <1>4
<1>6. IsFiniteSet(Miner) /\ Miner \subseteq Nat /\ DOMAIN sum \subseteq Miner
  BY <1>1, <1>2, LedgerAssumption
<1>7. IsFiniteSet(DOMAIN sum)
  BY <1>6, FS_Subset
<1>8. Worked(sum)
  BY <1>3, <1>6, <1>7 DEF Worked
<1> QED BY <1>3, <1>5, <1>6, <1>8 DEF sum

LEMMA UtxoLater ==
  ASSUME NEW utxos, NEW applied, NEW top \in Nat, UtxoGood(utxos, applied, top)
  PROVE  UtxoGood(utxos, applied, top + 1)
<1>1. \A n \in Nat : n <= top => n <= top + 1
  OBVIOUS
<1> QED BY <1>1 DEF UtxoGood

AreCoins(coins, height) ==
  /\ IsFiniteSet(DOMAIN coins)
  /\ \A c \in DOMAIN coins : coins[c].value \in Nat /\ c[1] = "coinbase" /\ c[2] = height

Joined(utxos, coins) ==
  [c \in DOMAIN utxos \cup DOMAIN coins |-> IF c \in DOMAIN coins THEN coins[c] ELSE utxos[c]]

\* A settlement's coins are new, and add the pool.
LEMMA Settling ==
  ASSUME NEW utxos, NEW applied \in SUBSET Tx, NEW top \in Nat, UtxoGood(utxos, applied, top),
         NEW coins, AreCoins(coins, top + 1)
  PROVE  /\ UtxoGood(Joined(utxos, coins), applied, top + 1)
         /\ Worth(Joined(utxos, coins)) = Worth(utxos) + Sum(Value(coins), DOMAIN coins)
<1> DEFINE new == Joined(utxos, coins)
<1> HIDE DEF new
<1>1. \A c \in DOMAIN utxos : c \notin DOMAIN coins
  <2> SUFFICES ASSUME NEW c \in DOMAIN utxos, c \in DOMAIN coins PROVE FALSE
    OBVIOUS
  <2>1. c[1] = "coinbase" /\ c[2] = top + 1
    BY DEF AreCoins
  <2>2. c[2] \in Nat /\ c[2] <= top
    BY <2>1 DEF UtxoGood
  <2> QED BY <2>1, <2>2
<1>2. /\ DOMAIN new = DOMAIN utxos \cup DOMAIN coins
      /\ \A c \in DOMAIN utxos : new[c] = utxos[c]
      /\ \A c \in DOMAIN coins : new[c] = coins[c]
  BY <1>1 DEF Joined, new
<1>3. IsFiniteSet(DOMAIN utxos) /\ IsFiniteSet(DOMAIN coins) /\ IsFiniteSet(DOMAIN new)
  <2>1. IsFiniteSet(DOMAIN utxos) /\ IsFiniteSet(DOMAIN coins)
    BY DEF UtxoGood, AreCoins
  <2>2. IsFiniteSet(DOMAIN utxos \cup DOMAIN coins)
    BY <2>1, FS_Union
  <2> QED BY <1>2, <2>1, <2>2
<1>4. UtxoGood(new, applied, top + 1)
  <2>1. UtxoGood(utxos, applied, top + 1)
    BY UtxoLater
  <2>2. ASSUME NEW t \in applied
        PROVE  /\ Inputs[t] \cap DOMAIN new = {}
               /\ \A c \in Inputs[t] : c[1] = "tx" => c[2] \in applied
    <3>1. /\ Inputs[t] \cap DOMAIN utxos = {}
          /\ \A c \in Inputs[t] : c[1] = "tx" => c[2] \in applied
      BY DEF UtxoGood
    <3>2. \A c \in Inputs[t] : c[1] = "fund" \/ c[1] = "tx"
      BY InputKinds
    <3>3. Inputs[t] \cap DOMAIN coins = {}
      BY <3>2 DEF AreCoins
    <3> QED BY <1>2, <3>1, <3>3
  <2>3. ASSUME NEW c \in DOMAIN utxos
        PROVE  /\ new[c].value \in Nat
               /\ \/ c[1] = "fund" /\ new[c].value = ValueOf(c)
                  \/ c[1] = "tx" /\ new[c].value = ValueOf(c) /\ c[2] \in applied
                  \/ c[1] = "coinbase" /\ c[2] \in Nat /\ c[2] <= top + 1
    BY <1>2, <2>1 DEF UtxoGood
  <2>4. ASSUME NEW c \in DOMAIN coins
        PROVE  /\ new[c].value \in Nat
               /\ c[1] = "coinbase" /\ c[2] \in Nat /\ c[2] <= top + 1
    BY <1>2 DEF AreCoins
  <2> QED BY <1>2, <1>3, <2>2, <2>3, <2>4 DEF UtxoGood
<1>5. Worth(new) = Worth(utxos) + Sum(Value(coins), DOMAIN coins)
  <2> DEFINE U == DOMAIN utxos
             C == DOMAIN coins
  <2>1. \A c \in U : Value(new)[c] = Value(utxos)[c] /\ Value(new)[c] \in Int
    BY <1>2 DEF Value, UtxoGood
  <2>2. \A c \in C : Value(new)[c] = Value(coins)[c] /\ Value(new)[c] \in Int
    BY <1>2 DEF Value, AreCoins
  <2>3. IsFiniteSet(U) /\ IsFiniteSet(C) /\ U \cap C = {} /\ DOMAIN new = U \cup C
    BY <1>1, <1>2, <1>3
  <2>4. Worth(utxos) = Sum(Value(utxos), U)
    BY WorthIs
  <2> HIDE DEF U, C
  <2>5. Sum(Value(new), U \cup C) = Sum(Value(new), U) + Sum(Value(new), C)
    <3>1. \A c \in U \cup C : Value(new)[c] \in Int
      BY <2>1, <2>2
    <3> QED BY <2>3, <3>1, SumUnion
  <2>6. Sum(Value(new), U) = Sum(Value(utxos), U)
    <3>1. \A c \in U : Value(new)[c] \in Int
      BY <2>1
    <3> QED BY <2>1, <2>3, <3>1, SumSame
  <2>7. Sum(Value(new), C) = Sum(Value(coins), C)
    <3>1. \A c \in C : Value(new)[c] \in Int
      BY <2>2
    <3> QED BY <2>2, <2>3, <3>1, SumSame
  <2>8. Worth(new) = Sum(Value(new), U \cup C)
    BY <2>3, WorthIs
  <2> QED BY <2>4, <2>5, <2>6, <2>7, <2>8 DEF C
<1> QED BY <1>4, <1>5 DEF new

\* A valid block brings one subsidy, whatever it spends and settles.
LEMMA BlockConserves ==
  ASSUME NEW state, NEW top \in Nat, StateGood(state, top), NEW block \in AnyBlock,
         ValidBlock(state, block, top + 1)
  PROVE  LET new == ApplyBlockState(state, block, top + 1) IN
         /\ StateGood(new, top + 1)
         /\ Worth(new.utxos) + new.pool = Worth(state.utxos) + state.pool + Subsidy
<1> DEFINE h == top + 1
           utxos == ApplyTransactions(state.utxos, block.txs, h)
           fees == BlockFees(state.utxos, block.txs, h)
           amount == state.pool + Subsidy + fees
           work == AddWork(state.work, block.work)
           coins == Settled(amount, work, h)
           paid == Joined(utxos, coins)
           new == ApplyBlockState(state, block, h)
<1>1. block.txs \in Seq(Tx) /\ block.work \in Works
  BY DEF AnyBlock
<1>2. ValidTransactions(state.utxos, block.txs, h) /\ \E m \in DOMAIN block.work : block.work[m] > 0
  BY DEF ValidBlock
<1>3. PICK applied \in SUBSET Tx : UtxoGood(state.utxos, applied, top)
  BY DEF StateGood
<1>4. /\ \E all \in SUBSET Tx : UtxoGood(utxos, all, top)
      /\ fees \in Nat
      /\ Worth(utxos) = Worth(state.utxos) - fees
  <2> DEFINE u == state.utxos
             x == block.txs
  <2>1. UtxoGood(u, applied, top) /\ x \in Seq(Tx) /\ ValidTransactions(u, x, h)
    BY <1>1, <1>2, <1>3
  <2> HIDE DEF u, x, h
  <2>2. /\ \E all \in SUBSET Tx : UtxoGood(ApplyTransactions(u, x, h), all, top)
        /\ BlockFees(u, x, h) \in Nat
        /\ Worth(ApplyTransactions(u, x, h)) = Worth(u) - BlockFees(u, x, h)
    BY <2>1, ApplyAll
  <2> QED BY <2>2 DEF u, x
<1>5. PICK all \in SUBSET Tx : UtxoGood(utxos, all, top)
  BY <1>4
<1>6. /\ state.pool \in Nat /\ Subsidy \in Nat /\ amount \in Nat
      /\ Worth(state.utxos) \in Nat /\ Worth(utxos) \in Nat
  <2>1. Worth(state.utxos) \in Nat
    BY <1>3, WorthType
  <2>2. Worth(utxos) \in Nat
    <3> HIDE DEF utxos
    <3> QED BY <1>5, WorthType
  <2>3. state.pool \in Nat /\ Subsidy \in Nat
    BY LedgerAssumption DEF StateGood
  <2> QED BY <1>4, <2>1, <2>2, <2>3
<1>7. /\ DOMAIN work \subseteq Miner /\ \A m \in DOMAIN work : work[m] \in Nat
      /\ Worked(work) /\ \E m \in DOMAIN work : work[m] > 0
  <2>1. DOMAIN state.work \subseteq Miner /\ \A m \in DOMAIN state.work : state.work[m] \in Nat
    BY DEF StateGood
  <2> QED BY <1>1, <1>2, <2>1, MoreWork
<1>8. new = IF Boundary(h) THEN [utxos |-> paid, pool |-> 0, work |-> NoWork]
            ELSE [utxos |-> utxos, pool |-> amount, work |-> work]
  BY DEF ApplyBlockState, Joined
<1>9. h = top + 1
  OBVIOUS
<1>10. AreCoins(coins, h) /\ Sum(Value(coins), DOMAIN coins) = amount
  <2>1. amount \in Nat
    BY <1>6
  <2>2. Worked(work) /\ \E m \in DOMAIN work : work[m] > 0
    BY <1>7
  <2> HIDE DEF amount, work, h
  <2>3. LET c == Settled(amount, work, h) IN
        /\ IsFiniteSet(DOMAIN c)
        /\ \A k \in DOMAIN c : c[k].value \in Nat /\ k[1] = "coinbase" /\ k[2] = h
        /\ Sum(Value(c), DOMAIN c) = amount
    BY <2>1, <2>2, SettledWorth
  <2> QED BY <2>3 DEF AreCoins
<1> HIDE DEF h, utxos, fees, coins, work
<1>11. CASE Boundary(h)
  <2>1. new.utxos = paid /\ new.pool = 0 /\ new.work = NoWork
    BY <1>8, <1>11
  <2>2. UtxoGood(paid, all, top + 1) /\ Worth(paid) = Worth(utxos) + amount
    <3> HIDE DEF amount
    <3> QED BY <1>5, <1>9, <1>10, Settling
  <2>3. DOMAIN NoWork = {}
    BY DEF NoWork
  <2>4. StateGood(new, top + 1)
    <3> HIDE DEF new, paid
    <3> QED BY <2>1, <2>2, <2>3 DEF StateGood
  <2>5. Worth(paid) + 0 = Worth(state.utxos) + state.pool + Subsidy
    <3> HIDE DEF paid
    <3> QED BY <1>4, <1>6, <2>2
  <2> HIDE DEF new, paid, amount
  <2>6. Worth(new.utxos) + new.pool = Worth(state.utxos) + state.pool + Subsidy
    BY <2>1, <2>5
  <2> QED BY <1>9, <2>4, <2>6 DEF new
<1>12. CASE ~ Boundary(h)
  <2>1. new.utxos = utxos /\ new.pool = amount /\ new.work = work
    BY <1>8, <1>12
  <2>2. UtxoGood(utxos, all, top + 1)
    BY <1>5, UtxoLater
  <2>3. StateGood(new, top + 1)
    <3> HIDE DEF new, amount
    <3> QED BY <1>6, <1>7, <2>1, <2>2 DEF StateGood
  <2>4. Worth(utxos) + amount = Worth(state.utxos) + state.pool + Subsidy
    BY <1>4, <1>6
  <2> HIDE DEF new, amount
  <2>5. Worth(new.utxos) + new.pool = Worth(state.utxos) + state.pool + Subsidy
    BY <2>1, <2>4
  <2> QED BY <1>9, <2>3, <2>5 DEF new
<1> QED BY <1>11, <1>12

LEMMA ForkGood == StateGood(AtFork, Fork)
<1>1. AtFork.utxos = Funds /\ AtFork.pool = 0 /\ AtFork.work = NoWork /\ DOMAIN NoWork = {}
  BY DEF AtFork, NoWork
<1>2. UtxoGood(Funds, {}, Fork)
  <2>1. ASSUME NEW c \in DOMAIN Funds
        PROVE  Funds[c].value \in Nat /\ c[1] = "fund" /\ Funds[c].value = ValueOf(c)
    <3>1. c[1] = "fund" /\ Funds[c] \in Entry
      BY LedgerAssumption DEF Range
    <3>2. Funds[c].value \in Nat
      BY <3>1 DEF Entry
    <3>3. c[1] # "tx"
      BY <3>1
    <3> QED BY <3>1, <3>2, <3>3 DEF ValueOf
  <2>2. IsFiniteSet(DOMAIN Funds)
    BY LedgerAssumption
  <2> QED BY <2>1, <2>2 DEF UtxoGood
<1> HIDE DEF AtFork
<1> QED BY <1>1, <1>2 DEF StateGood

\* A branch of valid blocks.
ValidBranch(b) ==
  b \in Seq(AnyBlock) /\ \A i \in 1 .. Len(b) : ValidBlock(States(b)[i - 1], b[i], Fork + i)

LEMMA BranchConserves ==
  ASSUME NEW b, ValidBranch(b)
  PROVE  /\ Worth(Replay(b).utxos) + Replay(b).pool = Worth(Funds) + Subsidy * Len(b)
         /\ StateGood(Replay(b), Fork + Len(b))
<1> DEFINE n == Len(b)
           s == States(b)
           S == {i \in 0 .. n : /\ StateGood(s[i], Fork + i)
                                /\ Worth(s[i].utxos) + s[i].pool = Worth(Funds) + Subsidy * i}
<1>1. n \in Nat /\ \A i \in 1 .. n : b[i] \in AnyBlock
  BY DEF ValidBranch
<1>2. /\ s[0] = AtFork
      /\ \A i \in 1 .. n : s[i] = ApplyBlockState(s[i - 1], b[i], Fork + i)
  BY <1>1, StatesStep
<1>3. \A i \in 1 .. n : ValidBlock(s[i - 1], b[i], Fork + i)
  BY DEF ValidBranch
<1>4. Fork \in Nat /\ Subsidy \in Nat
  BY LedgerAssumption
<1>5. Worth(Funds) \in Nat
  <2>1. PICK applied : UtxoGood(Funds, applied, Fork)
    BY ForkGood DEF StateGood, AtFork
  <2> QED BY <2>1, WorthType
<1> HIDE DEF n, s
<1>6. 0 \in S
  <2>1. StateGood(s[0], Fork + 0)
    BY <1>2, <1>4, ForkGood
  <2>2. Worth(AtFork.utxos) + AtFork.pool = Worth(Funds) + Subsidy * 0
    BY <1>4, <1>5 DEF AtFork
  <2> QED BY <1>1, <1>2, <2>1, <2>2
<1>7. ASSUME NEW i \in 1 .. n, i - 1 \in S PROVE i \in S
  <2> DEFINE j == i - 1
             old == s[j]
             top == Fork + j
             new == ApplyBlockState(old, b[i], top + 1)
  <2>1. /\ StateGood(old, top)
        /\ Worth(old.utxos) + old.pool = Worth(Funds) + Subsidy * j
    BY <1>7
  <2>2. i \in 0 .. n /\ j \in Nat /\ i = j + 1 /\ top \in Nat /\ top + 1 = Fork + i
    BY <1>1, <1>4
  <2>3. b[i] \in AnyBlock /\ ValidBlock(old, b[i], top + 1) /\ s[i] = new
    BY <1>1, <1>2, <1>3, <2>2
  <2> HIDE DEF j, old, top
  <2>4. StateGood(new, top + 1) /\ Worth(new.utxos) + new.pool = Worth(old.utxos) + old.pool + Subsidy
    BY <2>1, <2>2, <2>3, BlockConserves
  <2>5. Subsidy * i = Subsidy * j + Subsidy /\ Subsidy * j \in Nat
    BY <1>4, <2>2
  <2> HIDE DEF new
  <2>6. Worth(new.utxos) + new.pool = Worth(Funds) + Subsidy * i
    BY <1>4, <1>5, <2>1, <2>4, <2>5
  <2> QED BY <2>2, <2>3, <2>4, <2>6
<1>8. n \in S
  <2>1. 0 .. n \subseteq S
    <3> HIDE DEF S
    <3> QED BY <1>1, <1>6, <1>7, Along
  <2> QED BY <1>1, <2>1
<1> QED BY <1>8 DEF Replay, n, s

-----------------------------------------------------------------------------
(* What the pool may hold                                                    *)

Steps(S, n, step) == \A i \in 1 .. n : \A v \in S : step[i][v] \in S

Follows(f, S, base, n, step) ==
  f \in [0 .. n -> S] /\ f[0] = base /\ \A i \in 1 .. n : f[i] = step[i][f[i - 1]]

\* A function by recursion, from values of a set to values of that set.
LEMMA Recursion ==
  ASSUME NEW S, NEW base \in S, NEW n \in Nat, NEW step, Steps(S, n, step)
  PROVE  \E f : Follows(f, S, base, n, step)
<1> USE DEF Steps
<1> DEFINE Good(k, f) == /\ f \in [0 .. k -> S] /\ f[0] = base
                         /\ \A i \in 1 .. k : f[i] = step[i][f[i - 1]]
           N == {k \in 0 .. n : \E f : Good(k, f)}
<1>1. 0 \in N
  <2> DEFINE f == [i \in 0 .. 0 |-> base]
  <2>1. Good(0, f) /\ 0 \in 0 .. n
    OBVIOUS
  <2> HIDE DEF f, Good
  <2> QED BY <2>1
<1>2. ASSUME NEW k \in 1 .. n, k - 1 \in N PROVE k \in N
  <2>1. PICK f : Good(k - 1, f)
    BY <1>2
  <2>2. k \in Nat /\ k - 1 \in 0 .. k - 1 /\ \A i \in 1 .. k - 1 : i - 1 \in 0 .. k - 1 /\ i \in 0 .. k - 1
    OBVIOUS
  <2> DEFINE g == [i \in 0 .. k |-> IF i = k THEN step[k][f[k - 1]] ELSE f[i]]
  <2>3. \A i \in 0 .. k - 1 : g[i] = f[i] /\ f[i] \in S
    BY <2>1
  <2>4. g[k] = step[k][g[k - 1]] /\ g[k] \in S
    <3>1. k \in 0 .. k /\ g[k] = step[k][f[k - 1]]
      BY <2>2
    <3>2. g[k - 1] = f[k - 1] /\ f[k - 1] \in S
      BY <2>2, <2>3
    <3> HIDE DEF g
    <3> QED BY <3>1, <3>2
  <2>5. g \in [0 .. k -> S]
    <3>1. \A i \in 0 .. k : i = k \/ i \in 0 .. k - 1
      OBVIOUS
    <3>2. \A i \in 0 .. k : g[i] \in S
      BY <2>3, <2>4, <3>1
    <3> QED BY <3>2
  <2>6. g[0] = base
    BY <2>1, <2>2, <2>3
  <2>7. \A i \in 1 .. k : g[i] = step[i][g[i - 1]]
    <3>1. \A i \in 1 .. k : i = k \/ i \in 1 .. k - 1
      OBVIOUS
    <3>2. \A i \in 1 .. k - 1 : g[i] = step[i][g[i - 1]]
      BY <2>1, <2>2, <2>3
    <3> QED BY <2>4, <3>1, <3>2
  <2> HIDE DEF g
  <2>8. Good(k, g)
    BY <2>5, <2>6, <2>7
  <2> HIDE DEF Good
  <2> QED BY <2>8
<1>3. n \in N
  <2>1. 0 .. n \subseteq N
    <3> HIDE DEF N
    <3> QED BY <1>1, <1>2, Along
  <2> QED BY <2>1
<1> QED BY <1>3 DEF Follows

\* Keep goes through the sequence once.
LEMMA KeepStep ==
  ASSUME NEW T, NEW txs \in Seq(T), NEW some
  PROVE  \E kept : /\ kept[0] = <<>> /\ Keep(txs, some) = kept[Len(txs)]
                   /\ \A i \in 1 .. Len(txs) :
                        kept[i] = IF txs[i] \in some THEN Append(kept[i - 1], txs[i])
                                                     ELSE kept[i - 1]
<1> DEFINE Q == Seq(T)
           n == Len(txs)
           Next_(v, i) == IF txs[i] \in some THEN Append(v, txs[i]) ELSE v
           Is(f) == f = [i \in 0 .. n |-> IF i = 0 THEN <<>> ELSE Next_(f[i - 1], i)]
           step == [i \in 1 .. n |-> [v \in Q |-> Next_(v, i)]]
           kept == CHOOSE f : Is(f)
<1>1. n \in Nat /\ <<>> \in Q /\ \A i \in 1 .. n : \A v \in Q : Next_(v, i) \in Q
  OBVIOUS
<1>2. \A i \in 1 .. n : \A v \in Q : step[i][v] = Next_(v, i)
  OBVIOUS
<1>3. Keep(txs, some) = kept[n]
  BY DEF Keep
<1> HIDE DEF Q, n, Next_, step
<1>4. PICK f : f \in [0 .. n -> Q] /\ f[0] = <<>> /\ \A i \in 1 .. n : f[i] = step[i][f[i - 1]]
  <2>1. Steps(Q, n, step)
    BY <1>1, <1>2 DEF Steps
  <2>2. \E f : Follows(f, Q, <<>>, n, step)
    BY <1>1, <2>1, Recursion
  <2> QED BY <2>2 DEF Follows
<1>5. Is(f)
  <2>1. \A i \in 1 .. n : i - 1 \in 0 .. n
    BY <1>1
  <2>2. \A i \in 0 .. n : f[i] = IF i = 0 THEN <<>> ELSE Next_(f[i - 1], i)
    <3>1. \A i \in 0 .. n : i = 0 \/ i \in 1 .. n
      BY <1>1
    <3> QED BY <1>2, <1>4, <2>1, <3>1
  <2>3. f = [i \in 0 .. n |-> f[i]]
    BY <1>4
  <2> QED BY <2>2, <2>3
<1>6. Is(kept)
  BY <1>5
<1> HIDE DEF kept
<1>7. kept[0] = <<>> /\ \A i \in 1 .. n : kept[i] = Next_(kept[i - 1], i)
  <2>1. 0 \in 0 .. n /\ \A i \in 1 .. n : i \in 0 .. n /\ i # 0
    BY <1>1
  <2> QED BY <1>6, <2>1
<1> HIDE DEF Is
<1> QED BY <1>3, <1>7 DEF n, Next_

LEMMA KeepType ==
  ASSUME NEW T, NEW txs \in Seq(T), NEW some
  PROVE  Keep(txs, some) \in Seq(T)
<1> DEFINE n == Len(txs)
           Q == Seq(T)
<1>1. PICK kept : /\ kept[0] = <<>> /\ Keep(txs, some) = kept[n]
                  /\ \A i \in 1 .. n : kept[i] = IF txs[i] \in some THEN Append(kept[i - 1], txs[i])
                                                                    ELSE kept[i - 1]
  BY KeepStep
<1>2. n \in Nat /\ <<>> \in Q /\ \A i \in 1 .. n : \A v \in Q : Append(v, txs[i]) \in Q
  OBVIOUS
<1> DEFINE S == {i \in 0 .. n : kept[i] \in Q}
<1> HIDE DEF n, Q
<1>3. 0 \in S
  BY <1>1, <1>2
<1>4. ASSUME NEW i \in 1 .. n, i - 1 \in S PROVE i \in S
  <2>1. kept[i - 1] \in Q
    BY <1>4
  <2>2. Append(kept[i - 1], txs[i]) \in Q /\ i \in 0 .. n
    BY <1>2, <2>1
  <2>3. kept[i] = Append(kept[i - 1], txs[i]) \/ kept[i] = kept[i - 1]
    BY <1>1
  <2>4. kept[i] \in Q
    BY <2>1, <2>2, <2>3
  <2> QED BY <2>2, <2>4
<1>5. 0 .. n \subseteq S
  <2> HIDE DEF S
  <2> QED BY <1>2, <1>3, <1>4, Along
<1>6. kept[n] \in Q
  BY <1>2, <1>5
<1> QED BY <1>1, <1>6 DEF Q

AnyPool == [txs : Seq(Tx), spends : SUBSET UNION {Inputs[t] : t \in Tx}]

LEMMA ReleaseType == ASSUME NEW p \in AnyPool, NEW gone PROVE Release(p, gone) \in AnyPool
<1>1. p.txs \in Seq(Tx) /\ p.spends \subseteq UNION {Inputs[t] : t \in Tx}
  BY DEF AnyPool
<1>2. Keep(p.txs, Tx \ gone) \in Seq(Tx)
  BY <1>1, KeepType
<1> QED BY <1>1, <1>2 DEF Release, AnyPool

LEMMA AdmitType == ASSUME NEW p \in AnyPool, NEW t \in Tx PROVE Admit(p, t) \in AnyPool
<1> DEFINE room == IF Full(p) THEN Release(p, {Worst(p.txs)}) ELSE p
<1>1. room \in AnyPool
  BY ReleaseType
<1>2. Admit(p, t) = [txs |-> Append(room.txs, t), spends |-> room.spends \cup Inputs[t]]
  BY DEF Admit
<1> HIDE DEF room
<1>3. room.txs \in Seq(Tx) /\ room.spends \subseteq UNION {Inputs[s] : s \in Tx}
  BY <1>1 DEF AnyPool
<1> QED BY <1>2, <1>3 DEF AnyPool

\* Resubmit takes the transactions one after the other.
LEMMA ResubmitStep ==
  ASSUME NEW p \in AnyPool, NEW txs \in Seq(Tx), NEW utxos, NEW height
  PROVE  \E q : /\ q[0] = p /\ Resubmit(p, txs, utxos, height) = q[Len(txs)]
                /\ \A i \in 1 .. Len(txs) :
                     q[i] = IF Admissible(q[i - 1], txs[i], utxos, height)
                              THEN Admit(q[i - 1], txs[i]) ELSE q[i - 1]
<1> DEFINE n == Len(txs)
           Next_(v, i) == IF Admissible(v, txs[i], utxos, height) THEN Admit(v, txs[i]) ELSE v
           Is(f) == f = [i \in 0 .. n |-> IF i = 0 THEN p ELSE Next_(f[i - 1], i)]
           step == [i \in 1 .. n |-> [v \in AnyPool |-> Next_(v, i)]]
           q == CHOOSE f : Is(f)
<1>1. n \in Nat /\ \A i \in 1 .. n : \A v \in AnyPool : Next_(v, i) \in AnyPool
  <2>1. n \in Nat /\ \A i \in 1 .. n : txs[i] \in Tx
    OBVIOUS
  <2> QED BY <2>1, AdmitType
<1>2. \A i \in 1 .. n : \A v \in AnyPool : step[i][v] = Next_(v, i)
  OBVIOUS
<1>3. Resubmit(p, txs, utxos, height) = q[n]
  BY DEF Resubmit
<1> HIDE DEF n, Next_, step
<1>4. PICK f : f \in [0 .. n -> AnyPool] /\ f[0] = p /\ \A i \in 1 .. n : f[i] = step[i][f[i - 1]]
  <2>1. Steps(AnyPool, n, step)
    BY <1>1, <1>2 DEF Steps
  <2>2. \E f : Follows(f, AnyPool, p, n, step)
    BY <1>1, <2>1, Recursion
  <2> QED BY <2>2 DEF Follows
<1>5. Is(f)
  <2>1. \A i \in 1 .. n : i - 1 \in 0 .. n
    BY <1>1
  <2>2. \A i \in 0 .. n : f[i] = IF i = 0 THEN p ELSE Next_(f[i - 1], i)
    <3>1. \A i \in 0 .. n : i = 0 \/ i \in 1 .. n
      BY <1>1
    <3> QED BY <1>2, <1>4, <2>1, <3>1
  <2>3. f = [i \in 0 .. n |-> f[i]]
    BY <1>4
  <2> QED BY <2>2, <2>3
<1>6. Is(q)
  BY <1>5
<1> HIDE DEF q
<1>7. q[0] = p /\ \A i \in 1 .. n : q[i] = Next_(q[i - 1], i)
  <2>1. 0 \in 0 .. n /\ \A i \in 1 .. n : i \in 0 .. n /\ i # 0
    BY <1>1
  <2> QED BY <1>6, <2>1
<1> HIDE DEF Is
<1> QED BY <1>3, <1>7 DEF n, Next_

LEMMA ResubmitType ==
  ASSUME NEW p \in AnyPool, NEW txs \in Seq(Tx), NEW utxos, NEW height
  PROVE  Resubmit(p, txs, utxos, height) \in AnyPool
<1> DEFINE n == Len(txs)
<1>1. PICK q : /\ q[0] = p /\ Resubmit(p, txs, utxos, height) = q[n]
               /\ \A i \in 1 .. n : q[i] = IF Admissible(q[i - 1], txs[i], utxos, height)
                                              THEN Admit(q[i - 1], txs[i]) ELSE q[i - 1]
  BY ResubmitStep
<1>2. n \in Nat /\ \A i \in 1 .. n : txs[i] \in Tx
  OBVIOUS
<1> DEFINE S == {i \in 0 .. n : q[i] \in AnyPool}
<1> HIDE DEF n
<1>3. 0 \in S
  BY <1>1, <1>2
<1>4. \A i \in 1 .. n : i - 1 \in S => i \in S
  BY <1>1, <1>2, AdmitType
<1>5. 0 .. n \subseteq S
  <2> HIDE DEF S
  <2> QED BY <1>2, <1>3, <1>4, Along
<1>6. q[n] \in AnyPool
  BY <1>2, <1>5
<1> QED BY <1>1, <1>6

LEMMA FlattenType ==
  ASSUME NEW T, NEW seqs \in Seq(Seq(T)), Len(seqs) > 0
  PROVE  FlattenSeq(seqs) \in Seq(T)
<1> DEFINE Q == Seq(T)
           n == Len(seqs)
           Is(f) == f = [i \in 1 .. n |-> IF i = 1 THEN seqs[i] ELSE f[i - 1] \o seqs[i]]
           step == [i \in 1 .. n - 1 |-> [v \in Q |-> v \o seqs[i + 1]]]
           flat == CHOOSE f : Is(f)
<1>1. n \in Nat \ {0} /\ \A i \in 1 .. n : seqs[i] \in Q
  OBVIOUS
<1>2. \A i \in 1 .. n - 1 : \A v \in Q : step[i][v] = v \o seqs[i + 1] /\ step[i][v] \in Q
  OBVIOUS
<1>3. \A u \in Q : \A v \in Q : u \o v \in Q
  OBVIOUS
<1>0. FlattenSeq(seqs) = flat[n]
  BY DEF FlattenSeq
<1> HIDE DEF Q, n, step
<1>4. PICK f : /\ f \in [0 .. n - 1 -> Q] /\ f[0] = seqs[1]
                /\ \A i \in 1 .. n - 1 : f[i] = step[i][f[i - 1]]
  <2>1. n - 1 \in Nat /\ seqs[1] \in Q
    BY <1>1
  <2>2. Steps(Q, n - 1, step)
    BY <1>2 DEF Steps
  <2>3. \E f : Follows(f, Q, seqs[1], n - 1, step)
    BY <2>1, <2>2, Recursion
  <2> QED BY <2>3 DEF Follows
<1> DEFINE g == [i \in 1 .. n |-> f[i - 1]]
<1>5. Is(g)
  <2>1. \A i \in 1 .. n : g[i] = IF i = 1 THEN seqs[i] ELSE g[i - 1] \o seqs[i]
    <3> SUFFICES ASSUME NEW i \in 1 .. n PROVE g[i] = IF i = 1 THEN seqs[i] ELSE g[i - 1] \o seqs[i]
      OBVIOUS
    <3>1. CASE i = 1
      BY <1>4, <3>1
    <3>2. CASE i # 1
      <4> DEFINE j == i - 1
      <4>1. j \in 1 .. n - 1 /\ j - 1 \in 0 .. n - 1 /\ j \in 1 .. n /\ j + 1 = i
        BY <1>1, <3>2
      <4>2. g[i] = f[j] /\ g[j] = f[j - 1]
        BY <4>1
      <4> HIDE DEF j, g
      <4>3. f[j] = step[j][f[j - 1]] /\ f[j - 1] \in Q
        BY <1>4, <4>1
      <4>4. g[i] = g[j] \o seqs[i]
        BY <1>2, <4>1, <4>2, <4>3
      <4> QED BY <3>2, <4>4 DEF j
    <3> QED BY <3>1, <3>2
  <2>2. g = [i \in 1 .. n |-> g[i]]
    OBVIOUS
  <2> HIDE DEF g
  <2> QED BY <2>1, <2>2
<1>6. Is(flat)
  <2> HIDE DEF g
  <2> QED BY <1>5
<1> HIDE DEF flat
<1>7. \A i \in 1 .. n : flat[i] = IF i = 1 THEN seqs[i] ELSE flat[i - 1] \o seqs[i]
  BY <1>6
<1> HIDE DEF Is
<1>8. flat[(n - 1) + 1] \in Q
  <2> DEFINE S == {i \in 0 .. n - 1 : flat[i + 1] \in Q}
  <2>1. 0 \in S
    BY <1>1, <1>7
  <2>2. ASSUME NEW i \in 1 .. n - 1, i - 1 \in S PROVE i \in S
    <3>1. flat[i] \in Q
      <4>1. (i - 1) + 1 = i
        OBVIOUS
      <4> QED BY <2>2, <4>1
    <3>2. i + 1 \in 1 .. n /\ i + 1 # 1 /\ (i + 1) - 1 = i /\ i \in 0 .. n - 1
      BY <1>1
    <3>3. flat[i + 1] = flat[i] \o seqs[i + 1] /\ seqs[i + 1] \in Q
      BY <1>1, <1>7, <3>2
    <3>4. flat[i + 1] \in Q
      BY <1>3, <3>1, <3>3
    <3> QED BY <3>2, <3>4
  <2>3. 0 .. n - 1 \subseteq S
    <3>1. n - 1 \in Nat
      BY <1>1
    <3> HIDE DEF S
    <3> QED BY <2>1, <2>2, <3>1, Along
  <2>4. n - 1 \in 0 .. n - 1
    BY <1>1
  <2> QED BY <2>3, <2>4
<1>9. flat[(n - 1) + 1] \in Q /\ (n - 1) + 1 = n
  BY <1>1, <1>8
<1> QED BY <1>0, <1>9 DEF Q

-----------------------------------------------------------------------------
(* The invariant                                                             *)

\* The ledger is the replay of a chain of valid blocks, also after a reorg.
LedgerIInv ==
  /\ ValidBranch(chain)
  /\ ledger = Replay(chain)
  /\ pool \in AnyPool

LEMMA AnyBlocks == Block \subseteq AnyBlock
BY MempoolAssumption DEF Block, AnyBlock

LEMMA PruneType ==
  ASSUME NEW p \in AnyPool, NEW blocks, NEW utxos, NEW height
  PROVE  Prune(p, blocks, utxos, height) \in AnyPool
BY ReleaseType DEF Prune

LEMMA ExtendKeeps ==
  ASSUME LedgerIInv, NEW block \in AnyBlock, Extend(block)
  PROVE  LedgerIInv'
<1> DEFINE n == Len(chain)
           c == Append(chain, block)
<1>1. /\ ValidBlock(ledger, block, Height + 1) /\ chain' = c
      /\ ledger' = ApplyBlockState(ledger, block, Height + 1)
      /\ pool' = Prune(pool, chain', ledger'.utxos, Height + 1)
  BY DEF Extend
<1>2. /\ chain \in Seq(AnyBlock) /\ ledger = States(chain)[n]
      /\ \A i \in 1 .. n : ValidBlock(States(chain)[i - 1], chain[i], Fork + i)
  BY DEF LedgerIInv, ValidBranch, Replay
<1>3. /\ n \in Nat /\ c \in Seq(AnyBlock) /\ Len(c) = n + 1
      /\ c[n + 1] = block /\ \A i \in 1 .. n : c[i] = chain[i]
  BY <1>2
<1>4. Height + 1 = Fork + (n + 1)
  BY <1>3, LedgerAssumption DEF Height
<1> HIDE DEF n, c
<1>5. \A i \in 0 .. n : States(chain)[i] = States(c)[i]
  <2> DEFINE b == chain
  <2>1. /\ Len(b) \in Nat /\ Len(c) \in Nat /\ n <= Len(b) /\ n <= Len(c)
        /\ \A i \in 1 .. n : b[i] = c[i]
    BY <1>3 DEF n
  <2> HIDE DEF b
  <2>2. \A i \in 0 .. n : States(b)[i] = States(c)[i]
    BY <1>3, <2>1, StatesAgree
  <2> QED BY <2>2 DEF b
<1>6. States(c)[n + 1] = ApplyBlockState(ledger, block, Height + 1)
  <2>1. n + 1 \in 1 .. Len(c) /\ (n + 1) - 1 = n /\ n \in 0 .. n
    BY <1>3
  <2>2. States(c)[n + 1] = ApplyBlockState(States(c)[(n + 1) - 1], c[n + 1], Fork + (n + 1))
    BY <1>3, <2>1, StatesStep
  <2> QED BY <1>2, <1>3, <1>4, <1>5, <2>1, <2>2
<1>7. ValidBranch(c)
  <2> SUFFICES ASSUME NEW i \in 1 .. n + 1 PROVE ValidBlock(States(c)[i - 1], c[i], Fork + i)
    BY <1>3 DEF ValidBranch
  <2>1. CASE i \in 1 .. n
    <3>1. i - 1 \in 0 .. n
      BY <1>3
    <3> QED BY <1>2, <1>3, <1>5, <2>1, <3>1
  <2>2. CASE i \notin 1 .. n
    <3>1. i = n + 1 /\ i - 1 = n /\ n \in 0 .. n
      BY <1>3, <2>2
    <3> QED BY <1>1, <1>2, <1>3, <1>4, <1>5, <3>1
  <2> QED BY <2>1, <2>2
<1>8. ledger' = Replay(c)
  BY <1>1, <1>3, <1>6 DEF Replay
<1>9. pool' \in AnyPool
  BY <1>1, PruneType DEF LedgerIInv
<1> QED BY <1>1, <1>7, <1>8, <1>9 DEF LedgerIInv

LEMMA DisconnectedType ==
  ASSUME chain \in Seq(AnyBlock), NEW kept \in 0 .. Len(chain) - 1
  PROVE  Disconnected(kept) \in Seq(Tx)
<1> DEFINE parts == [i \in 1 .. Len(chain) - kept |-> chain[kept + i].txs]
           txs == Disconnected(kept)
<1>1. Len(chain) \in Nat /\ kept \in Nat /\ kept < Len(chain)
  OBVIOUS
<1>2. parts \in Seq(Seq(Tx)) /\ Len(parts) > 0
  <2>1. \A i \in 1 .. Len(chain) - kept : chain[kept + i].txs \in Seq(Tx)
    <3> TAKE i \in 1 .. Len(chain) - kept
    <3>1. kept + i \in 1 .. Len(chain)
      BY <1>1
    <3>2. chain[kept + i] \in AnyBlock
      BY <3>1
    <3> QED BY <3>2 DEF AnyBlock
  <2>2. Len(chain) - kept \in Nat /\ Len(chain) - kept > 0
    BY <1>1
  <2> QED BY <2>1, <2>2
<1>3. txs = FlattenSeq(parts)
  BY DEF Disconnected
<1> HIDE DEF parts, txs
<1>4. txs \in Seq(Tx)
  BY <1>2, <1>3, FlattenType
<1> QED BY <1>4 DEF txs

LEMMA ReorgKeeps ==
  ASSUME LedgerIInv, NEW kept \in 0 .. Len(chain) - 1, NEW n \in Nat, NEW blocks \in [1 .. n -> Block],
         Reorg(kept, blocks)
  PROVE  LedgerIInv'
<1> DEFINE branch == SubSeq(chain, 1, kept) \o blocks
           new == Replay(branch)
           h == Fork + Len(branch)
           txs == Disconnected(kept)
<1>1. /\ chain' = branch /\ ledger' = new
      /\ pool' = Prune(Resubmit(pool, txs, new.utxos, h), branch, new.utxos, h)
      /\ \A i \in kept + 1 .. Len(branch) : ValidBlock(States(branch)[i - 1], branch[i], Fork + i)
  BY DEF Reorg, Overtakes
<1>2. /\ chain \in Seq(AnyBlock) /\ pool \in AnyPool
      /\ \A i \in 1 .. Len(chain) : ValidBlock(States(chain)[i - 1], chain[i], Fork + i)
  BY DEF LedgerIInv, ValidBranch
<1>3. Len(chain) \in Nat /\ kept \in Nat /\ kept < Len(chain)
  BY <1>2
<1>4. /\ branch \in Seq(AnyBlock) /\ kept <= Len(branch)
      /\ \A i \in 1 .. kept : branch[i] = chain[i]
  <2> DEFINE trunk == SubSeq(chain, 1, kept)
  <2>1. trunk \in Seq(AnyBlock) /\ Len(trunk) = kept /\ \A i \in 1 .. kept : trunk[i] = chain[i]
    BY <1>2, <1>3
  <2>2. blocks \in Seq(AnyBlock)
    BY AnyBlocks
  <2> HIDE DEF trunk
  <2>3. /\ trunk \o blocks \in Seq(AnyBlock) /\ kept <= Len(trunk \o blocks)
        /\ \A i \in 1 .. kept : (trunk \o blocks)[i] = trunk[i]
    BY <1>3, <2>1, <2>2
  <2> QED BY <2>1, <2>3 DEF trunk
<1>5. txs \in Seq(Tx)
  BY <1>2, DisconnectedType
<1> HIDE DEF branch, new, h, txs
<1>6. \A i \in 0 .. kept : States(chain)[i] = States(branch)[i]
  <2> DEFINE b == chain
  <2>1. /\ Len(b) \in Nat /\ Len(branch) \in Nat /\ kept <= Len(b) /\ kept <= Len(branch)
        /\ \A i \in 1 .. kept : b[i] = branch[i]
    BY <1>3, <1>4
  <2> HIDE DEF b
  <2>2. \A i \in 0 .. kept : States(b)[i] = States(branch)[i]
    BY <1>3, <2>1, StatesAgree
  <2> QED BY <2>2 DEF b
<1>7. ValidBranch(branch)
  <2> SUFFICES ASSUME NEW i \in 1 .. Len(branch)
               PROVE  ValidBlock(States(branch)[i - 1], branch[i], Fork + i)
    BY <1>4 DEF ValidBranch
  <2>1. CASE i <= kept
    <3>1. i \in 1 .. kept /\ i \in 1 .. Len(chain) /\ i - 1 \in 0 .. kept
      BY <1>3, <2>1
    <3> QED BY <1>2, <1>4, <1>6, <3>1
  <2>2. CASE i > kept
    <3>1. i \in kept + 1 .. Len(branch)
      BY <1>3, <2>2
    <3> QED BY <1>1, <3>1
  <2> QED BY <1>3, <2>1, <2>2
<1>8. pool' \in AnyPool
  <2>1. Resubmit(pool, txs, new.utxos, h) \in AnyPool
    BY <1>2, <1>5, ResubmitType
  <2> QED BY <1>1, <2>1, PruneType
<1> QED BY <1>1, <1>7, <1>8 DEF LedgerIInv, new

LEMMA LedgerInit == Init => LedgerIInv
<1> SUFFICES ASSUME Init PROVE LedgerIInv
  OBVIOUS
<1>1. chain = <<>> /\ ledger = AtFork /\ pool = EmptyPool
  BY DEF Init
<1>2. Len(chain) = 0 /\ chain \in Seq(AnyBlock)
  BY <1>1
<1>3. ValidBranch(chain)
  BY <1>2 DEF ValidBranch
<1>4. ledger = Replay(chain)
  BY <1>1, <1>2, StatesStep DEF Replay
<1>5. pool \in AnyPool
  BY <1>1 DEF EmptyPool, AnyPool
<1> QED BY <1>3, <1>4, <1>5 DEF LedgerIInv

LEMMA LedgerNext == LedgerIInv /\ [Next]_vars => LedgerIInv'
<1> SUFFICES ASSUME LedgerIInv, [Next]_vars PROVE LedgerIInv'
  OBVIOUS
<1>1. CASE UNCHANGED vars
  BY <1>1 DEF vars, LedgerIInv
<1>2. ASSUME NEW t \in Tx, SubmitTransaction(t) PROVE LedgerIInv'
  <2>1. pool' = Admit(pool, t) /\ chain' = chain /\ ledger' = ledger
    BY <1>2 DEF SubmitTransaction
  <2>2. pool' \in AnyPool
    BY <2>1, AdmitType DEF LedgerIInv
  <2> QED BY <2>1, <2>2 DEF LedgerIInv
<1>3. ASSUME NEW block \in Block, Extend(block) PROVE LedgerIInv'
  BY <1>3, AnyBlocks, ExtendKeeps
<1>4. ASSUME NEW work \in Works, Produce(work) PROVE LedgerIInv'
  <2>1. Candidate(work) \in AnyBlock /\ Extend(Candidate(work))
    BY <1>4 DEF Produce, Candidate, LedgerIInv, AnyPool, AnyBlock
  <2> QED BY <2>1, ExtendKeeps
<1>5. ASSUME NEW kept \in 0 .. Len(chain) - 1,
             NEW n \in {Len(chain) - kept, Len(chain) - kept + 1}, NEW blocks \in [1 .. n -> Block],
             Reorg(kept, blocks)
      PROVE  LedgerIInv'
  <2>1. Len(chain) \in Nat
    BY DEF LedgerIInv, ValidBranch
  <2>2. n \in Nat
    BY <2>1
  <2> QED BY <1>5, <2>2, ReorgKeeps
<1> QED BY <1>1, <1>2, <1>3, <1>4, <1>5 DEF Next

\* Nothing is minted or lost: the unspent outputs and the epoch's pool hold what
\* was there at the fork and one subsidy for every block since (validateSpend,
\* calculateBlockFees, computeEpochSettlement, reorgToBlock).
THEOREM NothingIsMinted == Spec => []Conservation
<1>1. LedgerIInv => Conservation
  BY BranchConserves DEF LedgerIInv, Conservation
<1> QED BY <1>1, LedgerInit, LedgerNext, PTL DEF Spec

-----------------------------------------------------------------------------
(* The pool's order and rates                                                *)

Distinct(s) == \A i, j \in DOMAIN s : s[i] = s[j] => i = j

LEMMA AppendSet ==
  ASSUME NEW T, NEW s \in Seq(T), NEW t \in T
  PROVE  /\ Append(s, t) \in Seq(T) /\ ToSet(Append(s, t)) = ToSet(s) \cup {t}
         /\ Distinct(s) /\ t \notin ToSet(s) => Distinct(Append(s, t))
<1> DEFINE a == Append(s, t)
           n == Len(s)
<1>1. /\ n \in Nat /\ DOMAIN s = 1 .. n /\ DOMAIN a = 1 .. n + 1
      /\ a[n + 1] = t /\ \A i \in 1 .. n : a[i] = s[i]
  OBVIOUS
<1>2. a \in Seq(T)
  OBVIOUS
<1> HIDE DEF a, n
<1>3. 1 .. n + 1 = (1 .. n) \cup {n + 1}
  BY <1>1
<1>4. ToSet(a) = ToSet(s) \cup {t}
  BY <1>1, <1>3 DEF ToSet
<1>5. ASSUME Distinct(s), t \notin ToSet(s) PROVE Distinct(a)
  <2> SUFFICES ASSUME NEW i \in 1 .. n + 1, NEW j \in 1 .. n + 1, a[i] = a[j] PROVE i = j
    BY <1>1 DEF Distinct
  <2>1. \A k \in 1 .. n : a[k] = s[k] /\ s[k] # t
    BY <1>1, <1>5 DEF ToSet
  <2>2. CASE i \in 1 .. n /\ j \in 1 .. n
    BY <1>1, <1>5, <2>1, <2>2 DEF Distinct
  <2>3. CASE i \notin 1 .. n \/ j \notin 1 .. n
    BY <1>1, <1>3, <2>1, <2>3
  <2> QED BY <2>2, <2>3
<1> QED BY <1>2, <1>4, <1>5 DEF a

LEMMA KeepSet ==
  ASSUME NEW T, NEW txs \in Seq(T), NEW some
  PROVE  /\ ToSet(Keep(txs, some)) = ToSet(txs) \cap some
         /\ Distinct(txs) => Distinct(Keep(txs, some))
<1> DEFINE n == Len(txs)
           First(i) == {txs[j] : j \in 1 .. i}
           Q == Seq(T)
<1>1. PICK kept : /\ kept[0] = <<>> /\ Keep(txs, some) = kept[n]
                  /\ \A i \in 1 .. n : kept[i] = IF txs[i] \in some THEN Append(kept[i - 1], txs[i])
                                                                    ELSE kept[i - 1]
  BY KeepStep
<1>2. /\ n \in Nat /\ DOMAIN txs = 1 .. n /\ ToSet(txs) = First(n)
      /\ \A i \in 1 .. n : txs[i] \in T
  BY DEF ToSet
<1>3. <<>> \in Q /\ ToSet(<<>>) = {} /\ Distinct(<<>>)
  BY DEF ToSet, Distinct
<1> DEFINE S == {i \in 0 .. n : /\ kept[i] \in Q /\ ToSet(kept[i]) = First(i) \cap some
                                /\ Distinct(txs) => Distinct(kept[i])}
<1> HIDE DEF n, Q
<1>4. 0 \in S
  <2>1. First(0) = {} /\ 0 \in 0 .. n
    BY <1>2
  <2> HIDE DEF First
  <2> QED BY <1>1, <1>3, <2>1
<1>5. ASSUME NEW i \in 1 .. n, i - 1 \in S PROVE i \in S
  <2> DEFINE j == i - 1
             k == kept[j]
  <2>1. k \in Q /\ ToSet(k) = First(j) \cap some /\ (Distinct(txs) => Distinct(k))
    BY <1>5
  <2>2. i \in 0 .. n /\ j \in 0 .. n /\ txs[i] \in T
    BY <1>2
  <2>3. First(i) = First(j) \cup {txs[i]}
    <3>1. 1 .. i = (1 .. j) \cup {i}
      BY <1>2
    <3> QED BY <3>1
  <2>4. Distinct(txs) => txs[i] \notin First(j)
    <3> SUFFICES ASSUME Distinct(txs), NEW m \in 1 .. j, txs[m] = txs[i] PROVE FALSE
      OBVIOUS
    <3>1. m \in 1 .. n /\ i \in 1 .. n /\ m # i
      BY <1>2
    <3> QED BY <1>2, <3>1 DEF Distinct
  <2>5. kept[i] = IF txs[i] \in some THEN Append(k, txs[i]) ELSE k
    BY <1>1
  <2> HIDE DEF k, First, j
  <2>6. CASE txs[i] \in some
    <3>1. /\ Append(k, txs[i]) \in Q /\ ToSet(Append(k, txs[i])) = ToSet(k) \cup {txs[i]}
          /\ Distinct(k) /\ txs[i] \notin ToSet(k) => Distinct(Append(k, txs[i]))
      BY <2>1, <2>2, AppendSet DEF Q
    <3>2. ToSet(kept[i]) = First(i) \cap some
      BY <2>1, <2>3, <2>5, <2>6, <3>1
    <3>3. Distinct(txs) => Distinct(kept[i])
      BY <2>1, <2>4, <2>5, <2>6, <3>1
    <3> QED BY <2>2, <2>5, <2>6, <3>1, <3>2, <3>3
  <2>7. CASE txs[i] \notin some
    <3>1. ToSet(kept[i]) = First(i) \cap some
      BY <2>1, <2>3, <2>5, <2>7
    <3> QED BY <2>1, <2>2, <2>5, <2>7, <3>1
  <2> QED BY <2>6, <2>7
<1>6. 0 .. n \subseteq S
  <2> HIDE DEF S
  <2> QED BY <1>2, <1>4, <1>5, Along
<1>7. n \in S
  BY <1>2, <1>6
<1> QED BY <1>1, <1>2, <1>7

\* Rates compare without division: at least and then above is above.
LEMMA RateAbove ==
  ASSUME NEW a \in Nat, NEW b \in Nat, NEW c \in Nat,
         NEW p \in Nat \ {0}, NEW q \in Nat \ {0}, NEW r \in Nat \ {0},
         a * q >= b * p, b * r > c * q
  PROVE  a * r > c * p
<1>1. (a * q) * r >= (b * p) * r
  OBVIOUS
<1>2. (b * r) * p > (c * q) * p
  OBVIOUS
<1>3. (b * p) * r = (b * r) * p /\ (a * q) * r = (a * r) * q /\ (c * q) * p = (c * p) * q
  OBVIOUS
<1> DEFINE x == a * r
           y == c * p
<1>4. x \in Nat /\ y \in Nat /\ x * q > y * q
  <2>1. x \in Nat /\ y \in Nat
    OBVIOUS
  <2>2. (b * p) * r \in Int /\ (a * q) * r \in Int /\ (c * q) * p \in Int
    OBVIOUS
  <2> QED BY <1>1, <1>2, <1>3, <2>1, <2>2
<1> HIDE DEF x, y
<1>5. x > y
  <2> SUFFICES ASSUME x <= y PROVE FALSE
    BY <1>4
  <2>1. x * q <= y * q
    BY <1>4
  <2>2. x * q \in Nat /\ y * q \in Nat
    BY <1>4
  <2> QED BY <1>4, <2>1, <2>2
<1> QED BY <1>5 DEF x, y

LEMMA RateOrder ==
  ASSUME NEW t \in Tx, NEW u \in Tx, NEW v \in Tx, Fee(t) \in Nat, Fee(u) \in Nat, Fee(v) \in Nat,
         FeeRateGreater(u, v)
  PROVE  /\ ~FeeRateGreater(u, t) => FeeRateGreater(t, v)
         /\ FeeRateGreater(t, u) => FeeRateGreater(t, v)
         /\ ~FeeRateGreater(v, u)
<1> DEFINE a == Fee(t)
           b == Fee(u)
           c == Fee(v)
           p == Size[t]
           q == Size[u]
           r == Size[v]
<1>1. p \in Nat \ {0} /\ q \in Nat \ {0} /\ r \in Nat \ {0}
  BY MempoolAssumption
<1>2. /\ FeeRateGreater(u, v) <=> b * r > c * q
      /\ FeeRateGreater(u, t) <=> b * p > a * q
      /\ FeeRateGreater(t, v) <=> a * r > c * p
      /\ FeeRateGreater(t, u) <=> a * q > b * p
      /\ FeeRateGreater(v, u) <=> c * q > b * r
  BY DEF FeeRateGreater
<1>3. a \in Nat /\ b \in Nat /\ c \in Nat
  OBVIOUS
<1> HIDE DEF a, b, c, p, q, r
<1>4. a * q \in Nat /\ b * p \in Nat /\ b * r \in Nat /\ c * q \in Nat
  BY <1>1, <1>3
<1>5. b * r > c * q
  BY <1>2
<1>6. a * q >= b * p => a * r > c * p
  BY <1>1, <1>3, <1>5, RateAbove
<1> QED BY <1>2, <1>4, <1>5, <1>6

\* Somebody is the first of the cheapest.
LEMMA WorstIsPending ==
  ASSUME NEW txs \in Seq(Tx), txs # <<>>, \A t \in ToSet(txs) : Fee(t) \in Nat
  PROVE  Worst(txs) \in ToSet(txs)
<1> DEFINE n == Len(txs)
           First(i, k) == /\ \A j \in 1 .. k : ~FeeRateGreater(txs[i], txs[j])
                          /\ \A j \in 1 .. i - 1 : FeeRateGreater(txs[j], txs[i])
           S == {k \in 0 .. n : k = 0 \/ \E i \in 1 .. k : First(i, k)}
<1>1. /\ n \in Nat \ {0} /\ DOMAIN txs = 1 .. n
      /\ \A i \in 1 .. n : txs[i] \in Tx /\ Fee(txs[i]) \in Nat
  BY DEF ToSet
<1> HIDE DEF n
<1>2. 0 \in S
  BY <1>1
<1>3. ASSUME NEW k \in 1 .. n, k - 1 \in S PROVE k \in S
  <2> DEFINE m == k - 1
  <2>1. k \in 0 .. n /\ m \in Nat /\ 1 .. k = (1 .. m) \cup {k} /\ 1 .. m \subseteq 1 .. n
    BY <1>1
  <2>2. m = 0 \/ \E i \in 1 .. m : First(i, m)
    BY <1>3
  <2>3. ~FeeRateGreater(txs[k], txs[k])
    <3>1. FeeRateGreater(txs[k], txs[k]) => FALSE
      BY <1>1, RateOrder
    <3> QED BY <3>1
  <2>4. CASE m = 0
    <3>1. 1 .. k = {k} /\ 1 .. k - 1 = {}
      BY <1>1, <2>4
    <3>2. First(k, k) /\ k \in 1 .. k
      BY <2>3, <3>1
    <3> QED BY <2>1, <3>2
  <2>5. CASE m # 0
    <3>1. PICK i \in 1 .. m : First(i, m)
      BY <2>2, <2>5
    <3>2. i \in 1 .. n /\ i \in 1 .. k
      BY <2>1
    <3>3. CASE FeeRateGreater(txs[i], txs[k])
      <4>1. \A j \in 1 .. m : FeeRateGreater(txs[j], txs[k]) /\ ~FeeRateGreater(txs[k], txs[j])
        <5> SUFFICES ASSUME NEW j \in 1 .. m
                     PROVE  FeeRateGreater(txs[j], txs[k]) /\ ~FeeRateGreater(txs[k], txs[j])
          OBVIOUS
        <5>1. ~FeeRateGreater(txs[i], txs[j])
          BY <3>1
        <5>2. j \in 1 .. n
          BY <2>1
        <5>3. FeeRateGreater(txs[j], txs[k])
          BY <1>1, <3>2, <3>3, <5>1, <5>2, RateOrder
        <5>4. ~FeeRateGreater(txs[k], txs[j])
          BY <1>1, <5>2, <5>3, RateOrder
        <5> QED BY <5>3, <5>4
      <4>2. First(k, k) /\ k \in 1 .. k
        BY <2>1, <2>3, <4>1
      <4> QED BY <2>1, <4>2
    <3>4. CASE ~FeeRateGreater(txs[i], txs[k])
      <4>1. First(i, k)
        BY <2>1, <3>1, <3>4
      <4> QED BY <2>1, <3>2, <4>1
    <3> QED BY <3>3, <3>4
  <2> QED BY <2>4, <2>5
<1>4. n \in S
  <2>1. 0 .. n \subseteq S
    <3> HIDE DEF S
    <3> QED BY <1>1, <1>2, <1>3, Along
  <2>2. n \in 0 .. n
    BY <1>1
  <2> HIDE DEF S
  <2> QED BY <2>1, <2>2
<1>5. PICK i \in 1 .. n : First(i, n)
  BY <1>1, <1>4
<1> DEFINE Is(k) == /\ \A j \in DOMAIN txs : ~FeeRateGreater(txs[k], txs[j])
                    /\ \A j \in 1 .. k - 1 : FeeRateGreater(txs[j], txs[k])
           w == CHOOSE k \in DOMAIN txs : Is(k)
<1>6. \E k \in DOMAIN txs : Is(k)
  BY <1>1, <1>5
<1>7. w \in DOMAIN txs
  <2> HIDE DEF Is
  <2> QED BY <1>6
<1>8. Worst(txs) = txs[w]
  BY DEF Worst
<1> HIDE DEF w
<1> QED BY <1>7, <1>8 DEF ToSet

-----------------------------------------------------------------------------
(* The pool's book                                                           *)

\* No transaction twice, no output spent twice, and exactly their inputs reserved.
Book(p) ==
  /\ p \in AnyPool /\ Distinct(p.txs)
  /\ \A t \in ToSet(p.txs) : Fee(t) \in Nat
  /\ \A t, u \in ToSet(p.txs) : t # u => Inputs[t] \cap Inputs[u] = {}
  /\ p.spends = UNION {Inputs[t] : t \in ToSet(p.txs)}

LEMMA PoolTx == \A p \in AnyPool : p.txs \in Seq(Tx) /\ ToSet(p.txs) \subseteq Tx
<1> SUFFICES ASSUME NEW p \in AnyPool PROVE p.txs \in Seq(Tx) /\ ToSet(p.txs) \subseteq Tx
  OBVIOUS
<1> DEFINE s == p.txs
<1>1. s \in Seq(Tx)
  BY DEF AnyPool
<1> HIDE DEF s
<1>2. ToSet(s) \subseteq Tx
  BY <1>1 DEF ToSet
<1> QED BY <1>1, <1>2 DEF s

LEMMA ReleaseBook ==
  ASSUME NEW p, Book(p), NEW gone \in SUBSET ToSet(p.txs)
  PROVE  Book(Release(p, gone)) /\ ToSet(Release(p, gone).txs) = ToSet(p.txs) \ gone
<1> DEFINE r == Release(p, gone)
           P == ToSet(p.txs)
<1>1. p.txs \in Seq(Tx) /\ P \subseteq Tx /\ p \in AnyPool
  BY PoolTx DEF Book
<1>2. r \in AnyPool
  BY <1>1, ReleaseType
<1>3. r.txs = Keep(p.txs, Tx \ gone) /\ r.spends = p.spends \ UNION {Inputs[t] : t \in gone}
  BY DEF Release
<1>4. ToSet(r.txs) = P \cap (Tx \ gone) /\ Distinct(r.txs)
  <2>1. /\ ToSet(Keep(p.txs, Tx \ gone)) = ToSet(p.txs) \cap (Tx \ gone)
        /\ Distinct(p.txs) => Distinct(Keep(p.txs, Tx \ gone))
    BY <1>1, KeepSet
  <2> QED BY <1>3, <2>1 DEF Book
<1> HIDE DEF r
<1>5. ToSet(r.txs) = P \ gone
  BY <1>1, <1>4
<1>6. r.spends = UNION {Inputs[t] : t \in P \ gone}
  <2>1. \A t \in gone : \A u \in P \ gone : Inputs[t] \cap Inputs[u] = {}
    BY DEF Book
  <2>2. p.spends = UNION {Inputs[t] : t \in P}
    BY DEF Book
  <2> HIDE DEF P
  <2> QED BY <1>3, <2>1, <2>2
<1>7. Book(r)
  <2>1. /\ \A t \in P : Fee(t) \in Nat
        /\ \A t, u \in P : t # u => Inputs[t] \cap Inputs[u] = {}
    BY DEF Book
  <2> HIDE DEF P
  <2> QED BY <1>2, <1>4, <1>5, <1>6, <2>1 DEF Book
<1> QED BY <1>5, <1>7 DEF r

\* A newcomer displaces at most one transaction, and pays a higher rate.
LEMMA AdmitBook ==
  ASSUME NEW p, Book(p), NEW t \in Tx, Fee(t) \in Nat, NEW utxos, NEW height,
         Admissible(p, t, utxos, height)
  PROVE  /\ Book(Admit(p, t))
         /\ \E out \in SUBSET ToSet(p.txs) :
              /\ ToSet(Admit(p, t).txs) = (ToSet(p.txs) \ out) \cup {t}
              /\ \A x \in out : FeeRateGreater(t, x)
<1> DEFINE P == ToSet(p.txs)
           out == IF Full(p) THEN {Worst(p.txs)} ELSE {}
           room == IF Full(p) THEN Release(p, {Worst(p.txs)}) ELSE p
           a == Admit(p, t)
<1>1. p.txs \in Seq(Tx) /\ P \subseteq Tx
  BY PoolTx DEF Book
<1>2. out \subseteq P /\ \A x \in out : FeeRateGreater(t, x)
  <2>1. CASE Full(p)
    <3>1. p.txs # <<>>
      <4>1. Len(p.txs) >= MaxMempoolTxs /\ MaxMempoolTxs \in Nat \ {0}
        BY <2>1, MempoolAssumption DEF Full
      <4> QED BY <4>1
    <3>2. \A u \in ToSet(p.txs) : Fee(u) \in Nat
      BY DEF Book
    <3>3. Worst(p.txs) \in P
      BY <1>1, <3>1, <3>2, WorstIsPending
    <3>4. FeeRateGreater(t, Worst(p.txs))
      BY <2>1 DEF Admissible
    <3> QED BY <2>1, <3>3, <3>4
  <2>2. CASE ~Full(p)
    BY <2>2
  <2> QED BY <2>1, <2>2
<1>3. Book(room) /\ ToSet(room.txs) = P \ out
  <2>1. CASE Full(p)
    BY <1>2, <2>1, ReleaseBook
  <2>2. CASE ~Full(p)
    BY <2>2
  <2> QED BY <2>1, <2>2
<1>4. a = [txs |-> Append(room.txs, t), spends |-> room.spends \cup Inputs[t]]
  BY DEF Admit
<1>5. t \notin P /\ Inputs[t] \cap p.spends = {}
  BY DEF Admissible
<1>6. p.spends = UNION {Inputs[u] : u \in P} /\ p \in AnyPool
  BY DEF Book
<1>7. a \in AnyPool
  BY <1>6, AdmitType
<1> DEFINE s == room.txs
<1>8. s \in Seq(Tx) /\ Distinct(s) /\ ToSet(s) = P \ out
  BY <1>3, PoolTx DEF Book
<1>9. a.txs = Append(s, t) /\ a.spends = room.spends \cup Inputs[t]
  BY <1>4
<1>10. /\ room.spends = UNION {Inputs[u] : u \in ToSet(s)}
       /\ \A u \in ToSet(s) : Fee(u) \in Nat
       /\ \A u, v \in ToSet(s) : u # v => Inputs[u] \cap Inputs[v] = {}
  BY <1>3 DEF Book
<1> HIDE DEF s, a, room, out, P
<1>11. ToSet(a.txs) = ToSet(s) \cup {t} /\ Distinct(a.txs)
  BY <1>5, <1>8, <1>9, AppendSet
<1>12. \A u \in ToSet(s) : u # t /\ Inputs[u] \cap Inputs[t] = {}
  BY <1>5, <1>6, <1>8
<1>13. a.spends = UNION {Inputs[u] : u \in ToSet(a.txs)}
  BY <1>9, <1>10, <1>11
<1>14. \A u, v \in ToSet(a.txs) : u # v => Inputs[u] \cap Inputs[v] = {}
  BY <1>10, <1>11, <1>12
<1>15. \A u \in ToSet(a.txs) : Fee(u) \in Nat
  BY <1>10, <1>11
<1>16. Book(a)
  BY <1>7, <1>11, <1>13, <1>14, <1>15 DEF Book
<1>17. ToSet(a.txs) = (P \ out) \cup {t}
  BY <1>8, <1>11
<1> QED BY <1>2, <1>16, <1>17 DEF a, P

LEMMA PruneBook ==
  ASSUME NEW p, Book(p), NEW blocks, NEW utxos, NEW height
  PROVE  /\ Book(Prune(p, blocks, utxos, height))
         /\ ToSet(Prune(p, blocks, utxos, height).txs) =
              {t \in ToSet(p.txs) : ValidSpend(t, utxos, height + 1)}
<1> DEFINE gone == {t \in ToSet(p.txs) : ~ValidSpend(t, utxos, height + 1)}
<1>1. gone \in SUBSET ToSet(p.txs)
  OBVIOUS
<1>2. Prune(p, blocks, utxos, height) = Release(p, gone)
  BY DEF Prune
<1> HIDE DEF gone
<1>3. Book(Release(p, gone)) /\ ToSet(Release(p, gone).txs) = ToSet(p.txs) \ gone
  BY <1>1, ReleaseBook
<1> QED BY <1>2, <1>3 DEF gone

\* Whatever is displaced while transactions are resubmitted, a newcomer that pays
\* a higher rate is there in the end.
LEMMA ResubmitBook ==
  ASSUME NEW p, Book(p), NEW txs \in Seq(Tx), NEW utxos, NEW height,
         \A t \in Tx : ValidSpend(t, utxos, height + 1) => Fee(t) \in Nat
  PROVE  LET r == Resubmit(p, txs, utxos, height) IN
         /\ Book(r)
         /\ \A t \in ToSet(r.txs) \ ToSet(p.txs) : ValidSpend(t, utxos, height + 1)
         /\ \A t \in ToSet(p.txs) \ ToSet(r.txs) :
              \E u \in ToSet(r.txs) \ ToSet(p.txs) : FeeRateGreater(u, t)
<1> DEFINE n == Len(txs)
           old == ToSet(p.txs)
           Good(v) == /\ Book(v)
                      /\ \A t \in ToSet(v.txs) \ old : ValidSpend(t, utxos, height + 1)
                      /\ \A t \in old \ ToSet(v.txs) :
                           \E u \in ToSet(v.txs) \ old : FeeRateGreater(u, t)
<1>1. PICK q : /\ q[0] = p /\ Resubmit(p, txs, utxos, height) = q[n]
               /\ \A i \in 1 .. n : q[i] = IF Admissible(q[i - 1], txs[i], utxos, height)
                                              THEN Admit(q[i - 1], txs[i]) ELSE q[i - 1]
  BY ResubmitStep DEF Book
<1>2. n \in Nat /\ \A i \in 1 .. n : txs[i] \in Tx
  OBVIOUS
<1>3. Good(p)
  OBVIOUS
<1>4. old \subseteq Tx /\ \A t \in old : Fee(t) \in Nat
  BY PoolTx DEF Book
<1>5. ASSUME NEW v, Good(v), NEW t \in Tx, Admissible(v, t, utxos, height) PROVE Good(Admit(v, t))
  <2> DEFINE a == Admit(v, t)
             V == ToSet(v.txs)
             A == ToSet(a.txs)
  <2>1. ValidSpend(t, utxos, height + 1) /\ t \notin V
    BY <1>5 DEF Admissible
  <2>2. Fee(t) \in Nat
    BY <2>1
  <2>3. Book(a) /\ \E out \in SUBSET V : A = (V \ out) \cup {t} /\ \A x \in out : FeeRateGreater(t, x)
    BY <1>5, <2>2, AdmitBook
  <2>4. PICK out \in SUBSET V : A = (V \ out) \cup {t} /\ \A x \in out : FeeRateGreater(t, x)
    BY <2>3
  <2>5. V \subseteq Tx /\ \A x \in V : Fee(x) \in Nat
    BY <1>5, PoolTx DEF Book
  <2>6. /\ \A x \in V \ old : ValidSpend(x, utxos, height + 1)
        /\ \A x \in old \ V : \E u \in V \ old : FeeRateGreater(u, x)
    BY <1>5
  <2> HIDE DEF a, V, A, old
  <2>7. \A x \in A \ old : ValidSpend(x, utxos, height + 1)
    BY <2>1, <2>4, <2>6
  \* Above anything displaced there is a newcomer that stays: the transaction
  \* admitted, or, if it was pending before, the one that had displaced it.
  <2>8. ASSUME NEW x \in V \cup old, x \in Tx, Fee(x) \in Nat, FeeRateGreater(t, x)
        PROVE  \E u \in A \ old : FeeRateGreater(u, x)
    <3>1. CASE t \notin old
      BY <2>4, <2>8, <3>1
    <3>2. CASE t \in old
      <4>1. PICK u \in V \ old : FeeRateGreater(u, t)
        BY <2>1, <2>6, <3>2
      <4>2. u \in Tx /\ Fee(u) \in Nat
        BY <2>5
      <4>3. u \notin out
        <5>1. ~FeeRateGreater(t, u)
          BY <2>2, <4>1, <4>2, RateOrder
        <5> QED BY <2>4, <5>1
      <4>4. FeeRateGreater(u, x)
        BY <2>2, <2>8, <4>1, <4>2, RateOrder
      <4> QED BY <2>4, <4>1, <4>3, <4>4
    <3> QED BY <3>1, <3>2
  <2>9. ASSUME NEW x \in old \ A PROVE \E u \in A \ old : FeeRateGreater(u, x)
    <3>1. x \in Tx /\ Fee(x) \in Nat
      BY <1>4
    <3>2. CASE x \in V
      <4>1. FeeRateGreater(t, x)
        BY <2>4, <3>2
      <4> QED BY <2>8, <3>1, <4>1
    <3>3. CASE x \notin V
      <4>1. PICK u \in V \ old : FeeRateGreater(u, x)
        BY <2>6, <3>3
      <4>2. CASE u \notin out
        BY <2>4, <4>1, <4>2
      <4>3. CASE u \in out
        <5>1. FeeRateGreater(t, u) /\ u \in Tx /\ Fee(u) \in Nat
          BY <2>4, <2>5, <4>3
        <5>2. FeeRateGreater(t, x)
          BY <2>2, <3>1, <4>1, <5>1, RateOrder
        <5> QED BY <2>8, <3>1, <5>2
      <4> QED BY <4>2, <4>3
    <3> QED BY <3>2, <3>3
  <2> QED BY <2>3, <2>7, <2>9 DEF A, a
<1> DEFINE S == {i \in 0 .. n : Good(q[i])}
<1> HIDE DEF n, Good, old
<1>6. 0 \in S
  BY <1>1, <1>2, <1>3
<1>7. \A i \in 1 .. n : i - 1 \in S => i \in S
  BY <1>1, <1>2, <1>5
<1>8. 0 .. n \subseteq S
  <2> HIDE DEF S
  <2> QED BY <1>2, <1>6, <1>7, Along
<1>9. Good(q[n])
  BY <1>2, <1>8
<1> QED BY <1>1, <1>9 DEF Good, old

-----------------------------------------------------------------------------
(* The pool and the block built from it                                      *)

\* On the unspent outputs of a valid branch, whatever can be spent pays a fee.
LEMMA FeesPaid ==
  ASSUME NEW b, ValidBranch(b), NEW t \in Tx, NEW height, ValidSpend(t, Replay(b).utxos, height)
  PROVE  Fee(t) \in Nat
<1> DEFINE l == Replay(b)
           top == Fork + Len(b)
<1>1. StateGood(l, top) /\ top \in Nat
  BY BranchConserves, LedgerAssumption DEF ValidBranch
<1>2. ValidSpend(t, l.utxos, height)
  OBVIOUS
<1> HIDE DEF l, top
<1>3. PICK applied \in SUBSET Tx : UtxoGood(l.utxos, applied, top)
  BY <1>1 DEF StateGood
<1> QED BY <1>1, <1>2, <1>3, SpendOnce

\* Transactions that can each be spent, and share no input, can follow each
\* other in any order.
LEMMA TogetherValid ==
  ASSUME NEW utxos, NEW height, NEW txs \in Seq(Tx), Distinct(txs),
         \A t \in Tx : Outputs[t] # <<>>,
         \A t \in ToSet(txs) : ValidSpend(t, utxos, height),
         \A t, u \in ToSet(txs) : t # u => Inputs[t] \cap Inputs[u] = {}
  PROVE  ValidTransactions(utxos, txs, height)
<1> DEFINE n == Len(txs)
           a == After(utxos, txs, height)
           Same(u, c) == c \in DOMAIN u /\ (u[c] = utxos[c] \/ u[c].coinbase = FALSE)
           S == {i \in 0 .. n : \A j \in i + 1 .. n : \A c \in Inputs[txs[j]] : Same(a[i], c)}
<1>1. /\ n \in Nat /\ DOMAIN txs = 1 .. n
      /\ \A i \in 1 .. n : txs[i] \in Tx /\ txs[i] \in ToSet(txs) /\ ValidSpend(txs[i], utxos, height)
  BY DEF ToSet
<1>2. a[0] = utxos /\ \A i \in 1 .. n : a[i] = ApplyTransaction(a[i - 1], txs[i], height)
  <2>1. Len(txs) \in Nat
    BY <1>1
  <2> HIDE DEF n
  <2>2. \A i \in 1 .. Len(txs) : a[i] = ApplyTransaction(a[i - 1], txs[i], height)
    BY <2>1, AfterStep
  <2>3. a[0] = utxos
    BY <2>1, AfterStep
  <2> QED BY <2>2, <2>3 DEF n
<1>3. \A i, j \in 1 .. n : i # j => Inputs[txs[i]] \cap Inputs[txs[j]] = {}
  BY <1>1 DEF Distinct
<1> HIDE DEF n, a
<1>4. 0 \in S
  <2>1. \A j \in 1 .. n : \A c \in Inputs[txs[j]] : Same(utxos, c)
    BY <1>1 DEF ValidSpend
  <2> QED BY <1>1, <1>2, <2>1
<1>5. ASSUME NEW i \in 1 .. n, i - 1 \in S,
             NEW j \in i + 1 .. n, NEW c \in Inputs[txs[j]]
      PROVE  Same(a[i], c)
  <2> DEFINE u == a[i - 1]
             t == txs[i]
             new == ApplyTransaction(u, t, height)
  <2>1. j \in (i - 1) + 1 .. n /\ j \in 1 .. n /\ i # j
    BY <1>1
  <2>2. Same(u, c)
    BY <1>5, <2>1
  <2>3. c \notin Inputs[t]
    BY <1>3, <2>1
  <2>4. a[i] = new
    BY <1>2
  <2>5. /\ DOMAIN new = (DOMAIN u \ Inputs[t]) \cup Created(t)
        /\ c \in Created(t) => new[c].coinbase = FALSE
        /\ c \in (DOMAIN u \ Inputs[t]) \ Created(t) => new[c] = u[c]
    BY DEF ApplyTransaction, Created
  <2> HIDE DEF new, u, t
  <2>6. Same(new, c)
    BY <2>2, <2>3, <2>5
  <2> HIDE DEF Same
  <2> QED BY <2>4, <2>6
<1>6. 0 .. n \subseteq S
  <2>1. ASSUME NEW i \in 1 .. n, i - 1 \in S PROVE i \in S
    <3> HIDE DEF Same
    <3>1. \A j \in i + 1 .. n : \A c \in Inputs[txs[j]] : Same(a[i], c)
      BY <1>5, <2>1
    <3>2. i \in 0 .. n
      BY <1>1
    <3> QED BY <3>1, <3>2
  <2> HIDE DEF S
  <2> QED BY <1>1, <1>4, <2>1, Along
<1>7. ASSUME NEW i \in 1 .. n PROVE ValidSpend(txs[i], a[i - 1], height)
  <2>1. i - 1 \in S /\ i \in (i - 1) + 1 .. n
    BY <1>1, <1>6
  <2>2. \A c \in Inputs[txs[i]] : Same(a[i - 1], c)
    BY <2>1
  <2>3. /\ \A c \in Inputs[txs[i]] : utxos[c].coinbase => height - utxos[c].height >= Maturity
        /\ Paid(txs[i]) <= Spent(txs[i])
    BY <1>1 DEF ValidSpend
  <2> QED BY <2>2, <2>3 DEF ValidSpend
<1> QED BY <1>1, <1>7 DEF ValidTransactions, a

PoolIInv ==
  /\ LedgerIInv
  /\ Book(pool)
  /\ \A t \in ToSet(pool.txs) : ValidSpend(t, ledger.utxos, Height + 1)

\* What a step does to the pool, whichever it is.
Replaced(old, new) ==
  \A t \in ToSet(old.txs) \ ToSet(new.txs) :
    \/ ~ ValidSpend(t, ledger'.utxos, Height' + 1)
    \/ \E u \in ToSet(new.txs) \ ToSet(old.txs) : FeeRateGreater(u, t)

LEMMA SubmitPool ==
  ASSUME PoolIInv, NEW t \in Tx, SubmitTransaction(t)
  PROVE  /\ Book(pool') /\ Replaced(pool, pool')
         /\ \A u \in ToSet(pool'.txs) : ValidSpend(u, ledger'.utxos, Height' + 1)
<1>1. /\ Admissible(pool, t, ledger.utxos, Height) /\ pool' = Admit(pool, t)
      /\ chain' = chain /\ ledger' = ledger /\ Height' = Height
  BY DEF SubmitTransaction, Height
<1>2. ValidSpend(t, ledger.utxos, Height + 1) /\ t \notin ToSet(pool.txs)
  BY <1>1 DEF Admissible
<1>3. Fee(t) \in Nat
  BY <1>2, FeesPaid DEF PoolIInv, LedgerIInv
<1> DEFINE p == pool
           l == ledger
<1>4. Book(p) /\ Admissible(p, t, l.utxos, Height)
  BY <1>1 DEF PoolIInv
<1> HIDE DEF p, l
<1>5. /\ Book(Admit(p, t))
      /\ \E out \in SUBSET ToSet(p.txs) : /\ ToSet(Admit(p, t).txs) = (ToSet(p.txs) \ out) \cup {t}
                                          /\ \A x \in out : FeeRateGreater(t, x)
  BY <1>3, <1>4, AdmitBook
<1>6. PICK out \in SUBSET ToSet(p.txs) : /\ ToSet(Admit(p, t).txs) = (ToSet(p.txs) \ out) \cup {t}
                                         /\ \A x \in out : FeeRateGreater(t, x)
  BY <1>5
<1>7. pool = p /\ pool' = Admit(p, t)
  BY <1>1 DEF p
<1>8. Replaced(pool, pool')
  BY <1>2, <1>6, <1>7 DEF Replaced
<1>9. \A u \in ToSet(pool'.txs) : ValidSpend(u, ledger'.utxos, Height' + 1)
  <2>1. \A u \in ToSet(p.txs) : ValidSpend(u, ledger.utxos, Height + 1)
    BY <1>7 DEF PoolIInv
  <2> QED BY <1>1, <1>2, <1>6, <1>7, <2>1
<1> QED BY <1>5, <1>7, <1>8, <1>9

LEMMA ExtendPool ==
  ASSUME PoolIInv, NEW block, Extend(block)
  PROVE  /\ Book(pool') /\ Replaced(pool, pool')
         /\ \A u \in ToSet(pool'.txs) : ValidSpend(u, ledger'.utxos, Height' + 1)
<1>1. /\ pool' = Prune(pool, chain', ledger'.utxos, Height + 1) /\ chain' = Append(chain, block)
  BY DEF Extend
<1>2. Height' = Height + 1
  <2>1. Len(Append(chain, block)) = Len(chain) + 1 /\ Len(chain) \in Nat
    BY DEF PoolIInv, LedgerIInv, ValidBranch
  <2> QED BY <1>1, <2>1, LedgerAssumption DEF Height
<1>3. /\ Book(pool')
      /\ ToSet(pool'.txs) = {t \in ToSet(pool.txs) : ValidSpend(t, ledger'.utxos, (Height + 1) + 1)}
  BY <1>1, PruneBook DEF PoolIInv
<1> QED BY <1>2, <1>3 DEF Replaced

LEMMA ReorgPool ==
  ASSUME PoolIInv, NEW kept \in 0 .. Len(chain) - 1, NEW n \in Nat, NEW blocks \in [1 .. n -> Block],
         Reorg(kept, blocks)
  PROVE  /\ Book(pool') /\ Replaced(pool, pool')
         /\ \A u \in ToSet(pool'.txs) : ValidSpend(u, ledger'.utxos, Height' + 1)
<1> DEFINE branch == SubSeq(chain, 1, kept) \o blocks
           new == Replay(branch)
           h == Fork + Len(branch)
           txs == Disconnected(kept)
           r == Resubmit(pool, txs, new.utxos, h)
<1>1. /\ chain' = branch /\ ledger' = new /\ Height' = h
      /\ pool' = Prune(r, branch, new.utxos, h)
  BY DEF Reorg, Height
<1>2. LedgerIInv' /\ LedgerIInv
  BY ReorgKeeps DEF PoolIInv
<1>3. ValidBranch(branch)
  BY <1>1, <1>2 DEF LedgerIInv
<1>4. txs \in Seq(Tx)
  <2>1. chain \in Seq(AnyBlock)
    BY <1>2 DEF LedgerIInv, ValidBranch
  <2> QED BY <2>1, DisconnectedType
<1>5. \A t \in Tx : ValidSpend(t, new.utxos, h + 1) => Fee(t) \in Nat
  BY <1>3, FeesPaid
<1>6. Book(pool)
  BY DEF PoolIInv
<1> HIDE DEF branch, new, h, txs
<1> DEFINE old == ToSet(pool.txs)
           mid == ToSet(r.txs)
<1>7. /\ Book(r) /\ \A t \in mid \ old : ValidSpend(t, new.utxos, h + 1)
      /\ \A t \in old \ mid : \E u \in mid \ old : FeeRateGreater(u, t)
  BY <1>4, <1>5, <1>6, ResubmitBook
<1> HIDE DEF r
<1>8. Book(pool') /\ ToSet(pool'.txs) = {t \in mid : ValidSpend(t, new.utxos, h + 1)}
  BY <1>1, <1>7, PruneBook
<1> HIDE DEF mid, old
<1>9. Replaced(pool, pool')
  <2> SUFFICES ASSUME NEW t \in old, t \notin ToSet(pool'.txs), ValidSpend(t, new.utxos, h + 1)
               PROVE  \E u \in ToSet(pool'.txs) \ old : FeeRateGreater(u, t)
    BY <1>1 DEF Replaced, old
  <2>1. t \notin mid
    BY <1>8
  <2> QED BY <1>7, <1>8, <2>1
<1> QED BY <1>1, <1>8, <1>9

LEMMA PoolStep ==
  ASSUME PoolIInv, Next
  PROVE  /\ Book(pool') /\ Replaced(pool, pool')
         /\ \A u \in ToSet(pool'.txs) : ValidSpend(u, ledger'.utxos, Height' + 1)
<1>1. ASSUME NEW work \in Works, Produce(work) PROVE Extend(Candidate(work))
  BY <1>1 DEF Produce
<1>2. ASSUME NEW kept \in 0 .. Len(chain) - 1,
             NEW n \in {Len(chain) - kept, Len(chain) - kept + 1}, NEW blocks \in [1 .. n -> Block],
             Reorg(kept, blocks)
      PROVE  /\ Book(pool') /\ Replaced(pool, pool')
             /\ \A u \in ToSet(pool'.txs) : ValidSpend(u, ledger'.utxos, Height' + 1)
  <2>1. Len(chain) \in Nat
    BY DEF PoolIInv, LedgerIInv, ValidBranch
  <2>2. n \in Nat
    BY <2>1
  <2> QED BY <1>2, <2>2, ReorgPool
<1> QED BY <1>1, <1>2, SubmitPool, ExtendPool DEF Next

LEMMA PoolInit == Init => PoolIInv
<1> SUFFICES ASSUME Init PROVE PoolIInv
  OBVIOUS
<1>1. LedgerIInv
  BY LedgerInit
<1>2. pool = EmptyPool
  BY DEF Init
<1>3. pool.txs = <<>> /\ pool.spends = {} /\ ToSet(<<>>) = {} /\ Distinct(<<>>)
  BY <1>2 DEF EmptyPool, ToSet, Distinct
<1>4. pool \in AnyPool
  BY <1>1 DEF LedgerIInv
<1> QED BY <1>1, <1>3, <1>4 DEF PoolIInv, Book

LEMMA PoolNext == PoolIInv /\ [Next]_vars => PoolIInv'
<1> SUFFICES ASSUME PoolIInv, [Next]_vars PROVE PoolIInv'
  OBVIOUS
<1>1. LedgerIInv'
  BY LedgerNext DEF PoolIInv
<1>2. CASE Next
  BY <1>1, <1>2, PoolStep DEF PoolIInv
<1>3. CASE UNCHANGED vars
  BY <1>1, <1>3 DEF PoolIInv, vars, Height
<1> QED BY <1>2, <1>3

\* If no transaction is without outputs and every contribution counts, then after
\* every handler the pool holds only what the next block can spend, no two for
\* the same output, reserves exactly their inputs, and makes a block that the
\* node itself accepts (submitTransaction, pruneMempool, buildBlockCandidate).
THEOREM PoolMakesABlock ==
  ASSUME \A t \in Tx : Outputs[t] # <<>>, \A w \in Works : \E m \in DOMAIN w : w[m] > 0
  PROVE  Spec => []PoolInv
<1>1. PoolIInv => PoolInv
  <2> SUFFICES ASSUME PoolIInv PROVE PoolInv
    OBVIOUS
  <2>1. PoolSpendable
    BY DEF PoolIInv, Book, PoolSpendable
  <2>2. ASSUME NEW work \in Works PROVE ValidBlock(ledger, Candidate(work), Height + 1)
    <3> DEFINE txs == pool.txs
    <3>1. /\ txs \in Seq(Tx) /\ Distinct(txs)
          /\ \A t \in ToSet(txs) : ValidSpend(t, ledger.utxos, Height + 1)
          /\ \A t, u \in ToSet(txs) : t # u => Inputs[t] \cap Inputs[u] = {}
      BY PoolTx DEF PoolIInv, Book
    <3>2. Candidate(work).txs = txs /\ Candidate(work).work = work
      BY DEF Candidate
    <3> HIDE DEF txs
    <3>3. ValidTransactions(ledger.utxos, txs, Height + 1)
      BY <3>1, TogetherValid
    <3> QED BY <3>2, <3>3 DEF ValidBlock
  <2> QED BY <2>1, <2>2 DEF PoolInv, CandidateValid
<1> QED BY <1>1, PoolInit, PoolNext, PTL DEF Spec

\* A transaction that could still be spent leaves the pool only for one that pays
\* a strictly higher rate, also when a reorg resubmits many (submitTransaction,
\* reorgToBlock).
THEOREM OnlyTheCheaperLeave == Spec => EvictedForBetter
<1>1. PoolIInv /\ [Next]_vars =>
        [\A t \in ToSet(pool.txs) \ ToSet(pool.txs)' :
           ValidSpend(t, ledger.utxos, Height + 1)'
             => \E u \in ToSet(pool.txs)' \ ToSet(pool.txs) : FeeRateGreater(u, t)]_vars
  BY PoolStep DEF Replaced
<1> QED BY <1>1, PoolInit, PoolNext, PTL DEF Spec, EvictedForBetter

-----------------------------------------------------------------------------
(* The wallet's keystore                                                     *)

Account == [label : Label \cup Identifier, key : Nat]

\* A wallet that a command may save.
Good(w) ==
  /\ w \in [recovery : BOOLEAN, accounts : Seq(Account)]
  /\ Len(w.accounts) <= MaxAccounts
  /\ \A i, j \in DOMAIN w.accounts : w.accounts[i].label = w.accounts[j].label => i = j
  /\ w.recovery => /\ w.accounts # <<>>
                   /\ \A i \in DOMAIN w.accounts : /\ w.accounts[i].key = i - 1
                                                   /\ w.accounts[i].label \in Identifier

LEMMA GoodIs ==
  ASSUME NEW w, Good(w)
  PROVE  /\ w.recovery \in BOOLEAN /\ w.accounts \in Seq(Account) /\ Len(w.accounts) \in Nat
         /\ DOMAIN w.accounts = 1 .. Len(w.accounts)
         /\ \A i \in DOMAIN w.accounts : /\ w.accounts[i].label \in Label \cup Identifier
                                         /\ w.accounts[i].key \in Nat
<1>1. w.recovery \in BOOLEAN /\ w.accounts \in Seq(Account)
  BY DEF Good
<1>2. Len(w.accounts) \in Nat /\ DOMAIN w.accounts = 1 .. Len(w.accounts)
  BY <1>1, LenProperties
<1>3. \A i \in DOMAIN w.accounts : w.accounts[i] \in Account
  BY <1>1, <1>2, ElementOfSeq
<1> QED BY <1>1, <1>2, <1>3 DEF Account

LEMMA GoodLoads ==
  ASSUME NEW w, Good(w)
  PROVE  /\ w # None /\ w # Broken /\ Loads(w)
         /\ w.recovery => Keys(w) = 0 .. Len(w.accounts) - 1
<1>1. DOMAIN w = {"recovery", "accounts"} /\ "recovery" \in DOMAIN w
  BY DEF Good
<1>2. w # None /\ w # Broken
  BY <1>1 DEF None, Broken
<1>3. Loads(w)
  BY <1>2 DEF Good, Loads
<1>4. ASSUME w.recovery PROVE Keys(w) = 0 .. Len(w.accounts) - 1
  <2> DEFINE n == Len(w.accounts)
  <2>1. n \in Nat /\ DOMAIN w.accounts = 1 .. n
    BY GoodIs
  <2>2. \A i \in 1 .. n : w.accounts[i].key = i - 1
    BY <1>4, <2>1 DEF Good
  <2> HIDE DEF n
  <2>3. Keys(w) = {i - 1 : i \in 1 .. n}
    BY <2>1, <2>2 DEF Keys
  <2>4. ASSUME NEW k \in 0 .. n - 1 PROVE \E i \in 1 .. n : k = i - 1
    <3>1. k + 1 \in 1 .. n /\ k = (k + 1) - 1
      BY <2>1
    <3> QED BY <3>1
  <2>5. \A i \in 1 .. n : i - 1 \in 0 .. n - 1
    BY <2>1
  <2> QED BY <2>3, <2>4, <2>5 DEF n
<1> QED BY <1>2, <1>3, <1>4

\* A rearrangement of places that keeps them in order leaves them.
LEMMA InPlace ==
  ASSUME NEW n \in Nat, NEW s \in [1 .. n -> 1 .. n],
         \A i, j \in 1 .. n : i < j => s[i] < s[j]
  PROVE  \A i \in 1 .. n : s[i] = i
<1> DEFINE Up == {k \in 0 .. n : k > 0 => s[k] >= k}
           Down == {k \in 0 .. n : k < n => s[n - k] <= n - k}
<1>1. 0 .. n \subseteq Up
  <2>1. 0 \in Up
    OBVIOUS
  <2>2. ASSUME NEW k \in 1 .. n, k - 1 \in Up PROVE k \in Up
    <3>1. k \in 0 .. n /\ s[k] \in 1 .. n
      OBVIOUS
    <3>2. CASE k = 1
      BY <3>1, <3>2
    <3>3. CASE k # 1
      <4>1. k - 1 \in 1 .. n /\ k - 1 < k /\ k - 1 > 0
        BY <3>3
      <4>2. s[k - 1] < s[k] /\ s[k - 1] \in 1 .. n
        BY <4>1
      <4>3. s[k - 1] >= k - 1
        BY <2>2, <4>1
      <4> QED BY <3>1, <4>2, <4>3
    <3> QED BY <3>2, <3>3
  <2> HIDE DEF Up
  <2> QED BY <2>1, <2>2, Along
<1>2. 0 .. n \subseteq Down
  <2>1. 0 \in Down
    OBVIOUS
  <2>2. ASSUME NEW k \in 1 .. n, k - 1 \in Down PROVE k \in Down
    <3>1. k \in 0 .. n
      OBVIOUS
    <3> SUFFICES ASSUME k < n PROVE s[n - k] <= n - k
      BY <3>1
    <3> DEFINE a == n - k
               b == n - (k - 1)
    <3>2. a \in 1 .. n /\ b \in 1 .. n /\ a < b /\ b = a + 1 /\ k - 1 < n
      OBVIOUS
    <3>3. s[b] <= b
      BY <2>2, <3>2
    <3> HIDE DEF a, b
    <3>4. s[a] < s[b] /\ s[a] \in 1 .. n /\ s[b] \in 1 .. n
      BY <3>2
    <3>5. s[a] <= a
      BY <3>2, <3>3, <3>4
    <3> QED BY <3>5 DEF a
  <2> HIDE DEF Down
  <2> QED BY <2>1, <2>2, Along
<1>3. ASSUME NEW i \in 1 .. n PROVE s[i] = i
  <2>1. i \in 0 .. n /\ n - i \in 0 .. n /\ n - (n - i) = i /\ n - i < n /\ i > 0 /\ s[i] \in 1 .. n
    OBVIOUS
  <2>2. i \in Up /\ n - i \in Down
    BY <1>1, <1>2, <2>1
  <2>3. s[i] >= i /\ s[i] <= i
    BY <2>1, <2>2
  <2> QED BY <2>1, <2>3
<1> QED BY <1>3

Before(accounts, i, j) ==
  LET a == accounts[i].label
      b == accounts[j].label
  IN  IF a \in Numeric THEN b \in Numeric => a < b ELSE b \notin Numeric /\ i < j

\* The accounts are written in some order of their places; names keep theirs.
LEMMA Reordered ==
  ASSUME WalletHypothesis, NEW w, Good(w)
  PROVE  \E s \in [DOMAIN w.accounts -> DOMAIN w.accounts] :
           /\ JsonOrder(w.accounts) = [i \in DOMAIN w.accounts |-> w.accounts[s[i]]]
           /\ \A i, j \in DOMAIN w.accounts : s[i] = s[j] => i = j
           /\ \A j \in DOMAIN w.accounts : \E i \in DOMAIN w.accounts : s[i] = j
           /\ \A i, j \in DOMAIN w.accounts : i < j => Before(w.accounts, s[i], s[j])
<1> DEFINE accounts == w.accounts
           n == Len(accounts)
           D == 1 .. n
           R == {p \in D \X D : Before(accounts, p[1], p[2])}
           Ordered(s) == \A i, j \in DOMAIN s : i < j => Before(accounts, s[i], s[j])
           order == CHOOSE s \in SetToSeqs(D) : Ordered(s)
<1>1. n \in Nat /\ DOMAIN accounts = D /\ IsFiniteSet(D) /\ Cardinality(D) = n
  BY GoodIs, FS_Interval
<1>2. \A i \in D : accounts[i].label \in Numeric => accounts[i].label \in Int
  BY DEF WalletHypothesis
<1>3. \A i, j \in D : accounts[i].label = accounts[j].label => i = j
  BY <1>1 DEF Good
<1>4. JsonOrder(accounts) = [i \in DOMAIN accounts |-> accounts[order[i]]]
  BY <1>1 DEF JsonOrder, Before
<1> HIDE DEF n, accounts, order
<1>5. TotalOrder(R, D)
  <2>1. \A x, y \in D : <<x, y>> \in R <=> Before(accounts, x, y)
    OBVIOUS
  <2>2. \A x \in D : ~ Before(accounts, x, x)
    BY <1>1, <1>2 DEF Before
  <2>3. \A x, y \in D : x # y => Before(accounts, x, y) \/ Before(accounts, y, x)
    BY <1>1, <1>2, <1>3 DEF Before
  <2>4. \A x, y, z \in D : Before(accounts, x, y) /\ Before(accounts, y, z) => Before(accounts, x, z)
    BY <1>1, <1>2 DEF Before
  <2> HIDE DEF R
  <2> QED BY <2>1, <2>2, <2>3, <2>4 DEF TotalOrder
<1>6. \E s \in SetToSeqs(D) : Ordered(s)
  <2>1. PICK s \in SetToSeqs(D) : \A i, j \in DOMAIN s : i < j => <<s[i], s[j]>> \in R
    BY <1>1, <1>5, Orderly
  <2>2. Ordered(s)
    BY <2>1
  <2> QED BY <2>1, <2>2
<1>7. order \in SetToSeqs(D) /\ Ordered(order)
  BY <1>6 DEF order
<1>8. order \in [D -> D] /\ \A i, j \in D : order[i] = order[j] => i = j
  BY <1>1, <1>7 DEF SetToSeqs
<1>9. \A j \in D : \E i \in D : order[i] = j
  <2>1. order \in Injection(D, D)
    BY <1>8 DEF Injection, IsInjective
  <2>2. order \in Surjection(D, D)
    BY <1>1, <2>1, FS_Injection
  <2> QED BY <2>2 DEF Surjection
<1>10. \A i, j \in D : i < j => Before(accounts, order[i], order[j])
  BY <1>7, <1>8
<1> HIDE DEF D
<1> QED BY <1>1, <1>4, <1>8, <1>9, <1>10 DEF accounts

LEMMA SavedGood ==
  ASSUME WalletHypothesis, NEW w, Good(w)
  PROVE  Good(ToKeystore(w)) /\ Keys(ToKeystore(w)) = Keys(w)
<1> DEFINE accounts == w.accounts
           n == Len(accounts)
           D == 1 .. n
           written == JsonOrder(accounts)
           saved == ToKeystore(w)
<1>1. n \in Nat /\ DOMAIN accounts = D /\ accounts \in Seq(Account) /\ w.recovery \in BOOLEAN
  BY GoodIs
<1>2. PICK s \in [D -> D] :
        /\ written = [i \in D |-> accounts[s[i]]]
        /\ \A i, j \in D : s[i] = s[j] => i = j
        /\ \A j \in D : \E i \in D : s[i] = j
        /\ \A i, j \in D : i < j => Before(accounts, s[i], s[j])
  <2>1. PICK s \in [DOMAIN w.accounts -> DOMAIN w.accounts] :
        /\ JsonOrder(w.accounts) = [i \in DOMAIN w.accounts |-> w.accounts[s[i]]]
        /\ \A i, j \in DOMAIN w.accounts : s[i] = s[j] => i = j
        /\ \A j \in DOMAIN w.accounts : \E i \in DOMAIN w.accounts : s[i] = j
        /\ \A i, j \in DOMAIN w.accounts : i < j => Before(w.accounts, s[i], s[j])
    BY Reordered
  <2>2. DOMAIN w.accounts = D
    BY <1>1
  <2> HIDE DEF D
  <2> QED BY <2>1, <2>2
<1>3. saved = [w EXCEPT !.accounts = written] /\ w \in [recovery : BOOLEAN, accounts : Seq(Account)]
  BY DEF ToKeystore, Good
<1> HIDE DEF n, accounts, written, saved
<1>4. \A i \in D : accounts[s[i]] \in Account
  <2>1. \A i \in D : accounts[i] \in Account
    BY <1>1, ElementOfSeq
  <2> QED BY <2>1
<1>5. written \in Seq(Account) /\ Len(written) = n /\ DOMAIN written = D
  <2>1. written \in [1 .. n -> Account]
    BY <1>2, <1>4
  <2> QED BY <1>1, <2>1, SeqDef, LenProperties
<1>6. saved \in [recovery : BOOLEAN, accounts : Seq(Account)]
      /\ saved.accounts = written /\ saved.recovery = w.recovery
  BY <1>3, <1>5
<1>7. \A i, j \in D : written[i].label = written[j].label => i = j
  <2>1. \A i, j \in D : accounts[i].label = accounts[j].label => i = j
    BY <1>1 DEF Good, accounts
  <2>2. \A i \in D : s[i] \in D /\ written[i] = accounts[s[i]]
    BY <1>2
  <2> HIDE DEF D
  <2> QED BY <1>2, <2>1, <2>2
<1>8. ASSUME w.recovery
      PROVE  written # <<>> /\ \A i \in D : written[i].key = i - 1 /\ written[i].label \in Identifier
  <2>1. accounts # <<>> /\ \A i \in D : accounts[i].key = i - 1 /\ accounts[i].label \in Identifier
    BY <1>1, <1>8 DEF Good, accounts
  <2>2. \A i \in D : accounts[i].label \notin Numeric
    BY <2>1 DEF WalletHypothesis
  <2>3. \A i, j \in D : i < j => s[i] < s[j]
    BY <1>2, <2>2 DEF Before
  <2>4. \A i \in D : s[i] = i
    BY <1>1, <2>3, InPlace
  <2>5. n # 0
    BY <1>1, <2>1, EmptySeq DEF n
  <2>6. written # <<>>
    BY <1>5, <2>5, EmptySeq
  <2> QED BY <1>2, <2>1, <2>4, <2>6
<1>9. Good(saved)
  <2>1. n <= MaxAccounts
    BY DEF Good, n, accounts
  <2> QED BY <1>5, <1>6, <1>7, <1>8, <2>1 DEF Good
<1>10. Keys(saved) = Keys(w)
  <2>1. w.accounts = accounts /\ DOMAIN accounts = D
    BY <1>1 DEF accounts
  <2>2. Keys(w) = {accounts[i].key : i \in D}
    BY <2>1, Zenon DEF Keys
  <2>3. \A i \in D : written[i] = accounts[s[i]] /\ s[i] \in D
    BY <1>2
  <2>4. Keys(saved) = {written[i].key : i \in D}
    BY <1>5, <1>6, Zenon DEF Keys
  <2> HIDE DEF D
  <2>5. \A j \in D : \E i \in D : s[i] = j
    BY <1>2
  <2>6. \A i \in D : written[i].key \in {accounts[j].key : j \in D}
    BY <2>3
  <2>7. \A j \in D : accounts[j].key \in {written[i].key : i \in D}
    <3> SUFFICES ASSUME NEW j \in D PROVE \E i \in D : accounts[j].key = written[i].key
      OBVIOUS
    <3>1. PICK i \in D : s[i] = j
      BY <2>5
    <3> QED BY <2>3, <3>1
  <2> QED BY <2>2, <2>4, <2>6, <2>7, Zenon
<1> QED BY <1>9, <1>10 DEF saved

LEMMA Added ==
  ASSUME WalletHypothesis, NEW w, Good(w), NEW l \in Label, NEW k \in Nat, Admits(w, l),
         w.recovery => k = Len(w.accounts)
  PROVE  Good(WithKey(w, l, k)) /\ Keys(WithKey(w, l, k)) = Keys(w) \cup {k}
<1> DEFINE accounts == w.accounts
           n == Len(accounts)
           new == [label |-> l, key |-> k]
           longer == Append(accounts, new)
           more == WithKey(w, l, k)
<1>1. n \in Nat /\ DOMAIN accounts = 1 .. n /\ accounts \in Seq(Account) /\ new \in Account
  BY GoodIs DEF Account
<1>2. /\ longer \in Seq(Account) /\ Len(longer) = n + 1 /\ DOMAIN longer = 1 .. n + 1
      /\ longer[n + 1] = new /\ \A i \in 1 .. n : longer[i] = accounts[i]
  BY <1>1, AppendProperties, LenProperties
<1>3. /\ more \in [recovery : BOOLEAN, accounts : Seq(Account)]
      /\ more.accounts = longer /\ more.recovery = w.recovery
  BY <1>2 DEF WithKey, Good
<1>4. /\ n < MaxAccounts /\ \A i \in 1 .. n : accounts[i].label # l
      /\ w.recovery => l \in Identifier
  BY <1>1 DEF Admits, LabelAdmitted, Labels
<1>5. new.label = l /\ new.key = k
  OBVIOUS
<1> HIDE DEF accounts, n, new, longer, more
<1>6. \A i \in 1 .. n + 1 : i = n + 1 \/ i \in 1 .. n
  BY <1>1
<1>7. \A i, j \in 1 .. n + 1 : longer[i].label = longer[j].label => i = j
  <2>1. \A i, j \in 1 .. n : accounts[i].label = accounts[j].label => i = j
    BY <1>1 DEF Good, accounts
  <2> QED BY <1>2, <1>4, <1>5, <1>6, <2>1
<1>8. ASSUME w.recovery
      PROVE  longer # <<>> /\ \A i \in 1 .. n + 1 : longer[i].key = i - 1 /\ longer[i].label \in Identifier
  <2>1. \A i \in 1 .. n : accounts[i].key = i - 1 /\ accounts[i].label \in Identifier
    BY <1>1, <1>8 DEF Good, accounts
  <2>2. k = (n + 1) - 1
    BY <1>1, <1>8 DEF n, accounts
  <2>3. longer # <<>>
    BY <1>1, <1>2, EmptySeq
  <2> QED BY <1>2, <1>4, <1>5, <1>6, <1>8, <2>1, <2>2, <2>3
<1>9. n + 1 <= MaxAccounts
  BY <1>1, <1>4 DEF WalletHypothesis
<1>10. Good(more)
  BY <1>2, <1>3, <1>7, <1>8, <1>9 DEF Good
<1>11. Keys(more) = Keys(w) \cup {k}
  <2>1. Keys(w) = {accounts[i].key : i \in 1 .. n}
    BY <1>1 DEF Keys, accounts
  <2>2. Keys(more) = {longer[i].key : i \in 1 .. n + 1}
    BY <1>2, <1>3 DEF Keys
  <2>3. n + 1 \in 1 .. n + 1 /\ \A i \in 1 .. n : i \in 1 .. n + 1
    BY <1>1
  <2> QED BY <1>2, <1>5, <1>6, <2>1, <2>2, <2>3
<1> QED BY <1>10, <1>11 DEF more

LEMMA EmptyGood == ASSUME WalletHypothesis PROVE Good(Empty)
<1>1. <<>> \in Seq(Account) /\ Len(<<>>) = 0 /\ DOMAIN <<>> = {}
  OBVIOUS
<1> QED BY <1>1 DEF Good, Empty, WalletHypothesis

LEMMA RecoveredGood ==
  ASSUME WalletHypothesis, NEW n \in 1 .. Len(AccountName)
  PROVE  Good(Recovered(SubSeq(AccountName, 1, n))) /\ Recovered(SubSeq(AccountName, 1, n)).recovery
<1> DEFINE names == SubSeq(AccountName, 1, n)
           accounts == [i \in DOMAIN names |-> [label |-> names[i], key |-> i - 1]]
<1>1. AccountName \in Seq(Identifier) /\ Len(AccountName) \in Nat /\ DOMAIN AccountName = 1 .. Len(AccountName)
      /\ Len(AccountName) <= MaxAccounts
  BY LenProperties DEF WalletHypothesis
<1>2. n \in Nat /\ n >= 1 /\ n <= Len(AccountName)
  BY <1>1
<1>3. /\ names \in Seq(Identifier) /\ Len(names) = n /\ DOMAIN names = 1 .. n
      /\ \A i \in 1 .. n : names[i] = AccountName[i] /\ i \in DOMAIN AccountName
  <2>1. names \in Seq(Identifier) /\ Len(names) = n /\ \A i \in 1 .. n : names[i] = AccountName[1 + i - 1]
    BY <1>1, <1>2, SubSeqProperties
  <2>2. \A i \in 1 .. n : 1 + i - 1 = i /\ i \in DOMAIN AccountName
    BY <1>1, <1>2
  <2>3. DOMAIN names = 1 .. n
    BY <2>1, LenProperties
  <2> QED BY <2>1, <2>2, <2>3
<1> HIDE DEF names
<1>4. \A i \in 1 .. n : names[i] \in Identifier /\ i - 1 \in Nat
  BY <1>2, <1>3, ElementOfSeq
<1>5. \A i, j \in 1 .. n : names[i] = names[j] => i = j
  BY <1>3 DEF WalletHypothesis, IsInjective
<1>6. accounts \in Seq(Account) /\ Len(accounts) = n /\ DOMAIN accounts = 1 .. n
  <2>1. accounts \in [1 .. n -> Account]
    BY <1>3, <1>4 DEF Account
  <2> HIDE DEF accounts
  <2> QED BY <1>2, <2>1, SeqDef, LenProperties
<1>7. \A i \in 1 .. n : accounts[i].label = names[i] /\ accounts[i].key = i - 1
  BY <1>3
<1>8. Recovered(names) = [recovery |-> TRUE, accounts |-> accounts]
  BY DEF Recovered
<1> HIDE DEF accounts
<1>9. accounts # <<>> /\ n <= MaxAccounts
  BY <1>1, <1>2, <1>6, EmptySeq DEF WalletHypothesis
<1>10. Good(Recovered(names)) /\ Recovered(names).recovery
  BY <1>4, <1>5, <1>6, <1>7, <1>8, <1>9 DEF Good
<1> QED BY <1>10 DEF names

SettingUp ==
  /\ command.name = "setup"
  /\ command = [name |-> "setup", at |-> command.at, wallet |-> command.wallet]
  /\ command.at \in {"prompts", "opened"} /\ (command.at = "opened" => disk = Broken)
  /\ Good(command.wallet) /\ command.wallet.recovery

\* A command that adds a key holds every key that was shown, and saves what it holds.
AddingKey ==
  /\ Adding
  /\ command = [name |-> command.name, at |-> command.at, wallet |-> command.wallet,
                key |-> command.key]
  /\ command.at \in {"load", "write", "flush", "rename"}
  /\ Good(command.wallet) /\ command.key \in Keys(command.wallet)
  /\ printed \subseteq Keys(command.wallet)
  /\ command.at = "flush" => tmp = ToKeystore(command.wallet)
  /\ command.at = "rename" => disk = ToKeystore(command.wallet)

KeystoreIInv ==
  /\ disk = None \/ disk = Broken \/ Good(disk)
  /\ printed # {} => Good(disk) /\ printed \subseteq Keys(disk)
  /\ drawn \in Nat
  /\ command = Idle \/ SettingUp \/ AddingKey

LEMMA KeystoreStarts == WalletHypothesis /\ WalletInit => KeystoreIInv
BY DEF WalletInit, KeystoreIInv, WalletHypothesis

LEMMA NotGood == ~ Good(None) /\ ~ Good(Broken) /\ None # Broken
<1>1. ~ Good(None) /\ ~ Good(Broken)
  BY GoodLoads
<1>2. "absent" \in DOMAIN None /\ "absent" \notin DOMAIN Broken
  BY DEF None, Broken
<1> QED BY <1>1, <1>2

LEMMA SettingUpIs == SettingUp => command # Idle /\ ~ Adding
BY DEF SettingUp, Idle, Adding

LEMMA AddingKeyIs == AddingKey => command # Idle /\ command.name # "setup"
BY DEF AddingKey, Idle, Adding

\* What the keystore's commands do not touch.
LEMMA KeystoreStays ==
  ASSUME KeystoreIInv, UNCHANGED <<disk, tmp, command, printed, drawn>>
  PROVE  KeystoreIInv'
BY DEF KeystoreIInv, SettingUp, AddingKey, Adding

LEMMA SetupKeeps ==
  ASSUME WalletHypothesis, KeystoreIInv, NEW n \in 1 .. Len(AccountName), Setup(n)
  PROVE  KeystoreIInv'
<1> DEFINE w == Recovered(SubSeq(AccountName, 1, n))
<1>1. Good(w) /\ w.recovery
  BY RecoveredGood
<1> HIDE DEF w
<1>2. command' = [name |-> "setup", at |-> "prompts", wallet |-> w]
      /\ UNCHANGED <<disk, tmp, printed, drawn>>
  BY DEF Setup, w
<1>3. SettingUp'
  BY <1>1, <1>2 DEF SettingUp
<1> QED BY <1>2, <1>3 DEF KeystoreIInv

LEMMA SetupOpenKeeps ==
  ASSUME KeystoreIInv, SetupOpen PROVE KeystoreIInv'
<1>1. SettingUp /\ disk = None /\ printed = {}
  BY AddingKeyIs, NotGood DEF SetupOpen, KeystoreIInv, Idle
<1>2. command' = [command EXCEPT !.at = "opened"] /\ disk' = Broken /\ UNCHANGED <<printed, drawn>>
  BY DEF SetupOpen
<1>3. command' = [name |-> "setup", at |-> "opened", wallet |-> command.wallet]
  BY <1>1, <1>2 DEF SettingUp
<1>4. Good(command.wallet) /\ command.wallet.recovery
  BY <1>1 DEF SettingUp
<1>5. command'.name = "setup" /\ command'.at = "opened" /\ command'.wallet = command.wallet
  BY <1>3
<1>6. SettingUp'
  BY <1>2, <1>3, <1>4, <1>5 DEF SettingUp
<1> QED BY <1>1, <1>2, <1>6 DEF KeystoreIInv

LEMMA SetupWriteKeeps ==
  ASSUME WalletHypothesis, KeystoreIInv, SetupWrite PROVE KeystoreIInv'
<1>1. SettingUp /\ disk = Broken /\ printed = {}
  <2>1. SettingUp
    BY AddingKeyIs DEF SetupWrite, KeystoreIInv, Idle
  <2>2. disk = Broken
    BY <2>1 DEF SettingUp, SetupWrite
  <2> QED BY <2>1, <2>2, NotGood DEF KeystoreIInv
<1>2. /\ disk' = ToKeystore(command.wallet) /\ printed' = printed \cup Keys(command.wallet)
      /\ command' = Idle /\ UNCHANGED drawn
  BY DEF SetupWrite
<1>3. Good(disk') /\ Keys(disk') = Keys(command.wallet)
  BY <1>1, <1>2, SavedGood DEF SettingUp
<1>4. printed' \subseteq Keys(disk')
  BY <1>1, <1>2, <1>3
<1>5. Keys(disk') = Keys(disk)'
  OBVIOUS
<1>6. Good(disk') = Good(disk)'
  OBVIOUS
<1> QED BY <1>2, <1>3, <1>4, <1>5, <1>6 DEF KeystoreIInv

\* Both ways to add a key.
LEMMA AddKeeps ==
  ASSUME WalletHypothesis, KeystoreIInv, NEW name \in {"new", "import"}, NEW w, Good(w),
         NEW l \in Label, NEW k \in Nat, Add(name, w, l, k), w.recovery => k = Len(w.accounts),
         printed \subseteq Keys(w), UNCHANGED <<disk, tmp, printed>>, drawn' \in Nat
  PROVE  KeystoreIInv'
<1> DEFINE more == WithKey(w, l, k)
<1>1. Admits(w, l) /\ command' = [name |-> name, at |-> "load", wallet |-> more, key |-> k]
  BY DEF Add
<1>2. Good(more) /\ Keys(more) = Keys(w) \cup {k}
  BY <1>1, Added
<1> HIDE DEF more
<1>3. AddingKey'
  BY <1>1, <1>2 DEF AddingKey, Adding
<1> QED BY <1>3 DEF KeystoreIInv

LEMMA NewKeeps ==
  ASSUME WalletHypothesis, KeystoreIInv, NEW l \in Label, New(l)
  PROVE  KeystoreIInv'
<1>1. Good(disk)
  BY DEF New, Loads, KeystoreIInv
<1>2. drawn \in Nat /\ Len(disk.accounts) \in Nat /\ disk.recovery \in BOOLEAN
      /\ printed \subseteq Keys(disk)
  BY <1>1, GoodIs DEF KeystoreIInv
<1>3. /\ Add("new", disk, l, NextKey(disk)) /\ UNCHANGED <<disk, tmp, printed>>
      /\ drawn' = IF disk.recovery THEN drawn ELSE drawn + 1
  BY DEF New
<1>4. NextKey(disk) \in Nat /\ (disk.recovery => NextKey(disk) = Len(disk.accounts)) /\ drawn' \in Nat
  BY <1>2, <1>3 DEF NextKey
<1> QED BY <1>1, <1>2, <1>3, <1>4, AddKeeps

LEMMA ImportKeeps ==
  ASSUME WalletHypothesis, KeystoreIInv, NEW l \in Label, Import(l)
  PROVE  KeystoreIInv'
<1> DEFINE w == IF disk = None THEN Empty ELSE disk
<1>1. Good(w) /\ ~ w.recovery /\ printed \subseteq Keys(w)
  <2>1. CASE disk = None
    <3>1. w = Empty /\ ~ Empty.recovery
      BY <2>1 DEF Empty
    <3>2. printed = {}
      BY <2>1, NotGood DEF KeystoreIInv
    <3> QED BY <3>1, <3>2, EmptyGood
  <2>2. CASE disk # None
    BY <2>2 DEF Import, Loads, KeystoreIInv
  <2> QED BY <2>1, <2>2
<1>2. /\ Add("import", w, l, drawn) /\ UNCHANGED <<disk, tmp, printed>>
      /\ drawn' = drawn + 1 /\ drawn \in Nat /\ drawn' \in Nat
  BY DEF Import, KeystoreIInv
<1> HIDE DEF w
<1> QED BY <1>1, <1>2, AddKeeps

LEMMA WriteKeeps ==
  ASSUME KeystoreIInv, Write PROVE KeystoreIInv'
<1>1. AddingKey /\ command.at = "load" /\ command.name \in {"new", "import"}
  BY SettingUpIs DEF Write, Adding, KeystoreIInv, Idle
<1>2. command' = [command EXCEPT !.at = "write"] /\ UNCHANGED <<disk, printed, drawn>>
  BY DEF Write
<1>3. command' = [name |-> command.name, at |-> "write", wallet |-> command.wallet, key |-> command.key]
  BY <1>1, <1>2 DEF AddingKey
<1>4. AddingKey'
  BY <1>1, <1>2, <1>3 DEF AddingKey, Adding
<1> QED BY <1>2, <1>4 DEF KeystoreIInv

LEMMA FlushKeeps ==
  ASSUME KeystoreIInv, Flush PROVE KeystoreIInv'
<1>1. AddingKey /\ command.name \in {"new", "import"}
  BY SettingUpIs DEF Flush, Adding, KeystoreIInv, Idle
<1>2. /\ command' = [command EXCEPT !.at = "flush"] /\ UNCHANGED <<disk, printed, drawn>>
      /\ tmp' = ToKeystore(command.wallet)
  BY DEF Flush
<1>3. command' = [name |-> command.name, at |-> "flush", wallet |-> command.wallet, key |-> command.key]
  BY <1>1, <1>2 DEF AddingKey
<1>4. AddingKey'
  BY <1>1, <1>2, <1>3 DEF AddingKey, Adding
<1> QED BY <1>2, <1>4 DEF KeystoreIInv

LEMMA RenameKeeps ==
  ASSUME WalletHypothesis, KeystoreIInv, Rename PROVE KeystoreIInv'
<1>1. AddingKey /\ command.at = "flush" /\ command.name \in {"new", "import"}
  BY SettingUpIs DEF Rename, Adding, KeystoreIInv, Idle
<1>2. /\ command' = [command EXCEPT !.at = "rename"] /\ UNCHANGED <<printed, drawn>>
      /\ disk' = ToKeystore(command.wallet)
  BY <1>1 DEF Rename, AddingKey
<1>3. command' = [name |-> command.name, at |-> "rename", wallet |-> command.wallet, key |-> command.key]
  BY <1>1, <1>2 DEF AddingKey
<1>4. AddingKey'
  BY <1>1, <1>2, <1>3 DEF AddingKey, Adding
<1>5. Good(disk') /\ Keys(disk') = Keys(command.wallet) /\ printed' \subseteq Keys(disk')
  BY <1>1, <1>2, SavedGood DEF AddingKey
<1> QED BY <1>2, <1>4, <1>5 DEF KeystoreIInv

LEMMA ShowKeeps ==
  ASSUME WalletHypothesis, KeystoreIInv, Show PROVE KeystoreIInv'
<1>1. AddingKey /\ command.at = "rename"
  BY SettingUpIs DEF Show, Adding, KeystoreIInv, Idle
<1>2. command' = Idle /\ UNCHANGED <<disk, drawn>> /\ printed' = printed \cup {command.key}
  BY DEF Show
<1>3. Good(disk) /\ Keys(disk) = Keys(command.wallet)
  BY <1>1, SavedGood DEF AddingKey
<1>4. printed' \subseteq Keys(disk)
  BY <1>1, <1>2, <1>3 DEF AddingKey
<1> QED BY <1>2, <1>3, <1>4 DEF KeystoreIInv

LEMMA KeystoreKeeps ==
  ASSUME WalletHypothesis, KeystoreIInv, [WalletNext]_walletVars
  PROVE  KeystoreIInv'
<1>1. ASSUME NEW n \in 1 .. Len(AccountName), Setup(n) PROVE KeystoreIInv'
  BY <1>1, SetupKeeps
<1>2. CASE SetupOpen
  BY <1>2, SetupOpenKeeps
<1>3. CASE SetupWrite
  BY <1>3, SetupWriteKeeps
<1>4. ASSUME NEW l \in Label, New(l) \/ Import(l) PROVE KeystoreIInv'
  BY <1>4, NewKeeps, ImportKeeps
<1>5. CASE Write \/ Flush \/ Rename \/ Show
  BY <1>5, WriteKeeps, FlushKeeps, RenameKeeps, ShowKeeps
<1>6. CASE Crash
  BY <1>6 DEF Crash, KeystoreIInv
<1>7. ASSUME NEW a \in Payment, NEW f \in Fees, Send(a, f) PROVE KeystoreIInv'
  BY <1>7, KeystoreStays DEF Send
<1>8. CASE Grow \/ UNCHANGED walletVars
  BY <1>8, KeystoreStays DEF Grow, walletVars
<1> QED BY <1>1, <1>2, <1>3, <1>4, <1>5, <1>6, <1>7, <1>8 DEF WalletNext

LEMMA KeystoreImplies == KeystoreIInv => KeysSurvive
<1> SUFFICES ASSUME KeystoreIInv PROVE KeysSurvive
  OBVIOUS
<1>1. Good(disk) => Loads(disk) /\ (disk.recovery => Keys(disk) = 0 .. Len(disk.accounts) - 1)
  BY GoodLoads
<1>2. Loads(disk) => Good(disk)
  BY DEF Loads, KeystoreIInv
<1> QED BY <1>1, <1>2 DEF KeysSurvive, KeystoreIInv

(* Spends                                                                    *)

WorthOf == [c \in Coin |-> c.value]

LEMMA TotalIs ==
  ASSUME WalletHypothesis, NEW S \in SUBSET Coin
  PROVE  /\ IsFiniteSet(S) /\ Total(S) = Sum(WorthOf, S)
         /\ \A c \in Coin : WorthOf[c] = c.value /\ WorthOf[c] \in Nat
         /\ Total(S) \in Nat /\ Total(S) <= MaxMoney
<1>1. IsFiniteSet(Coin) /\ IsFiniteSet(S) /\ IsFiniteSet(Coin \ S)
  BY FS_Subset DEF WalletHypothesis
<1>2. \A c \in Coin : WorthOf[c] = c.value /\ WorthOf[c] \in Nat
  BY DEF WorthOf, WalletHypothesis
<1>3. Total(S) = Sum(WorthOf, S)
  BY DEF Total, Sum, WorthOf
<1>4. Sum(WorthOf, S) \in Nat /\ Sum(WorthOf, Coin \ S) \in Nat
  BY <1>1, <1>2, SumNatural
<1>5. Sum(WorthOf, S \cup (Coin \ S)) = Sum(WorthOf, S) + Sum(WorthOf, Coin \ S)
  BY <1>1, <1>2, SumUnion
<1>6. S \cup (Coin \ S) = Coin
  OBVIOUS
<1>7. Sum(WorthOf, Coin) <= MaxMoney /\ MaxMoney \in Nat
  BY DEF WalletHypothesis, Sum, WorthOf
<1>8. Sum(WorthOf, S) <= MaxMoney
  BY <1>4, <1>5, <1>6, <1>7
<1>9. Total(S) \in Nat /\ Total(S) <= MaxMoney
  BY <1>3, <1>4, <1>8
<1> QED BY <1>1, <1>2, <1>3, <1>9

LEMMA SumConstant ==
  ASSUME NEW S, IsFiniteSet(S), NEW w \in Int
  PROVE  Sum([x \in S |-> w], S) = w * Cardinality(S)
<1> DEFINE g == [x \in S |-> w]
           F == {s \in SUBSET S : Sum(g, s) = w * Cardinality(s)}
<1>1. {} \in F
  BY SumEmpty, FS_EmptySet
<1>2. ASSUME NEW s \in SUBSET S, NEW x \in S \ s, s \in F PROVE s \cup {x} \in F
  <2>1. IsFiniteSet(s) /\ Cardinality(s) \in Nat /\ Cardinality(s \cup {x}) = Cardinality(s) + 1
    BY FS_Subset, FS_AddElement, FS_CardinalityType
  <2>2. Sum(g, s \cup {x}) = w + Sum(g, s)
    <3>1. \A y \in s : g[y] \in Int
      OBVIOUS
    <3>2. g[x] = w /\ x \notin s
      OBVIOUS
    <3> HIDE DEF g
    <3> QED BY <2>1, <3>1, <3>2, SumAdd
  <2>3. Sum(g, s) = w * Cardinality(s)
    BY <1>2
  <2> HIDE DEF g
  <2>4. w + w * Cardinality(s) = w * (Cardinality(s) + 1)
    BY <2>1
  <2> QED BY <2>1, <2>2, <2>3, <2>4
<1>3. S \in F
  <2> HIDE DEF F
  <2> QED BY <1>1, <1>2, FiniteInduction
<1> QED BY <1>3

\* As many numbers on one side of a bound as on the other.
LEMMA SumsApart ==
  ASSUME NEW A, IsFiniteSet(A), NEW B, IsFiniteSet(B), Cardinality(A) = Cardinality(B),
         NEW f, NEW w \in Int, \A x \in A : f[x] \in Int /\ w <= f[x],
         \A x \in B : f[x] \in Int /\ f[x] <= w
  PROVE  Sum(f, B) <= Sum(f, A)
<1> DEFINE a == [x \in A |-> w]
           b == [x \in B |-> w]
<1>1. Sum(a, A) = w * Cardinality(A) /\ Sum(b, B) = w * Cardinality(B)
  BY SumConstant
<1>2. \A x \in A : a[x] = w
  OBVIOUS
<1>3. \A x \in B : b[x] = w
  OBVIOUS
<1> HIDE DEF a, b
<1>4. Sum(a, A) <= Sum(f, A)
  BY <1>2, SumGrows
<1>5. Sum(f, B) <= Sum(b, B)
  BY <1>3, SumGrows
<1>6. Sum(a, A) \in Int /\ Sum(b, B) \in Int /\ Sum(f, A) \in Int /\ Sum(f, B) \in Int
  BY <1>2, <1>3, SumType
<1> QED BY <1>1, <1>4, <1>5, <1>6

FirstOf(coins, k) == {coins[i] : i \in 1 .. k}

\* The largest come first, whatever the order among equals.
LEMMA InSize ==
  ASSUME WalletHypothesis, NEW at \in Nat
  PROVE  LET U == Unspent(at)
             n == Cardinality(U)
             coins == LargestFirst(at)
         IN  /\ U \in SUBSET Coin /\ IsFiniteSet(U) /\ n \in Nat
             /\ coins \in [1 .. n -> U]
             /\ \A i, j \in 1 .. n : coins[i] = coins[j] => i = j
             /\ \A i, j \in 1 .. n : i < j => coins[i].value >= coins[j].value
             /\ \A c \in U : \E i \in 1 .. n : coins[i] = c
<1> DEFINE U == Unspent(at)
           n == Cardinality(U)
           coins == LargestFirst(at)
           Sorted(s) == \A i, j \in DOMAIN s : i < j => s[i].value >= s[j].value
<1>1. U \in SUBSET Coin /\ IsFiniteSet(U) /\ n \in Nat
  BY FS_Subset, FS_CardinalityType DEF Unspent, WalletHypothesis
<1>2. coins = CHOOSE s \in SetToSeqs(U) : Sorted(s)
  BY DEF LargestFirst
<1>3. \A c \in U : c.value \in Nat
  BY <1>1 DEF WalletHypothesis
<1> HIDE DEF U, coins
<1>4. PICK e \in Bijection(1 .. n, U) : TRUE
  <2>1. ExistsBijection(1 .. n, U)
    BY <1>1, FS_CardinalityType
  <2> QED BY <2>1 DEF ExistsBijection
<1>5. \E s \in SetToSeqs(U) : Sorted(s)
  <2> DEFINE place == [c \in U |-> CHOOSE i \in 1 .. n : e[i] = c]
  <2>1. \A c \in U : place[c] \in 1 .. n /\ e[place[c]] = c
    BY <1>4 DEF Bijection, Surjection
  <2> HIDE DEF place
  <2>2. \A c \in U : place[c] \in Nat
    BY <2>1
  <2> DEFINE Larger(c, d) == c.value > d.value \/ (c.value = d.value /\ place[c] < place[d])
             R == {p \in U \X U : Larger(p[1], p[2])}
  <2>3. TotalOrder(R, U)
    <3>1. \A x, y \in U : <<x, y>> \in R <=> Larger(x, y)
      OBVIOUS
    <3>2. \A x \in U : ~ Larger(x, x)
      BY <1>3, <2>2
    <3>3. \A x, y \in U : x # y => Larger(x, y) \/ Larger(y, x)
      BY <1>3, <2>1, <2>2
    <3>4. \A x, y, z \in U : Larger(x, y) /\ Larger(y, z) => Larger(x, z)
      BY <1>3, <2>2
    <3> HIDE DEF R, Larger
    <3> QED BY <3>1, <3>2, <3>3, <3>4 DEF TotalOrder
  <2>4. PICK s \in SetToSeqs(U) : \A i, j \in DOMAIN s : i < j => <<s[i], s[j]>> \in R
    <3> HIDE DEF R
    <3> QED BY <1>1, <2>3, Orderly
  <2>5. Sorted(s)
    <3>1. \A i \in DOMAIN s : s[i] \in U
      BY DEF SetToSeqs
    <3>2. \A c, d \in U : <<c, d>> \in R => c.value >= d.value
      BY <1>3
    <3> HIDE DEF R
    <3> QED BY <2>4, <3>1, <3>2
  <2> QED BY <2>4, <2>5
<1>6. coins \in SetToSeqs(U) /\ Sorted(coins)
  BY <1>2, <1>5
<1>7. coins \in [1 .. n -> U] /\ \A i, j \in 1 .. n : coins[i] = coins[j] => i = j
  BY <1>6 DEF SetToSeqs
<1>8. \A i, j \in 1 .. n : i < j => coins[i].value >= coins[j].value
  BY <1>6, <1>7
<1>9. \A c \in U : \E i \in 1 .. n : coins[i] = c
  <2>1. IsFiniteSet(1 .. n) /\ Cardinality(1 .. n) = n
    BY <1>1, FS_Interval
  <2>2. coins \in Injection(1 .. n, U)
    BY <1>7 DEF Injection, IsInjective
  <2>3. coins \in Surjection(1 .. n, U)
    BY <1>1, <2>1, <2>2, FS_Injection
  <2> QED BY <2>3 DEF Surjection
<1> QED BY <1>1, <1>7, <1>8, <1>9 DEF U, coins

\* No choice of as many coins is worth more than the first ones.
LEMMA FirstAreWorthMost ==
  ASSUME WalletHypothesis, NEW at \in Nat, NEW cs \in SUBSET Unspent(at)
  PROVE  /\ Cardinality(cs) \in 0 .. Cardinality(Unspent(at))
         /\ Total(cs) <= Total(FirstOf(LargestFirst(at), Cardinality(cs)))
<1> DEFINE U == Unspent(at)
           n == Cardinality(U)
           coins == LargestFirst(at)
           k == Cardinality(cs)
           P == FirstOf(coins, k)
           A == P \ cs
           B == cs \ P
           C == P \cap cs
<1>1. /\ U \in SUBSET Coin /\ IsFiniteSet(U) /\ n \in Nat
      /\ coins \in [1 .. n -> U]
      /\ \A i, j \in 1 .. n : coins[i] = coins[j] => i = j
      /\ \A i, j \in 1 .. n : i < j => coins[i].value >= coins[j].value
      /\ \A c \in U : \E i \in 1 .. n : coins[i] = c
  BY InSize
<1>2. IsFiniteSet(cs) /\ k \in Nat /\ k <= n /\ cs \in SUBSET U
  BY <1>1, FS_Subset, FS_CardinalityType
<1> HIDE DEF U, coins, k
<1>3. \A i \in 1 .. k : i \in 1 .. n
  BY <1>1, <1>2
<1>4. P \in SUBSET U /\ IsFiniteSet(P) /\ Cardinality(P) = k
  <2> DEFINE f == [i \in 1 .. k |-> coins[i]]
  <2>1. \A i \in 1 .. k : coins[i] \in U /\ coins[i] \in P
    BY <1>1, <1>3 DEF FirstOf
  <2>2. f \in Injection(1 .. k, P)
    BY <1>1, <1>3, <2>1 DEF Injection, IsInjective
  <2>3. f \in Surjection(1 .. k, P)
    BY <2>1 DEF Surjection, FirstOf
  <2>4. IsFiniteSet(1 .. k) /\ Cardinality(1 .. k) = k
    BY <1>2, FS_Interval
  <2>5. P \in SUBSET U
    BY <2>1 DEF FirstOf
  <2> HIDE DEF P, f
  <2>6. IsFiniteSet(P) /\ (Cardinality(P) = Cardinality(1 .. k) <=> f \in Injection(1 .. k, P))
    BY <2>3, <2>4, FS_Surjection
  <2> QED BY <2>2, <2>4, <2>5, <2>6
<1>5. CASE k = 0
  <2>1. P = {} /\ cs = {}
    BY <1>2, <1>5, FS_EmptySet DEF FirstOf, k
  <2>2. Total({}) \in Nat
    BY TotalIs
  <2> QED BY <1>2, <1>1, <2>1, <2>2 DEF P, k, U, coins
<1>6. CASE k # 0
  <2> DEFINE w == coins[k].value
  <2>1. k \in 1 .. k /\ k \in 1 .. n /\ coins[k] \in U /\ coins[k] \in Coin
    BY <1>1, <1>2, <1>3, <1>6
  <2>2. w \in Nat /\ \A c \in Coin : WorthOf[c] = c.value /\ WorthOf[c] \in Nat
    BY <2>1, TotalIs DEF WalletHypothesis
  <2> HIDE DEF w
  <2>3. \A c \in P : w <= WorthOf[c]
    <3> SUFFICES ASSUME NEW i \in 1 .. k PROVE w <= WorthOf[coins[i]]
      BY DEF FirstOf
    <3>1. i \in 1 .. n /\ coins[i] \in Coin /\ (i < k \/ i = k)
      BY <1>1, <1>2, <1>3
    <3>2. coins[i].value >= w /\ coins[i].value \in Nat
      BY <1>1, <2>1, <2>2, <3>1 DEF w
    <3> QED BY <2>2, <3>1, <3>2
  <2>4. \A c \in U \ P : WorthOf[c] <= w
    <3> SUFFICES ASSUME NEW c \in U \ P PROVE WorthOf[c] <= w
      OBVIOUS
    <3>1. PICK i \in 1 .. n : coins[i] = c
      BY <1>1
    <3>2. i \notin 1 .. k
      BY <3>1 DEF FirstOf
    <3>3. k < i
      BY <1>1, <1>2, <3>2
    <3>4. coins[k].value >= coins[i].value
      BY <1>1, <2>1, <3>3
    <3>5. c \in Coin /\ c.value \in Nat
      BY <1>1 DEF WalletHypothesis
    <3> QED BY <2>2, <3>1, <3>4, <3>5 DEF w
  <2> HIDE DEF P
  <2>5. /\ A \in SUBSET Coin /\ IsFiniteSet(A) /\ B \in SUBSET Coin /\ IsFiniteSet(B)
        /\ C \in SUBSET Coin /\ IsFiniteSet(C)
        /\ A \cap C = {} /\ B \cap C = {} /\ P = A \cup C /\ cs = B \cup C
    BY <1>1, <1>2, <1>4, FS_Subset
  <2>6. Cardinality(A) = Cardinality(B)
    <3>1. Cardinality(A) \in Nat /\ Cardinality(B) \in Nat /\ Cardinality(C) \in Nat
      BY <2>5, FS_CardinalityType
    <3> HIDE DEF A, B, C
    <3>2. Cardinality({}) = 0
      BY FS_EmptySet
    <3>3. Cardinality(A \cup C) = Cardinality(A) + Cardinality(C)
      <4>1. Cardinality(A \cup C) = Cardinality(A) + Cardinality(C) - Cardinality(A \cap C)
        BY <2>5, FS_Union
      <4>2. A \cap C = {}
        BY <2>5
      <4>3. Cardinality(A \cap C) = 0
        BY <3>2, <4>2, Zenon
      <4> QED BY <3>1, <4>1, <4>3
    <3>4. Cardinality(B \cup C) = Cardinality(B) + Cardinality(C)
      <4>1. Cardinality(B \cup C) = Cardinality(B) + Cardinality(C) - Cardinality(B \cap C)
        BY <2>5, FS_Union
      <4>2. B \cap C = {}
        BY <2>5
      <4>3. Cardinality(B \cap C) = 0
        BY <3>2, <4>2, Zenon
      <4> QED BY <3>1, <4>1, <4>3
    <3>5. Cardinality(A \cup C) = k /\ Cardinality(B \cup C) = k
      BY <1>4, <2>5 DEF k
    <3> QED BY <3>1, <3>3, <3>4, <3>5
  <2>7. \A c \in A : WorthOf[c] \in Int /\ w <= WorthOf[c]
    BY <2>2, <2>3, <2>5
  <2>8. \A c \in B : WorthOf[c] \in Int /\ WorthOf[c] <= w
    BY <1>2, <2>2, <2>4, <2>5
  <2> HIDE DEF A, B, C
  <2>9. Sum(WorthOf, B) <= Sum(WorthOf, A)
    BY <2>2, <2>5, <2>6, <2>7, <2>8, SumsApart
  <2>10. Sum(WorthOf, A \cup C) = Sum(WorthOf, A) + Sum(WorthOf, C)
         /\ Sum(WorthOf, B \cup C) = Sum(WorthOf, B) + Sum(WorthOf, C)
    BY <2>2, <2>5, SumUnion
  <2>11. Sum(WorthOf, A) \in Nat /\ Sum(WorthOf, B) \in Nat /\ Sum(WorthOf, C) \in Nat
    BY <2>2, <2>5, SumNatural
  <2>12. Sum(WorthOf, cs) <= Sum(WorthOf, P)
    BY <2>5, <2>9, <2>10, <2>11
  <2>13. Total(cs) = Sum(WorthOf, cs) /\ Total(P) = Sum(WorthOf, P)
    <3>1. cs \in SUBSET Coin /\ P \in SUBSET Coin
      BY <2>5
    <3> QED BY <3>1, TotalIs
  <2>14. k \in 0 .. n
    BY <1>1, <1>2
  <2> QED BY <2>12, <2>13, <2>14 DEF P, k, U, coins
<1> QED BY <1>5, <1>6

LEMMA MineIs ==
  ASSUME WalletHypothesis, NEW at \in Nat
  PROVE  Mine(at) = Unspent(at)
<1>1. ASSUME NEW c \in Coin
      PROVE  (c.coinbase => (at + 1) - c.height >= CoinMaturity)
               <=> ~ (c.coinbase /\ (at + 1) - c.height < CoinMaturity)
  <2>1. (at + 1) - c.height \in Int /\ CoinMaturity \in Int
    BY DEF WalletHypothesis
  <2> QED BY <2>1
<1> QED BY <1>1 DEF Mine, Unspent

LEMMA SelectedIs ==
  ASSUME WalletHypothesis, NEW need \in Nat \ {0}, NEW at \in Nat
  PROVE  LET inputs == Selected(need, at)
             n == Cardinality(Unspent(at))
             Enough == {k \in 1 .. n : Total(FirstOf(LargestFirst(at), k)) >= need}
         IN  \/ inputs = <<>> /\ Enough = {}
             \/ \E m \in Enough : /\ \A k \in Enough : m <= k
                                  /\ inputs = [i \in 1 .. m |-> LargestFirst(at)[i]]
<1> DEFINE coins == LargestFirst(at)
           n == Cardinality(Unspent(at))
           Enough == {k \in 1 .. n : Total(FirstOf(coins, k)) >= need}
           m == CHOOSE k \in Enough : \A l \in Enough : k <= l
<1>1. DOMAIN coins = 1 .. n /\ n \in Nat
  BY InSize
<1>2. Selected(need, at) = IF Enough = {} THEN <<>> ELSE [i \in 1 .. m |-> coins[i]]
  BY <1>1 DEF Selected, FirstOf
<1>3. ASSUME Enough # {} PROVE m \in Enough /\ \A k \in Enough : m <= k
  <2>1. Enough \in SUBSET Nat
    BY <1>1
  <2> HIDE DEF Enough
  <2>2. \E k \in Enough : \A l \in Enough : k <= l
    BY <1>3, <2>1, LeastOf
  <2> QED BY <2>2
<1> HIDE DEF m, Enough
<1>4. Enough = {} \/ m \in Enough
  BY <1>3
<1> QED BY <1>2, <1>3, <1>4 DEF Enough

Outputs2(amount, change) == IF change > 0 THEN <<amount, change>> ELSE <<amount>>

LEMMA OutputsAdd ==
  ASSUME NEW a \in Nat, NEW c \in Nat
  PROVE  LET o == Outputs2(a, c) IN
         /\ o # <<>> /\ SumFunction(o) = a + c /\ \A i \in DOMAIN o : o[i] \in 0 .. a + c
<1>1. CASE c > 0
  <2> DEFINE o == <<a, c>>
  <2>1. o # <<>> /\ DOMAIN o = {1, 2} /\ o[1] = a /\ o[2] = c
    OBVIOUS
  <2> HIDE DEF o
  <2>2. Sum(o, {1}) = a
    <3>1. IsFiniteSet({}) /\ (\A x \in {} : o[x] \in Int) /\ 1 \notin {} /\ o[1] \in Int
      BY <2>1, FS_EmptySet
    <3>2. Sum(o, {} \cup {1}) = o[1] + Sum(o, {})
      BY <3>1, SumAdd
    <3>3. {} \cup {1} = {1}
      OBVIOUS
    <3> QED BY <2>1, <3>2, <3>3, SumEmpty
  <2>3. Sum(o, {1} \cup {2}) = o[2] + Sum(o, {1})
    <3>1. (\A x \in {1} : o[x] \in Int) /\ 2 \notin {1} /\ o[2] \in Int
      BY <2>1
    <3>2. IsFiniteSet({1})
      BY FS_Singleton, Zenon
    <3> QED BY <3>1, <3>2, SumAdd
  <2>4. {1} \cup {2} = {1, 2}
    OBVIOUS
  <2>5. SumFunction(o) = Sum(o, {1, 2})
    BY <2>1, SumIs, Zenon
  <2>6. SumFunction(o) = a + c
    <3>1. SumFunction(o) = Sum(o, {1} \cup {2})
      BY <2>4, <2>5, Zenon
    <3>2. SumFunction(o) = c + a
      BY <2>1, <2>2, <2>3, <3>1, Zenon
    <3> QED BY <3>2
  <2> QED BY <1>1, <2>1, <2>6 DEF o, Outputs2
<1>2. CASE c = 0
  <2> DEFINE o == <<a>>
  <2>1. o # <<>> /\ DOMAIN o = {1} /\ o[1] = a
    OBVIOUS
  <2> HIDE DEF o
  <2>2. Sum(o, {1}) = o[1] + Sum(o, {})
    <3>1. IsFiniteSet({}) /\ (\A x \in {} : o[x] \in Int) /\ 1 \notin {} /\ o[1] \in Int
      BY <2>1, FS_EmptySet
    <3>2. Sum(o, {} \cup {1}) = o[1] + Sum(o, {})
      BY <3>1, SumAdd
    <3>3. {} \cup {1} = {1}
      OBVIOUS
    <3> QED BY <3>2, <3>3
  <2>3. SumFunction(o) = a
    BY <2>1, <2>2, SumEmpty, SumIs
  <2> QED BY <1>2, <2>1, <2>3 DEF o, Outputs2
<1> QED BY <1>1, <1>2

LEMMA SpendSound ==
  ASSUME WalletHypothesis, NEW a \in Payment, NEW f \in Fees, NEW at \in Nat,
         NEW s, s = BuildSpend(a, f, at)
  PROVE  LET Pays == {cs \in SUBSET Mine(at) : Total(cs) >= s.amount + s.fee}
         IN  IF s.inputs = <<>> THEN Pays = {}
             ELSE /\ ValidTransaction(s)
                  /\ ToSet(s.inputs) \in Pays
                  /\ Total(ToSet(s.inputs)) = s.fee + SumFunction(s.outputs)
                  /\ \A cs \in Pays : Len(s.inputs) <= Cardinality(cs)
<1> DEFINE need == a + f
           U == Unspent(at)
           n == Cardinality(U)
           coins == LargestFirst(at)
           Enough == {k \in 1 .. n : Total(FirstOf(coins, k)) >= need}
           inputs == Selected(need, at)
           total == Total(ToSet(inputs))
           Pays == {cs \in SUBSET U : Total(cs) >= need}
<1>1. a \in Nat /\ a > 0 /\ f \in Nat /\ need \in Nat /\ need > 0 /\ MaxMoney \in Nat
  BY DEF WalletHypothesis
<1>2. /\ U \in SUBSET Coin /\ n \in Nat
      /\ coins \in [1 .. n -> U]
      /\ \A i, j \in 1 .. n : coins[i] = coins[j] => i = j
  BY InSize
<1>3. /\ s.amount = a /\ s.fee = f /\ s.inputs = inputs
      /\ s.outputs = Outputs2(a, total - a - f)
  BY DEF BuildSpend, Outputs2
<1>4. \/ inputs = <<>> /\ Enough = {}
      \/ \E m \in Enough : /\ \A k \in Enough : m <= k
                           /\ inputs = [i \in 1 .. m |-> coins[i]]
  <2>1. need \in Nat \ {0}
    BY <1>1
  <2> HIDE DEF need
  <2> QED BY <2>1, SelectedIs
<1> HIDE DEF U, coins, inputs
\* Whoever pays has as many of the first coins that pay.
<1>5. ASSUME NEW cs \in Pays PROVE Cardinality(cs) \in Enough
  <2>1. cs \in SUBSET U /\ cs \in SUBSET Coin /\ Total(cs) >= need
    BY <1>2
  <2>2. cs # {}
    <3>1. Total({}) = 0
      <4>1. {} \in SUBSET Coin
        OBVIOUS
      <4> QED BY <4>1, TotalIs, SumEmpty
    <3> QED BY <1>1, <2>1, <3>1
  <2>3. Cardinality(cs) \in 0 .. n /\ Total(cs) <= Total(FirstOf(coins, Cardinality(cs)))
    BY <2>1, FirstAreWorthMost DEF U, coins
  <2>4. Cardinality(cs) # 0
    BY <2>1, <2>2, TotalIs, FS_EmptySet
  <2>5. FirstOf(coins, Cardinality(cs)) \in SUBSET Coin
    BY <1>2, <2>3 DEF FirstOf
  <2>6. Total(cs) \in Nat /\ Total(FirstOf(coins, Cardinality(cs))) \in Nat
    BY <2>1, <2>5, TotalIs
  <2>7. Total(FirstOf(coins, Cardinality(cs))) >= need
    BY <1>1, <2>1, <2>3, <2>6
  <2>8. Cardinality(cs) \in 1 .. n
    BY <1>2, <2>3, <2>4
  <2> QED BY <2>7, <2>8
<1>6. ASSUME inputs # <<>>
      PROVE  /\ ValidTransaction(s) /\ ToSet(inputs) \in Pays
             /\ total = f + SumFunction(s.outputs)
             /\ \A cs \in Pays : Len(inputs) <= Cardinality(cs)
  <2>1. PICK m \in Enough : /\ \A k \in Enough : m <= k
                            /\ inputs = [i \in 1 .. m |-> coins[i]]
    BY <1>4, <1>6
  <2>2. m \in 1 .. n /\ m \in Nat /\ Total(FirstOf(coins, m)) >= need /\ \A i \in 1 .. m : i \in 1 .. n
    BY <1>2, <2>1
  <2>3. DOMAIN inputs = 1 .. m /\ Len(inputs) = m /\ \A i \in 1 .. m : inputs[i] = coins[i] /\ coins[i] \in U
    BY <1>2, <2>1, <2>2
  <2>4. ToSet(inputs) = FirstOf(coins, m) /\ ToSet(inputs) \in SUBSET U /\ ToSet(inputs) \in SUBSET Coin
    <3>1. ToSet(inputs) = {inputs[i] : i \in 1 .. m}
      BY <2>3 DEF ToSet
    <3> QED BY <1>2, <2>3, <3>1 DEF FirstOf
  <2>5. total \in Nat /\ total <= MaxMoney /\ total >= need
    BY <2>2, <2>4, TotalIs
  <2> HIDE DEF total
  <2>6. total - a - f \in Nat /\ a + (total - a - f) = total - f /\ total - f <= MaxMoney
    BY <1>1, <2>5
  <2>7. /\ s.outputs # <<>> /\ SumFunction(s.outputs) = total - f
        /\ \A i \in DOMAIN s.outputs : s.outputs[i] \in 0 .. total - f
    <3> DEFINE c == total - a - f
               o == Outputs2(a, c)
    <3>1. c \in Nat /\ a + c = total - f
      BY <2>6
    <3> HIDE DEF c
    <3>2. o # <<>> /\ SumFunction(o) = a + c /\ \A i \in DOMAIN o : o[i] \in 0 .. a + c
      BY <1>1, <3>1, OutputsAdd
    <3>3. s.outputs = o
      BY <1>3 DEF c
    <3> HIDE DEF o
    <3> QED BY <3>1, <3>2, <3>3
  <2>8. \A x \in 0 .. total - f : x \in 0 .. MaxMoney
    BY <1>1, <2>5, <2>6
  <2>9. IsInjective(inputs)
    BY <1>2, <2>2, <2>3 DEF IsInjective
  <2>10. ValidTransaction(s)
    BY <1>3, <1>6, <2>6, <2>7, <2>8, <2>9 DEF ValidTransaction
  <2>11. total = f + SumFunction(s.outputs)
    BY <1>1, <2>5, <2>7
  <2>12. ToSet(inputs) \in Pays
    BY <2>4, <2>5 DEF total
  <2> HIDE DEF Enough, Pays
  <2>13. \A cs \in Pays : Len(inputs) <= Cardinality(cs)
    BY <1>5, <2>1, <2>3
  <2> QED BY <2>10, <2>11, <2>12, <2>13
<1>7. ASSUME inputs = <<>> PROVE Pays = {}
  <2>1. Enough = {}
    <3> SUFFICES ASSUME NEW m \in Enough, inputs = [i \in 1 .. m |-> coins[i]] PROVE FALSE
      BY <1>4
    <3>1. m \in Nat /\ m >= 1
      BY <1>2
    <3>2. 1 \in DOMAIN inputs
      BY <3>1
    <3> QED BY <1>7, <3>2
  <2> HIDE DEF Enough, Pays
  <2> QED BY <1>5, <2>1
<1>8. Mine(at) = U
  BY MineIs DEF U
<1> HIDE DEF Enough
<1>9. Pays = {cs \in SUBSET Mine(at) : Total(cs) >= s.amount + s.fee}
  BY <1>3, <1>8
<1> HIDE DEF Pays
<1> QED BY <1>3, <1>6, <1>7, <1>9

SpendIInv ==
  spend = None \/ (/\ spend.at \in Nat
                   /\ \E a \in Payment, f \in Fees : spend = BuildSpend(a, f, spend.at))

WalletIInv == KeystoreIInv /\ SpendIInv /\ tip \in Nat

LEMMA SpendKeeps ==
  ASSUME SpendIInv, tip \in Nat, [WalletNext]_walletVars
  PROVE  SpendIInv' /\ tip' \in Nat
<1>1. ASSUME NEW a \in Payment, NEW f \in Fees, Send(a, f) PROVE SpendIInv' /\ tip' \in Nat
  <2>1. spend' = BuildSpend(a, f, tip) /\ tip' = tip
    BY <1>1 DEF Send
  <2>2. spend'.at = tip
    BY <2>1 DEF BuildSpend
  <2>3. spend' = BuildSpend(a, f, spend'.at)
    BY <2>1, <2>2
  <2> QED BY <2>1, <2>2, <2>3 DEF SpendIInv
<1>2. CASE Grow
  BY <1>2 DEF Grow, SpendIInv
<1>3. ASSUME UNCHANGED <<spend, tip>> PROVE SpendIInv' /\ tip' \in Nat
  BY <1>3 DEF SpendIInv
<1>4. ASSUME NEW n \in 1 .. Len(AccountName), Setup(n) PROVE UNCHANGED <<spend, tip>>
  BY <1>4 DEF Setup
<1>5. CASE SetupOpen \/ SetupWrite \/ Crash \/ UNCHANGED walletVars
  BY <1>3, <1>5 DEF SetupOpen, SetupWrite, Crash, walletVars
<1>6. ASSUME NEW l \in Label, New(l) \/ Import(l) PROVE UNCHANGED <<spend, tip>>
  BY <1>6 DEF New, Import
<1>7. CASE Write \/ Flush \/ Rename \/ Show
  BY <1>3, <1>7 DEF Write, Flush, Rename, Show
<1> QED BY <1>1, <1>2, <1>3, <1>4, <1>5, <1>6, <1>7 DEF WalletNext

LEMMA SpendImplies ==
  ASSUME WalletHypothesis, SpendIInv
  PROVE  SpendIsSound
<1> SUFFICES ASSUME spend # None PROVE SpendIsSound
  BY DEF SpendIsSound
<1>1. PICK a \in Payment, f \in Fees : spend = BuildSpend(a, f, spend.at)
  BY DEF SpendIInv
<1>2. spend.at \in Nat
  BY DEF SpendIInv
<1>3. PICK s : s = spend
  OBVIOUS
<1>4. PICK at \in Nat : at = spend.at
  BY <1>2
<1>5. s = BuildSpend(a, f, at)
  BY <1>1, <1>3, <1>4
<1> DEFINE Pays == {cs \in SUBSET Mine(at) : Total(cs) >= s.amount + s.fee}
<1>6. IF s.inputs = <<>> THEN Pays = {}
      ELSE /\ ValidTransaction(s)
           /\ ToSet(s.inputs) \in Pays
           /\ Total(ToSet(s.inputs)) = s.fee + SumFunction(s.outputs)
           /\ \A cs \in Pays : Len(s.inputs) <= Cardinality(cs)
  BY <1>5, SpendSound
<1> QED BY <1>3, <1>4, <1>6 DEF SpendIsSound

\* For any accounts, labels, coins, amounts and fees: whatever crashes, a key whose
\* address was shown is in a keystore that loads, a recovery wallet's keys are the first
\* its words derive, and a spend is valid, exact, of as few coins as any choice, and
\* refused only when no choice pays for it (wallet/wallet.ts, scripts/wallet-cli.ts).
THEOREM WalletKeepsKeysAndCoins ==
  ASSUME WalletHypothesis
  PROVE  WalletSpec => []WalletInv
<1>1. WalletInit => WalletIInv
  BY KeystoreStarts DEF WalletIInv, SpendIInv, WalletInit
<1>2. WalletIInv /\ [WalletNext]_walletVars => WalletIInv'
  BY KeystoreKeeps, SpendKeeps DEF WalletIInv
<1>3. WalletIInv => WalletInv
  BY KeystoreImplies, SpendImplies DEF WalletIInv, WalletInv
<1> QED BY <1>1, <1>2, <1>3, PTL DEF WalletSpec

-----------------------------------------------------------------------------
(* The chain's rules: powers and the compact targets                          *)

\* The powers of the base grow, and multiply as exponents add.
LEMMA PowerIs ==
  ASSUME RulesHypothesis
  PROVE  /\ Power \in [Nat -> Nat \ {0}]
         /\ Power[0] = 1
         /\ \A n \in Nat : Power[n + 1] = Base * Power[n]
<1> DEFINE D == Nat \ {0}
           step == [x \in D |-> Base * x]
<1>1. 1 \in D /\ step \in [D -> D]
  <2>1. \A x \in D : Base * x \in D
    BY DEF RulesHypothesis
  <2> QED BY <2>1
<1>0. \E f : Recurs(f, D, 1, step)
  <2> HIDE DEF D, step
  <2> QED BY <1>1, Recurrence
<1>2. PICK f \in [Nat -> D] : f[0] = 1 /\ \A n \in Nat : f[n + 1] = step[f[n]]
  BY <1>0 DEF Recurs
<1> DEFINE Is(g) == g = [n \in Nat |-> IF n = 0 THEN 1 ELSE Base * g[n - 1]]
<1>3. Is(f)
  <2>1. ASSUME NEW n \in Nat PROVE f[n] = IF n = 0 THEN 1 ELSE Base * f[n - 1]
    <3>1. CASE n # 0
      <4>1. n - 1 \in Nat /\ (n - 1) + 1 = n
        BY <3>1
      <4>2. f[(n - 1) + 1] = step[f[n - 1]] /\ f[n - 1] \in D
        BY <1>2, <4>1
      <4> QED BY <3>1, <4>1, <4>2
    <3> QED BY <1>2, <3>1
  <2>2. f = [n \in Nat |-> f[n]]
    BY <1>2
  <2> QED BY <2>1, <2>2
<1>4. Is(Power)
  <2>1. Power = CHOOSE g : Is(g)
    BY DEF Power
  <2> HIDE DEF Is
  <2> QED BY <1>3, <2>1
<1>5. \A n \in Nat : Power[n] = IF n = 0 THEN 1 ELSE Base * Power[n - 1]
  BY <1>4
<1>6. Power[0] = 1 /\ \A n \in Nat : Power[n + 1] = Base * Power[n]
  <2>1. \A n \in Nat : n + 1 \in Nat /\ n + 1 # 0 /\ (n + 1) - 1 = n
    OBVIOUS
  <2>2. Power[0] = 1
    BY <1>5
  <2>3. ASSUME NEW n \in Nat PROVE Power[n + 1] = Base * Power[n]
    BY <1>5, <2>1
  <2> QED BY <2>2, <2>3
<1> HIDE DEF D, Is, step
<1> DEFINE S == {n \in Nat : Power[n] \in Nat \ {0}}
<1>7. S = Nat
  <2>1. 0 \in S /\ S \in SUBSET Nat
    BY <1>6
  <2>2. ASSUME NEW n \in S PROVE n + 1 \in S
    <3>1. Power[n + 1] = Base * Power[n] /\ Power[n] \in Nat \ {0}
      BY <1>6
    <3>2. Base * Power[n] \in Nat \ {0}
      BY <3>1 DEF RulesHypothesis
    <3> QED BY <3>1, <3>2
  <2> HIDE DEF S
  <2> QED BY <2>1, <2>2, Induction
<1>8. Power = [n \in Nat |-> Power[n]]
  BY <1>4 DEF Is
<1>9. \A n \in Nat : Power[n] \in Nat \ {0}
  BY <1>7
<1>10. Power \in [Nat -> Nat \ {0}]
  BY <1>8, <1>9, Zenon
<1> QED BY <1>6, <1>10

LEMMA PowerAdds ==
  ASSUME RulesHypothesis, NEW m \in Nat
  PROVE  \A n \in Nat : Power[m + n] = Power[m] * Power[n]
<1> DEFINE S == {n \in Nat : Power[m + n] = Power[m] * Power[n]}
<1>1. 0 \in S
  BY PowerIs
<1>2. ASSUME NEW n \in S PROVE n + 1 \in S
  <2>1. n \in Nat /\ Power[m + n] = Power[m] * Power[n]
    OBVIOUS
  <2>2. m + n \in Nat /\ m + (n + 1) = (m + n) + 1
    BY <2>1
  <2>3. Power[m + (n + 1)] = Base * Power[m + n] /\ Power[n + 1] = Base * Power[n]
    BY <2>1, <2>2, PowerIs
  <2>4. Power[m] \in Nat /\ Power[n] \in Nat /\ Base \in Nat
    BY <2>1, PowerIs DEF RulesHypothesis
  <2>5. Base * (Power[m] * Power[n]) = Power[m] * (Base * Power[n])
    BY <2>4
  <2>6. n + 1 \in Nat
    BY <2>1
  <2> QED BY <2>1, <2>3, <2>5, <2>6
<1>3. S = Nat
  <2>1. S \in SUBSET Nat
    OBVIOUS
  <2> HIDE DEF S
  <2> QED BY <1>1, <1>2, <2>1, Induction
<1> QED BY <1>3

LEMMA PowerGrows ==
  ASSUME RulesHypothesis, NEW m \in Nat, NEW n \in Nat, m <= n
  PROVE  Power[m] <= Power[n]
<1>1. n - m \in Nat /\ m + (n - m) = n
  OBVIOUS
<1>2. Power[n] = Power[m] * Power[n - m]
  BY <1>1, PowerAdds
<1>3. Power[m] \in Nat /\ Power[n - m] \in Nat /\ Power[n - m] >= 1
  BY <1>1, PowerIs
<1> HIDE <1>1
<1>4. \A x, y \in Nat : y >= 1 => x <= x * y
  OBVIOUS
<1> QED BY <1>2, <1>3, <1>4

\* Every target that has a compact form has one width.
Targets == {t \in Nat \ {0} : t < Power[MaxSize]}

LEMMA WidthIs ==
  ASSUME RulesHypothesis, NEW t \in Targets
  PROVE  /\ Width(t) \in 1 .. MaxSize
         /\ Power[Width(t) - 1] <= t /\ t < Power[Width(t)]
<1> DEFINE S == {n \in Nat : t < Power[n]}
<1>1. MaxSize \in S /\ MaxSize \in Nat /\ t \in Nat /\ t >= 1
  BY DEF Targets, RulesHypothesis
<1>2. PICK n \in S : \A k \in S : n <= k
  <2>1. S \in SUBSET Nat /\ S # {}
    BY <1>1
  <2> HIDE DEF S
  <2> QED BY <2>1, LeastOf
<1>3. n \in Nat /\ n # 0
  <2>1. 0 \notin S
    BY <1>1, PowerIs
  <2> QED BY <2>1
<1>4. n - 1 \in Nat /\ n - 1 \notin S
  BY <1>2, <1>3
<1>5. Power[n - 1] <= t
  <2>1. Power[n - 1] \in Nat /\ ~ (t < Power[n - 1])
    BY <1>4, PowerIs
  <2> QED BY <1>1, <2>1
<1>6. n \in 1 .. MaxSize /\ t < Power[n]
  BY <1>1, <1>2, <1>3
<1> QED BY <1>5, <1>6 DEF Width

LEMMA WidthOnly ==
  ASSUME RulesHypothesis, NEW t \in Targets, NEW n \in Nat \ {0}, Power[n - 1] <= t, t < Power[n]
  PROVE  Width(t) = n
<1> DEFINE w == Width(t)
<1>1. w \in Nat /\ w >= 1 /\ w - 1 \in Nat /\ n - 1 \in Nat /\ t \in Nat /\ Power[w - 1] <= t /\ t < Power[w]
  BY WidthIs DEF Targets, RulesHypothesis
<1> HIDE DEF w
<1>2. ASSUME NEW i \in Nat, NEW j \in Nat \ {0}, i < j, t < Power[i], Power[j - 1] <= t PROVE FALSE
  <2>1. i <= j - 1 /\ j - 1 \in Nat
    BY <1>2
  <2>2. Power[i] <= Power[j - 1] /\ Power[i] \in Nat /\ Power[j - 1] \in Nat
    BY <2>1, PowerGrows, PowerIs
  <2> QED BY <1>1, <1>2, <2>2
<1>3. ~ (w < n) /\ ~ (n < w)
  BY <1>1, <1>2
<1>4. w = n
  BY <1>1, <1>3
<1> QED BY <1>4 DEF w


LEMMA Quotient ==
  ASSUME NEW a \in Nat, NEW b \in Nat \ {0}
  PROVE  a \div b \in Nat /\ (a \div b) * b <= a /\ a < (a \div b + 1) * b
OBVIOUS

LEMMA QuotientIs ==
  ASSUME NEW a \in Nat, NEW b \in Nat \ {0}, NEW q \in Nat, q * b <= a, a < (q + 1) * b
  PROVE  a \div b = q
OBVIOUS

LEMMA Multiple ==
  ASSUME NEW a \in Nat, NEW b \in Nat \ {0}
  PROVE  a * b \in Nat /\ (a * b) \div b = a
OBVIOUS

LEMMA Larger ==
  ASSUME NEW a \in Nat, NEW b \in Nat, NEW c \in Nat, a <= b
  PROVE  a * c <= b * c /\ c * a <= c * b
OBVIOUS

\* What a compact form keeps of a target: no more than it, its width, all but the
\* digits cut off; and the form of that is the same.
LEMMA Compact ==
  ASSUME RulesHypothesis, NEW t \in Targets
  PROVE  LET d == Decode(Encode(t)) IN
         /\ d \in Targets /\ Encode(d) = Encode(t)
         /\ Ulp(d) \in Nat \ {0} /\ d <= t /\ t < d + Ulp(d)
<1> DEFINE n == Width(t)
<1>1. t \in Nat \ {0} /\ t < Power[MaxSize] /\ MaxSize \in Nat /\ Digits \in Nat \ {0}
  BY DEF Targets, RulesHypothesis
<1>2. n \in 1 .. MaxSize /\ n \in Nat \ {0} /\ n - 1 \in Nat /\ Power[n - 1] <= t /\ t < Power[n]
  <2>1. n \in 1 .. MaxSize /\ Power[n - 1] <= t /\ t < Power[n]
    BY WidthIs
  <2> HIDE DEF n
  <2> QED BY <1>1, <2>1
<1>3. CASE n <= Digits
  <2> DEFINE p == Power[Digits - n]
  <2>1. Encode(t) = [size |-> n, mantissa |-> t * p]
    BY <1>1, <1>2, <1>3 DEF Encode
  <2>2. p \in Nat \ {0}
    <3>1. Digits - n \in Nat
      BY <1>1, <1>2, <1>3
    <3> QED BY <3>1, PowerIs
  <2>3. Decode(Encode(t)) = t
    <3> HIDE DEF n, p
    <3>1. CASE n < Digits
      <4>1. Decode(Encode(t)) = (t * p) \div p
        BY <2>1, <3>1 DEF Decode, p
      <4> QED BY <1>1, <2>2, <4>1, Multiple
    <3>2. CASE n = Digits
      <4>1. n - Digits = 0 /\ Digits - n = 0
        BY <1>1, <3>2
      <4>2. p = 1
        BY <4>1, PowerIs DEF p
      <4>3. ~ (n < Digits) /\ Power[n - Digits] = 1
        BY <1>1, <3>2, <4>1, PowerIs
      <4>4. Decode(Encode(t)) = (t * p) * 1
        BY <2>1, <4>3 DEF Decode
      <4> QED BY <1>1, <4>2, <4>4
    <3> QED BY <1>1, <1>2, <1>3, <3>1, <3>2
  <2>4. Ulp(t) = 1
    BY <1>1, <1>2, <1>3 DEF Ulp
  <2> QED BY <1>1, <2>3, <2>4
<1>4. CASE n > Digits
  <2> DEFINE p == Power[n - Digits]
             m == t \div p
  <2>1. n - Digits \in Nat /\ Digits - 1 \in Nat
    BY <1>1, <1>2, <1>4
  <2>2. p \in Nat \ {0}
    BY <2>1, PowerIs
  <2>3. Encode(t) = [size |-> n, mantissa |-> m]
    BY <1>4 DEF Encode
  <2>4. Decode(Encode(t)) = m * p
    <3>1. ~ (n < Digits)
      BY <1>1, <1>2, <1>4
    <3> QED BY <2>3, <3>1 DEF Decode
  <2>5. m \in Nat /\ m * p <= t /\ t < (m + 1) * p
    <3> HIDE DEF p
    <3> QED BY <1>1, <2>2, Quotient
  <2>6. Power[n - 1] <= m * p
    <3> DEFINE q == Power[Digits - 1]
    <3>1. q \in Nat
      BY <2>1, PowerIs
    <3>2. (Digits - 1) + (n - Digits) = n - 1
      BY <1>1, <1>2
    <3>3. Power[n - 1] = q * p
      BY <2>1, <3>2, PowerAdds
    <3> HIDE DEF q, p, m, n
    <3>4. q <= m
      <4> SUFFICES ASSUME m + 1 <= q PROVE FALSE
        BY <2>5, <3>1
      <4>1. m + 1 \in Nat
        BY <2>5
      <4>2. (m + 1) * p <= q * p
        BY <2>2, <3>1, <4>1, Larger
      <4>3. (m + 1) * p \in Nat /\ q * p \in Nat
        BY <2>2, <3>1, <4>1
      <4>4. t < q * p
        BY <1>1, <2>5, <4>2, <4>3
      <4> QED BY <1>1, <1>2, <3>3, <4>3, <4>4
    <3> QED BY <2>2, <2>5, <3>1, <3>3, <3>4, Larger
  <2> DEFINE d == m * p
  <2>7. d \in Nat \ {0} /\ d <= t /\ d < Power[n] /\ Power[n - 1] <= d
    <3>1. Power[n - 1] \in Nat \ {0} /\ Power[n] \in Nat
      BY <1>2, PowerIs
    <3>2. m * p \in Nat
      BY <2>2, <2>5
    <3> HIDE DEF m, p, n
    <3> QED BY <1>1, <1>2, <2>5, <2>6, <3>1, <3>2
  <2>8. d \in Targets
    <3>1. Power[MaxSize] \in Nat
      BY <1>1, PowerIs
    <3> HIDE DEF d
    <3> QED BY <1>1, <2>7, <3>1 DEF Targets
  <2>9. Width(d) = n
    <3> HIDE DEF d, n
    <3> QED BY <1>2, <2>7, <2>8, WidthOnly
  <2>10. Encode(d) = Encode(t)
    <3>1. Encode(d) = [size |-> n, mantissa |-> d \div p]
      BY <1>4, <2>9 DEF Encode
    <3>2. d \div p = m
      <4> HIDE DEF m, p
      <4> QED BY <2>2, <2>5, Multiple
    <3> QED BY <2>3, <3>1, <3>2
  <2>11. Ulp(d) = p
    BY <1>4, <2>9 DEF Ulp
  <2>12. t < d + p
    <3> HIDE DEF m, p
    <3>1. (m + 1) * p = m * p + p
      BY <2>2, <2>5
    <3> QED BY <2>5, <3>1
  <2> HIDE DEF d
  <2>13. Decode(Encode(t)) = d
    BY <2>4 DEF d
  <2> QED BY <2>2, <2>7, <2>8, <2>10, <2>11, <2>12, <2>13
<1> QED BY <1>1, <1>2, <1>3, <1>4

-----------------------------------------------------------------------------
(* The reward, and its sum over the eras                                     *)

LEMMA RewardIs ==
  ASSUME RulesHypothesis
  PROVE  /\ RewardOfEra \in [Nat -> Nat]
         /\ RewardOfEra[0] = Initial
         /\ \A e \in Nat : RewardOfEra[e + 1] = (RewardOfEra[e] * 3) \div 4
<1> DEFINE step == [x \in Nat |-> (x * 3) \div 4]
<1>1. Initial \in Nat /\ step \in [Nat -> Nat]
  <2>1. \A x \in Nat : (x * 3) \div 4 \in Nat
    OBVIOUS
  <2> QED BY <2>1 DEF RulesHypothesis
<1>0. \E f : Recurs(f, Nat, Initial, step)
  <2> HIDE DEF step
  <2> QED BY <1>1, Recurrence
<1>2. PICK f \in [Nat -> Nat] : f[0] = Initial /\ \A n \in Nat : f[n + 1] = step[f[n]]
  BY <1>0 DEF Recurs
<1> DEFINE Is(g) == g = [e \in Nat |-> IF e = 0 THEN Initial ELSE (g[e - 1] * 3) \div 4]
<1>3. Is(f)
  <2>1. ASSUME NEW n \in Nat PROVE f[n] = IF n = 0 THEN Initial ELSE (f[n - 1] * 3) \div 4
    <3>1. CASE n # 0
      <4>1. n - 1 \in Nat /\ (n - 1) + 1 = n
        BY <3>1
      <4>2. f[(n - 1) + 1] = step[f[n - 1]] /\ f[n - 1] \in Nat
        BY <1>2, <4>1
      <4> QED BY <3>1, <4>1, <4>2
    <3> QED BY <1>2, <3>1
  <2>2. f = [n \in Nat |-> f[n]]
    BY <1>2
  <2> QED BY <2>1, <2>2
<1>4. Is(RewardOfEra)
  <2>1. RewardOfEra = CHOOSE g : Is(g)
    BY DEF RewardOfEra
  <2> HIDE DEF Is
  <2> QED BY <1>3, <2>1
<1>5. \A n \in Nat : RewardOfEra[n] = IF n = 0 THEN Initial ELSE (RewardOfEra[n - 1] * 3) \div 4
  BY <1>4
<1>6. RewardOfEra[0] = Initial
  BY <1>5
<1>7. \A n \in Nat : RewardOfEra[n + 1] = (RewardOfEra[n] * 3) \div 4
  <2>1. \A n \in Nat : n + 1 \in Nat /\ n + 1 # 0 /\ (n + 1) - 1 = n
    OBVIOUS
  <2> QED BY <1>5, <2>1
<1> DEFINE S == {n \in Nat : RewardOfEra[n] \in Nat}
<1>8. S = Nat
  <2>1. 0 \in S /\ S \in SUBSET Nat
    BY <1>1, <1>6
  <2>2. ASSUME NEW n \in S PROVE n + 1 \in S
    BY <1>7
  <2> HIDE DEF S
  <2> QED BY <2>1, <2>2, Induction
<1>9. RewardOfEra = [n \in Nat |-> RewardOfEra[n]]
  BY <1>4 DEF Is
<1>10. \A n \in Nat : RewardOfEra[n] \in Nat
  BY <1>8
<1>11. RewardOfEra \in [Nat -> Nat]
  BY <1>9, <1>10, Zenon
<1> QED BY <1>6, <1>7, <1>11

\* What the whole eras before one paid for each of their blocks.
EraSum(e) == Sum(RewardOfEra, 0 .. e - 1)

LEMMA EraSumIs ==
  ASSUME RulesHypothesis, NEW e \in Nat
  PROVE  EraSum(e) \in Nat /\ EraSum(e + 1) = EraSum(e) + RewardOfEra[e]
<1>1. IsFiniteSet(0 .. e - 1) /\ (\A x \in 0 .. e - 1 : RewardOfEra[x] \in Nat) /\ RewardOfEra[e] \in Nat
  <2>1. e - 1 \in Int /\ 0 \in Int
    OBVIOUS
  <2>2. IsFiniteSet(0 .. e - 1)
    BY <2>1, FS_Interval
  <2>3. (\A x \in 0 .. e - 1 : x \in Nat) /\ RewardOfEra[e] \in Nat
    BY RewardIs
  <2> QED BY <2>2, <2>3, RewardIs
<1>2. 0 .. (e + 1) - 1 = (0 .. e - 1) \cup {e} /\ e \notin 0 .. e - 1
  OBVIOUS
<1>3. Sum(RewardOfEra, 0 .. e - 1) \in Nat
  BY <1>1, SumNatural
<1>4. Sum(RewardOfEra, (0 .. e - 1) \cup {e}) = RewardOfEra[e] + Sum(RewardOfEra, 0 .. e - 1)
  <2>1. (\A x \in 0 .. e - 1 : RewardOfEra[x] \in Int) /\ RewardOfEra[e] \in Int
    BY <1>1
  <2> QED BY <1>1, <1>2, <2>1, SumAdd
<1>5. EraSum(e + 1) = Sum(RewardOfEra, (0 .. e - 1) \cup {e}) /\ EraSum(e) = Sum(RewardOfEra, 0 .. e - 1)
  BY <1>2 DEF EraSum
<1> QED BY <1>1, <1>3, <1>4, <1>5

\* They stay below the sum of the geometric series.
LEMMA EraSumBelow ==
  ASSUME RulesHypothesis
  PROVE  \A e \in Nat : EraSum(e) + 4 * RewardOfEra[e] <= 4 * Initial /\ EraSum(e) < 4 * Initial
<1> DEFINE S == {e \in Nat : EraSum(e) + 4 * RewardOfEra[e] <= 4 * Initial /\ EraSum(e) < 4 * Initial}
<1>1. 0 \in S
  <2>1. 0 .. 0 - 1 = {}
    OBVIOUS
  <2>2. EraSum(0) = 0
    BY <2>1, SumEmpty DEF EraSum
  <2>3. RewardOfEra[0] = Initial /\ Initial \in Nat \ {0}
    BY RewardIs DEF RulesHypothesis
  <2> QED BY <2>2, <2>3
<1>2. ASSUME NEW e \in S PROVE e + 1 \in S
  <2>1. e \in Nat /\ EraSum(e) + 4 * RewardOfEra[e] <= 4 * Initial /\ EraSum(e) < 4 * Initial
    BY <1>2
  <2>2. EraSum(e) \in Nat /\ EraSum(e + 1) = EraSum(e) + RewardOfEra[e]
    BY <2>1, EraSumIs
  <2>3. RewardOfEra[e] \in Nat /\ RewardOfEra[e + 1] = (RewardOfEra[e] * 3) \div 4
    BY <2>1, RewardIs
  <2>4. RewardOfEra[e + 1] \in Nat /\ RewardOfEra[e + 1] * 4 <= RewardOfEra[e] * 3
    BY <2>3
  <2>5. Initial \in Nat
    BY DEF RulesHypothesis
  <2> HIDE DEF S
  <2>6. EraSum(e + 1) + 4 * RewardOfEra[e + 1] <= 4 * Initial
    BY <2>1, <2>2, <2>3, <2>4, <2>5
  <2>7. EraSum(e + 1) < 4 * Initial
    BY <2>1, <2>2, <2>3, <2>5
  <2> QED BY <2>1, <2>6, <2>7 DEF S
<1>3. S = Nat
  <2>1. S \in SUBSET Nat
    OBVIOUS
  <2> HIDE DEF S
  <2> QED BY <1>1, <1>2, <2>1, Induction
<1> QED BY <1>3

\* Its eras and its own rewards add up to what has been emitted below a height.
LEMMA SupplyIs ==
  ASSUME RulesHypothesis, NEW h \in Nat \ {0}
  PROVE  LET e == Era(h - 1)  before == EraSum(e) * EraLength
             rest == h - e * EraLength
         IN  /\ e \in Nat /\ rest \in 1 .. EraLength
             /\ Supply(h) = before + RewardOfEra[e] * rest
             /\ Supply(h) < HardCap
<1> DEFINE e == Era(h - 1)
           rest == h - e * EraLength
           emitted == [x \in 0 .. e |-> RewardOfEra[x] * AtMost(EraLength, h - x * EraLength)]
<1>1. EraLength \in Nat \ {0} /\ Initial \in Nat \ {0} /\ h - 1 \in Nat
  BY DEF RulesHypothesis
<1>2. e \in Nat /\ e * EraLength <= h - 1 /\ h - 1 < (e + 1) * EraLength
  <2> DEFINE k == h - 1
  <2>1. k \in Nat /\ e = k \div EraLength
    BY <1>1 DEF Era
  <2> HIDE DEF k, e
  <2>2. e \in Nat /\ e * EraLength <= k /\ k < (e + 1) * EraLength
    BY <1>1, <2>1, Quotient
  <2> QED BY <2>2 DEF k
<1>3. rest \in 1 .. EraLength
  <2> HIDE DEF e
  <2>1. (e + 1) * EraLength = e * EraLength + EraLength /\ e * EraLength \in Nat
    BY <1>1, <1>2
  <2> QED BY <1>1, <1>2, <2>1
<1>4. ASSUME NEW x \in 0 .. e - 1
      PROVE  AtMost(EraLength, h - x * EraLength) = EraLength
  <2> HIDE DEF e
  <2>1. x \in Nat /\ x + 1 \in Nat /\ x + 1 <= e
    BY <1>2
  <2>2. (x + 1) * EraLength <= e * EraLength
    BY <1>1, <1>2, <2>1, Larger
  <2>3. (x + 1) * EraLength = x * EraLength + EraLength /\ x * EraLength \in Nat /\ e * EraLength \in Nat
    BY <1>1, <1>2, <2>1
  <2>4. EraLength < h - x * EraLength
    BY <1>1, <1>2, <2>2, <2>3
  <2> QED BY <2>4 DEF AtMost
<1>5. AtMost(EraLength, rest) = rest
  <2> HIDE DEF rest
  <2> QED BY <1>1, <1>3 DEF AtMost
<1>6. Sum(emitted, 0 .. e) = RewardOfEra[e] * rest + EraLength * EraSum(e)
  <2>1. IsFiniteSet(0 .. e) /\ IsFiniteSet(0 .. e - 1) /\ e \in 0 .. e /\ (0 .. e) \ {e} = 0 .. e - 1
    <3> HIDE DEF e, rest, emitted
    <3>1. e \in Int /\ e - 1 \in Int /\ 0 \in Int
      BY <1>2
    <3>2. e \in 0 .. e /\ (0 .. e) \ {e} = 0 .. e - 1
      BY <1>2
    <3> QED BY <3>1, <3>2, FS_Interval
  <2>2. \A x \in 0 .. e : RewardOfEra[x] \in Int
    <3> HIDE DEF e
    <3> QED BY <1>2, RewardIs
  <2>3. emitted[e] = RewardOfEra[e] * rest
    <3> HIDE DEF e
    <3> QED BY <1>5, <2>1
  <2>4. \A x \in 0 .. e - 1 : emitted[x] = RewardOfEra[x] * EraLength /\ x \in 0 .. e
    <3>1. \A x \in 0 .. e - 1 : x \in 0 .. e
      BY <2>1
    <3> HIDE DEF e
    <3> QED BY <1>4, <3>1
  <2> HIDE DEF emitted, rest, e
  <2>5. \A x \in 0 .. e : emitted[x] \in Int
    <3>1. RewardOfEra[e] * rest \in Int
      BY <1>1, <1>3, <2>1, <2>2
    <3>2. \A x \in 0 .. e - 1 : RewardOfEra[x] * EraLength \in Int
      BY <1>1, <2>2, <2>4
    <3>3. \A x \in 0 .. e : x = e \/ x \in 0 .. e - 1
      BY <2>1
    <3> QED BY <2>3, <2>4, <3>1, <3>2, <3>3
  <2>6. Sum(emitted, 0 .. e) = emitted[e] + Sum(emitted, 0 .. e - 1)
    BY <2>1, <2>5, SumRemove
  <2>7. Sum(emitted, 0 .. e - 1) = EraLength * Sum(RewardOfEra, 0 .. e - 1)
    <3>1. EraLength \in Int
      BY <1>1
    <3>2. \A x \in 0 .. e - 1 : RewardOfEra[x] \in Int /\ emitted[x] = EraLength * RewardOfEra[x]
      BY <2>2, <2>4, <3>1
    <3> DEFINE below == 0 .. e - 1
    <3>3. IsFiniteSet(below) /\ \A x \in below : RewardOfEra[x] \in Int /\ emitted[x] = EraLength * RewardOfEra[x]
      BY <2>1, <3>2
    <3> HIDE DEF below
    <3>4. Sum(emitted, below) = EraLength * Sum(RewardOfEra, below)
      BY <3>1, <3>3, SumScales
    <3> QED BY <3>4 DEF below
  <2> QED BY <2>3, <2>6, <2>7 DEF EraSum
<1>7. EraSum(e) \in Nat /\ RewardOfEra[e] \in Nat /\ EraSum(e) + RewardOfEra[e] < 4 * Initial
  <2> HIDE DEF e
  <2>1. EraSum(e) \in Nat /\ EraSum(e + 1) = EraSum(e) + RewardOfEra[e] /\ RewardOfEra[e] \in Nat
    BY <1>2, EraSumIs, RewardIs
  <2>2. e + 1 \in Nat /\ EraSum(e + 1) < 4 * Initial
    BY <1>2, EraSumBelow
  <2> QED BY <2>1, <2>2
<1>8. RewardOfEra[e] * rest + EraLength * EraSum(e) < 4 * Initial * EraLength
  <2> DEFINE r == RewardOfEra[e]
             s == EraSum(e)
  <2> HIDE DEF r, s, rest
  <2>1. r \in Nat /\ s \in Nat /\ r + s + 1 <= 4 * Initial /\ rest \in Nat /\ rest <= EraLength
    BY <1>1, <1>3, <1>7 DEF r, s
  <2>2. r * rest <= r * EraLength
    BY <1>1, <2>1, Larger
  <2>3. (r + s + 1) * EraLength <= (4 * Initial) * EraLength
    BY <1>1, <2>1, Larger
  <2>4. (r + s + 1) * EraLength = r * EraLength + EraLength * s + EraLength
    BY <1>1, <2>1
  <2>5. r * EraLength \in Nat /\ EraLength * s \in Nat /\ r * rest \in Nat /\ (4 * Initial) * EraLength \in Nat
    BY <1>1, <2>1
  <2>6. r * rest + EraLength * s < (4 * Initial) * EraLength
    BY <1>1, <2>2, <2>3, <2>4, <2>5
  <2> QED BY <2>6 DEF r, s
<1>9. AtLeast(0, h - 1) = h - 1
  BY <1>1 DEF AtLeast
<1>10. Supply(h) = AtMost(HardCap, Sum(emitted, 0 .. e))
  <2>1. DOMAIN emitted = 0 .. e
    OBVIOUS
  <2>2. SumFunction(emitted) = Sum(emitted, 0 .. e)
    BY <2>1, SumIs
  <2>3. Supply(h) = AtMost(HardCap, SumFunction(emitted))
    BY <1>9 DEF Supply
  <2> QED BY <2>2, <2>3
<1> DEFINE total == RewardOfEra[e] * rest + EraLength * EraSum(e)
<1>11. Supply(h) = AtMost(HardCap, total) /\ total < HardCap
  BY <1>6, <1>8, <1>10 DEF HardCap
<1>12. total \in Int /\ HardCap \in Int /\ total = EraSum(e) * EraLength + RewardOfEra[e] * rest
  <2> DEFINE r == RewardOfEra[e]
             s == EraSum(e)
  <2>1. r \in Nat /\ s \in Nat /\ rest \in Nat
    BY <1>1, <1>3, <1>7
  <2> HIDE DEF r, s, rest
  <2>2. r * rest + EraLength * s = s * EraLength + r * rest /\ r * rest + EraLength * s \in Int
    BY <1>1, <2>1
  <2> QED BY <1>1, <2>2 DEF r, s, HardCap
<1>13. Supply(h) = total
  <2> HIDE DEF total
  <2> QED BY <1>11, <1>12 DEF AtMost
<1> HIDE DEF total, rest, e
<1>14. Supply(h) = EraSum(e) * EraLength + RewardOfEra[e] * rest
  BY <1>12, <1>13
<1> QED BY <1>2, <1>3, <1>11, <1>13, <1>14 DEF e, rest

LEMMA SupplyGrows ==
  ASSUME RulesHypothesis, NEW h \in Nat \ {0}
  PROVE  /\ Supply(h) \in Nat /\ Reward(h) \in Nat
         /\ Supply(h + 1) = Supply(h) + Reward(h)
<1> DEFINE e == Era(h - 1)
           x == Era(h)
           r == h - e * EraLength
           y == (h + 1) - x * EraLength
<1>1. EraLength \in Nat \ {0} /\ h + 1 \in Nat \ {0} /\ (h + 1) - 1 = h
  BY DEF RulesHypothesis
<1>2. e \in Nat /\ r \in 1 .. EraLength /\ Supply(h) = EraSum(e) * EraLength + RewardOfEra[e] * r
  BY SupplyIs
<1>3. x \in Nat /\ y \in 1 .. EraLength /\ Supply(h + 1) = EraSum(x) * EraLength + RewardOfEra[x] * y
  <2> DEFINE k == h + 1
  <2>1. k \in Nat \ {0} /\ k - 1 = h
    BY <1>1
  <2> HIDE DEF k
  <2>2. LET z == Era(k - 1) IN
        /\ z \in Nat /\ k - z * EraLength \in 1 .. EraLength
        /\ Supply(k) = EraSum(z) * EraLength + RewardOfEra[z] * (k - z * EraLength)
    BY <2>1, SupplyIs
  <2> QED BY <2>1, <2>2 DEF k
<1> HIDE DEF e, x
<1>4. RewardOfEra[e] \in Nat /\ RewardOfEra[x] \in Nat /\ EraSum(e) \in Nat
      /\ EraSum(x) \in Nat /\ EraSum(e + 1) = EraSum(e) + RewardOfEra[e]
  BY <1>2, <1>3, RewardIs, EraSumIs
<1>5. x = e \/ (x = e + 1 /\ r = EraLength /\ y = 1)
  <2> DEFINE a == e * EraLength
             b == x * EraLength
  <2>1. a \in Nat /\ b \in Nat /\ h - a >= 1 /\ h - a <= EraLength /\ (h + 1) - b >= 1 /\ (h + 1) - b <= EraLength
    BY <1>1, <1>2, <1>3
  <2>2. CASE x < e
    <3>1. (x + 1) * EraLength <= a /\ (x + 1) * EraLength = b + EraLength
      BY <1>1, <1>2, <1>3, <2>2, Larger
    <3> HIDE DEF a, b
    <3> QED BY <1>1, <2>1, <3>1
  <2>3. CASE x > e
    <3>1. (e + 1) * EraLength <= b /\ (e + 1) * EraLength = a + EraLength
      BY <1>1, <1>2, <1>3, <2>3, Larger
    <3>2. h - a = EraLength /\ b = a + EraLength
      <4> HIDE DEF a, b
      <4> QED BY <1>1, <2>1, <3>1
    <3>3. x = e + 1
      <4> SUFFICES ASSUME e + 2 <= x PROVE FALSE
        BY <1>2, <1>3, <2>3
      <4>1. (e + 2) * EraLength <= b
        BY <1>1, <1>2, <1>3, Larger
      <4>2. (e + 2) * EraLength = a + EraLength + EraLength
        BY <1>1, <1>2
      <4> HIDE DEF a, b
      <4> QED BY <1>1, <2>1, <3>2, <4>1, <4>2
    <3>4. y = 1
      <4>1. y = (h + 1) - b
        OBVIOUS
      <4> HIDE DEF a, b, y
      <4> QED BY <1>1, <2>1, <3>2, <4>1
    <3> QED BY <3>2, <3>3, <3>4
  <2> QED BY <1>2, <1>3, <2>2, <2>3
<1>6. Reward(h) = RewardOfEra[x]
  BY DEF Reward, x
<1>7. Supply(h) \in Nat
  <2> HIDE DEF r
  <2> QED BY <1>1, <1>2, <1>4
<1>8. CASE x = e
  <2>1. y = r + 1
    BY <1>1, <1>2, <1>8
  <2> HIDE DEF r, y
  <2>2. RewardOfEra[e] * y = RewardOfEra[e] * r + RewardOfEra[e]
    <3>1. r \in Nat
      BY <1>1, <1>2
    <3>2. \A a, b \in Nat : a * (b + 1) = a * b + a
      OBVIOUS
    <3> QED BY <1>4, <2>1, <3>1, <3>2
  <2>3. RewardOfEra[e] * r \in Nat /\ EraSum(e) * EraLength \in Nat
    BY <1>1, <1>2, <1>4
  <2> QED BY <1>2, <1>3, <1>4, <1>6, <1>7, <1>8, <2>2, <2>3
<1>9. CASE x = e + 1 /\ r = EraLength /\ y = 1
  <2> HIDE DEF r, y
  <2>1. EraSum(x) * EraLength = EraSum(e) * EraLength + RewardOfEra[e] * EraLength
    BY <1>1, <1>4, <1>9
  <2>2. RewardOfEra[x] * y = RewardOfEra[x]
    BY <1>4, <1>9
  <2> QED BY <1>2, <1>3, <1>4, <1>6, <1>7, <1>9, <2>1, <2>2
<1> QED BY <1>4, <1>5, <1>6, <1>7, <1>8, <1>9

LEMMA SupplyStarts ==
  ASSUME RulesHypothesis
  PROVE  Supply(1) = Reward(0) /\ Reward(0) \in Nat
<1>1. EraLength \in Nat \ {0}
  BY DEF RulesHypothesis
<1>2. 0 * EraLength <= 0 /\ 0 < (0 + 1) * EraLength
  BY <1>1
<1>3. Era(0) = 0
  BY <1>1, <1>2, QuotientIs DEF Era
<1>4. EraSum(0) = 0
  <2>1. 0 .. 0 - 1 = {}
    OBVIOUS
  <2> QED BY <2>1, SumEmpty DEF EraSum
<1>5. 1 - 1 = 0 /\ 1 \in Nat \ {0}
  OBVIOUS
<1>6. Supply(1) = EraSum(Era(0)) * EraLength + RewardOfEra[Era(0)] * (1 - Era(0) * EraLength)
  BY <1>5, SupplyIs
<1>7. RewardOfEra[0] \in Nat
  BY RewardIs
<1>8. Supply(1) = RewardOfEra[0]
  BY <1>1, <1>3, <1>4, <1>6, <1>7
<1> QED BY <1>3, <1>7, <1>8 DEF Reward

-----------------------------------------------------------------------------
(* Retargeting                                                               *)

LEMMA ClampedIs ==
  ASSUME RulesHypothesis, NEW span \in Int
  PROVE  /\ TargetSpan \in Nat \ {0} /\ Clamped(span) \in Nat \ {0}
         /\ TargetSpan <= 4 * Clamped(span) /\ Clamped(span) <= 4 * TargetSpan
<1>1. TargetSpan \in Nat \ {0} /\ TargetSpan % 4 = 0
  <2>1. Window \in Nat \ {0} /\ Interval \in Nat \ {0} /\ (Window * Interval) % 4 = 0
    BY DEF RulesHypothesis
  <2> QED BY <2>1 DEF TargetSpan
<1> DEFINE q == TargetSpan \div 4
<1>2. q \in Nat \ {0} /\ TargetSpan = 4 * q
  <2> HIDE DEF RulesHypothesis
  <2> QED BY <1>1
<1> QED BY <1>1, <1>2 DEF Clamped, AtLeast, AtMost

\* The next target before it is written in its compact form.
NextOf(t, span) == IF policy = "pilot" THEN PilotTarget(t, span) ELSE NextTarget(t, span)

LEMMA ExactTarget ==
  ASSUME RulesHypothesis, NEW t \in Nat \ {0}, NEW span \in Int
  PROVE  LET n == NextTarget(t, span)  c == Clamped(span) IN
         /\ n \in Nat \ {0} /\ n <= 4 * t /\ t < 4 * (n + 1)
         /\ n * c <= AtLeast(c, t * TargetSpan)
         /\ \A m \in Nat : n < m => t * TargetSpan < m * c
<1> DEFINE c == Clamped(span)
           T == TargetSpan
           q == (t * T) \div c
           n == NextTarget(t, span)
<1>1. T \in Nat \ {0} /\ c \in Nat \ {0} /\ T <= 4 * c /\ c <= 4 * T
  BY ClampedIs
<1>2. n = AtLeast(1, q)
  BY DEF NextTarget
<1>3. t * T \in Nat
  BY <1>1
<1> HIDE DEF c, T, n
<1>4. q \in Nat /\ q * c <= t * T /\ t * T < (q + 1) * c
  <2> DEFINE a == t * T
  <2>1. a \in Nat
    BY <1>3
  <2> HIDE DEF a
  <2>2. a \div c \in Nat /\ (a \div c) * c <= a /\ a < (a \div c + 1) * c
    BY <1>1, <2>1, Quotient
  <2> QED BY <2>2 DEF a
<1> HIDE DEF q
<1>5. n \in Nat \ {0} /\ q <= n /\ (n = q \/ (n = 1 /\ q = 0))
  BY <1>2, <1>4 DEF AtLeast
<1>6. n <= 4 * t
  <2> SUFFICES ASSUME 4 * t + 1 <= q PROVE FALSE
    BY <1>4, <1>5
  <2>1. (4 * t + 1) * c <= q * c
    BY <1>1, <1>4, Larger
  <2>2. t * T <= t * (4 * c)
    BY <1>1, Larger
  <2>3. t * (4 * c) = 4 * (t * c) /\ (4 * t + 1) * c = 4 * (t * c) + c /\ t * c \in Nat
    BY <1>1
  <2>4. q * c \in Nat
    BY <1>1, <1>4
  <2> QED BY <1>1, <1>3, <1>4, <2>1, <2>2, <2>3, <2>4
<1>7. t < 4 * (n + 1)
  <2>1. t < 4 * (q + 1)
    <3> SUFFICES ASSUME 4 * (q + 1) <= t PROVE FALSE
      BY <1>4
    <3>1. 4 * (q + 1) \in Nat /\ q + 1 \in Nat
      BY <1>4
    <3>2. (4 * (q + 1)) * T <= t * T
      BY <1>1, <3>1, Larger
    <3>3. (q + 1) * c <= (q + 1) * (4 * T)
      BY <1>1, <3>1, Larger
    <3>4. (q + 1) * (4 * T) = (4 * (q + 1)) * T /\ (q + 1) * (4 * T) \in Nat /\ (q + 1) * c \in Nat
      BY <1>1, <3>1
    <3> QED BY <1>3, <1>4, <3>2, <3>3, <3>4
  <2> QED BY <1>4, <1>5, <2>1
<1>8. n * c <= AtLeast(c, t * T)
  <2>1. CASE n = q
    BY <1>1, <1>3, <1>4, <2>1 DEF AtLeast
  <2>2. CASE n = 1
    BY <1>1, <1>3, <2>2 DEF AtLeast
  <2> QED BY <1>5, <2>1, <2>2
<1>9. ASSUME NEW m \in Nat, n < m PROVE t * T < m * c
  <2>1. q + 1 <= m /\ q + 1 \in Nat
    BY <1>4, <1>5, <1>9
  <2>2. (q + 1) * c <= m * c /\ (q + 1) * c \in Nat /\ m * c \in Nat
    BY <1>1, <2>1, Larger
  <2> QED BY <1>3, <1>4, <2>2
<1> QED BY <1>5, <1>6, <1>7, <1>8, <1>9 DEF n, c, T

\* The pilot's rounding is off by at most half of one of its units.
LEMMA RoundedTarget ==
  ASSUME RulesHypothesis, NEW t \in Nat \ {0}, NEW span \in Int
  PROVE  LET n == PilotTarget(t, span)  cent == Scale \div Cents IN
         /\ cent \in Nat \ {0} /\ cent <= Scale
         /\ n \in Nat \ {0} /\ n <= AtLeast(4 * t + cent, Scale) /\ t <= 4 * (n + cent)
<1> DEFINE c == Clamped(span)
           T == TargetSpan
           k == Scale \div Cents
           over == c * Scale
           a == 2 * t * T * Cents + over
           cents == a \div (2 * over)
           v == cents * k
           n == PilotTarget(t, span)
<1>1. T \in Nat \ {0} /\ c \in Nat \ {0} /\ T <= 4 * c /\ c <= 4 * T
  BY ClampedIs
<1>2. Scale \in Nat \ {0} /\ Cents \in Nat \ {0} /\ Scale % Cents = 0
  BY DEF RulesHypothesis
<1>3. k \in Nat \ {0} /\ Scale = k * Cents /\ k <= Scale
  <2>1. k \in Nat /\ Scale = k * Cents
    BY <1>2
  <2> HIDE DEF k
  <2>2. k # 0
    BY <1>2, <2>1
  <2> QED BY <1>2, <2>1, <2>2
<1>4. n = AtLeast(Scale, (cents * Scale) \div Cents)
  BY DEF PilotTarget
<1> HIDE DEF c, T, k, n
<1>5. over \in Nat \ {0} /\ a \in Nat
  <2>1. over \in Nat \ {0}
    BY <1>1, <1>2
  <2>2. 2 * t * T * Cents \in Nat
    <3>1. 2 * t * T \in Nat
      BY <1>1
    <3> DEFINE w == 2 * t * T
    <3> HIDE DEF w
    <3> QED BY <1>2, <3>1 DEF w
  <2> HIDE DEF over
  <2> QED BY <2>1, <2>2
<1>6. cents \in Nat /\ cents * (2 * over) <= a /\ a < (cents + 1) * (2 * over)
  <2> HIDE DEF over, a
  <2>1. 2 * over \in Nat \ {0}
    BY <1>5
  <2> DEFINE b == 2 * over
  <2>2. b \in Nat \ {0} /\ cents = a \div b
    BY <2>1
  <2> HIDE DEF b, cents
  <2>3. cents \in Nat /\ cents * b <= a /\ a < (cents + 1) * b
    BY <1>5, <2>2, Quotient
  <2> QED BY <2>3 DEF b
<1> HIDE DEF cents
<1>7. (cents * Scale) \div Cents = v /\ v \in Nat
  <2>1. v \in Nat
    BY <1>3, <1>6
  <2>2. cents * Scale = v * Cents
    BY <1>2, <1>3, <1>6
  <2> HIDE DEF v
  <2>3. (v * Cents) \div Cents = v
    BY <1>2, <2>1, Multiple
  <2> QED BY <2>1, <2>2, <2>3
<1>8. n = AtLeast(Scale, v)
  BY <1>4, <1>7
\* Both bounds, divided by what they share.
<1>9. 2 * (c * v) <= 2 * (t * T) + c * k /\ 2 * (t * T) < 2 * (c * v) + c * k
  <2> DEFINE x == c * v
             y == t * T
             z == c * k
  <2>1. x \in Nat /\ y \in Nat /\ z \in Nat
    BY <1>1, <1>3, <1>7
  <2>2. a = (2 * y + z) * Cents
    <3>1. over = z * Cents
      <4>1. c * (k * Cents) = (c * k) * Cents
        BY <1>1, <1>2, <1>3
      <4> QED BY <1>3, <4>1
    <3>2. 2 * t * T * Cents = (2 * y) * Cents
      <4>1. 2 * t * T = 2 * y
        BY <1>1
      <4> QED BY <4>1
    <3>3. a = (2 * y) * Cents + z * Cents
      BY <3>1, <3>2
    <3> HIDE DEF x, y, z, a
    <3>4. (2 * y) * Cents + z * Cents = (2 * y + z) * Cents
      BY <1>2, <2>1
    <3> QED BY <3>3, <3>4
  <2>3. cents * (2 * over) = (2 * x) * Cents
    <3>1. over = c * (k * Cents)
      BY <1>3
    <3> HIDE DEF over
    <3>2. over = (c * k) * Cents
      BY <1>1, <1>2, <1>3, <3>1
    <3>3. cents * (2 * over) = 2 * ((cents * (c * k)) * Cents)
      <4> DEFINE p == c * k
      <4>1. p \in Nat /\ over = p * Cents
        BY <1>1, <1>3, <3>2
      <4> HIDE DEF p
      <4>2. cents * (2 * over) = 2 * ((cents * p) * Cents)
        BY <1>2, <1>6, <4>1
      <4> QED BY <4>2 DEF p
    <3>4. cents * (c * k) = x
      BY <1>1, <1>3, <1>6
    <3>5. cents * (2 * over) = 2 * (x * Cents)
      BY <3>3, <3>4
    <3> HIDE DEF x
    <3> QED BY <1>2, <2>1, <3>5
  <2>4. 2 * over = (2 * z) * Cents
    <3>1. over = c * (k * Cents)
      BY <1>3
    <3>2. c * (k * Cents) = z * Cents
      BY <1>1, <1>2, <1>3
    <3> HIDE DEF over, z
    <3> QED BY <1>2, <2>1, <3>1, <3>2
  <2>5. (cents + 1) * (2 * over) = (2 * x + 2 * z) * Cents
    <3>1. (cents + 1) * (2 * over) = cents * (2 * over) + 2 * over
      <4> HIDE DEF over
      <4> QED BY <1>5, <1>6
    <3>2. (cents + 1) * (2 * over) = (2 * x) * Cents + (2 * z) * Cents
      BY <2>3, <2>4, <3>1
    <3> HIDE DEF x, z, over
    <3>3. (2 * x) * Cents + (2 * z) * Cents = (2 * x + 2 * z) * Cents
      BY <1>2, <2>1
    <3> QED BY <3>2, <3>3
  <2> DEFINE f == 2 * x
             g == 2 * y + z
             h == 2 * x + 2 * z
  <2>6. f \in Nat /\ g \in Nat /\ h \in Nat
    <3> HIDE DEF x, y, z
    <3> QED BY <2>1
  <2>7. f * Cents <= g * Cents /\ g * Cents < h * Cents
    BY <1>6, <2>2, <2>3, <2>5
  <2> HIDE DEF f, g, h
  <2>8. f <= g
    <3> SUFFICES ASSUME g + 1 <= f PROVE FALSE
      BY <2>6
    <3>1. (g + 1) * Cents <= f * Cents /\ (g + 1) * Cents = g * Cents + Cents /\ g * Cents \in Nat
      BY <1>2, <2>6, Larger
    <3>2. f * Cents \in Nat
      BY <1>2, <2>6
    <3> QED BY <1>2, <2>7, <3>1, <3>2
  <2>9. g < h
    <3> SUFFICES ASSUME h <= g PROVE FALSE
      BY <2>6
    <3>1. h * Cents <= g * Cents /\ h * Cents \in Nat /\ g * Cents \in Nat
      BY <1>2, <2>6, Larger
    <3> QED BY <2>7, <3>1
  <2>10. 2 * x <= 2 * y + z /\ 2 * y + z < 2 * x + 2 * z
    BY <2>8, <2>9 DEF f, g, h
  <2> HIDE DEF x, y, z
  <2>11. 2 * x <= 2 * y + z /\ 2 * y < 2 * x + z
    BY <2>1, <2>10
  <2> QED BY <2>11 DEF x, y, z
<1> HIDE DEF v, over, a
<1>10. v <= 4 * t + k
  <2> SUFFICES ASSUME 4 * t + k + 1 <= v PROVE FALSE
    BY <1>3, <1>7
  <2>1. c * (4 * t + k + 1) <= c * v
    <3>1. 4 * t + k + 1 \in Nat
      BY <1>3
    <3> QED BY <1>1, <1>7, <3>1, Larger
  <2>2. c * (4 * t + k + 1) = 4 * (c * t) + c * k + c
    BY <1>1, <1>3
  <2>3. t * T <= t * (4 * c) /\ t * (4 * c) = 4 * (c * t)
    BY <1>1, Larger
  <2>4. c * t \in Nat /\ c * k \in Nat /\ c * v \in Nat /\ t * T \in Nat
    BY <1>1, <1>3, <1>7
  <2> DEFINE x == c * v
             y == t * T
             z == c * k
             u == c * t
  <2>5. 4 * u + z + c <= x /\ y <= 4 * u /\ 2 * x <= 2 * y + z
        /\ x \in Nat /\ y \in Nat /\ z \in Nat /\ u \in Nat
    BY <1>9, <2>1, <2>2, <2>3, <2>4
  <2> HIDE DEF x, y, z, u
  <2> QED BY <1>1, <2>5
<1>11. t <= 4 * (v + k)
  <2> SUFFICES ASSUME 4 * (v + k) + 1 <= t PROVE FALSE
    BY <1>3, <1>7
  <2>1. (4 * (v + k) + 1) * T <= t * T
    <3>1. 4 * (v + k) + 1 \in Nat
      BY <1>3, <1>7
    <3> QED BY <1>1, <3>1, Larger
  <2>2. (4 * (v + k) + 1) * T = 4 * (v * T) + 4 * (k * T) + T
    BY <1>1, <1>3, <1>7
  <2>3. c * v <= (4 * T) * v /\ (4 * T) * v = 4 * (v * T)
    BY <1>1, <1>7, Larger
  <2>4. c * k <= (4 * T) * k /\ (4 * T) * k = 4 * (k * T)
    BY <1>1, <1>3, Larger
  <2>5. c * v \in Nat /\ c * k \in Nat /\ t * T \in Nat /\ v * T \in Nat /\ k * T \in Nat
    BY <1>1, <1>3, <1>7
  <2> DEFINE x == c * v
             y == t * T
             z == c * k
             u == v * T
             w == k * T
  <2>6. 4 * u + 4 * w + T <= y /\ x <= 4 * u /\ z <= 4 * w /\ 2 * y < 2 * x + z
        /\ x \in Nat /\ y \in Nat /\ z \in Nat /\ u \in Nat /\ w \in Nat
    BY <1>9, <2>1, <2>2, <2>3, <2>4, <2>5
  <2> HIDE DEF x, y, z, u, w
  <2> QED BY <1>1, <2>6
<1>12. n \in Nat \ {0} /\ n <= AtLeast(4 * t + k, Scale) /\ t <= 4 * (n + k)
  <2>1. n \in Nat \ {0} /\ v <= n
    BY <1>2, <1>7, <1>8 DEF AtLeast
  <2>2. n <= AtLeast(4 * t + k, Scale)
    BY <1>2, <1>3, <1>7, <1>8, <1>10 DEF AtLeast
  <2> QED BY <1>3, <1>7, <1>11, <2>1, <2>2
<1> QED BY <1>3, <1>12 DEF n, k

\* What a whole window makes of a target, as RetargetBounded has it.
Moved(old, new, span) ==
  /\ new <= AtLeast(4 * old + Cent, Scale)
  /\ 4 * (new + Ulp(new) + Cent) >= old
  /\ policy = "exact" =>
       /\ new * Clamped(span) <= AtLeast(Clamped(span), old * TargetSpan)
       /\ (new + Ulp(new)) * Clamped(span) > old * TargetSpan

\* A compact form that is the form of its own target.
Fits(bits) == Decode(bits) \in Targets /\ Encode(Decode(bits)) = bits

LEMMA Retargets ==
  ASSUME RulesHypothesis, NEW bits, Fits(bits), NEW span \in Int,
         4 * Decode(bits) + Scale < Power[MaxSize], policy \in {"pilot", "exact"}
  PROVE  /\ Fits(NextBits(bits, span))
         /\ Moved(Decode(bits), Decode(NextBits(bits, span)), span)
<1> DEFINE t == Decode(bits)
           n == IF policy = "pilot" THEN PilotTarget(t, span) ELSE NextTarget(t, span)
           d == Decode(Encode(n))
           c == Clamped(span)
<1>1. NextBits(bits, span) = Encode(n)
  BY DEF NextBits
<1>2. t \in Nat \ {0} /\ Power[MaxSize] \in Nat /\ Scale \in Nat \ {0} /\ Cents \in Nat \ {0}
  <2>1. MaxSize \in Nat
    BY DEF RulesHypothesis
  <2> QED BY <2>1, PowerIs DEF Fits, Targets, RulesHypothesis
<1> HIDE DEF t
<1>3. /\ n \in Nat \ {0} /\ Cent \in Nat /\ Cent <= Scale
      /\ n <= AtLeast(4 * t + Cent, Scale) /\ t <= 4 * (n + 1 + Cent)
  <2>1. CASE policy = "pilot"
    <3> DEFINE p == PilotTarget(t, span)
    <3>1. /\ Cent \in Nat \ {0} /\ Cent <= Scale /\ n = p
          /\ p \in Nat \ {0} /\ p <= AtLeast(4 * t + Cent, Scale) /\ t <= 4 * (p + Cent)
      BY <1>2, <2>1, RoundedTarget DEF Cent
    <3> HIDE DEF p, n
    <3> QED BY <1>2, <3>1
  <2>2. CASE policy # "pilot"
    <3> DEFINE p == NextTarget(t, span)
    <3>1. Cent = 0 /\ n = p
      BY <2>2 DEF Cent
    <3>2. p \in Nat \ {0} /\ p <= 4 * t /\ t < 4 * (p + 1)
      BY <1>2, ExactTarget
    <3> HIDE DEF p, n
    <3>3. n <= AtLeast(4 * t + Cent, Scale)
      BY <1>2, <3>1, <3>2 DEF AtLeast
    <3> QED BY <1>2, <3>1, <3>2, <3>3
  <2> QED BY <2>1, <2>2
<1>4. n \in Targets
  <2>1. 4 * t + Scale < Power[MaxSize]
    BY DEF t
  <2> HIDE DEF n
  <2>2. n < Power[MaxSize]
    BY <1>2, <1>3, <2>1 DEF AtLeast
  <2> QED BY <1>3, <2>2 DEF Targets
<1>5. d \in Targets /\ Encode(d) = Encode(n) /\ Ulp(d) \in Nat \ {0} /\ d <= n /\ n < d + Ulp(d)
  <2> HIDE DEF n
  <2> QED BY <1>4, Compact
<1>6. Fits(Encode(n))
  BY <1>5 DEF Fits
<1>7. d \in Nat \ {0}
  <2> HIDE DEF d
  <2> QED BY <1>5 DEF Targets
<1>8. d <= AtLeast(4 * t + Cent, Scale) /\ 4 * (d + Ulp(d) + Cent) >= t
  <2> DEFINE u == Ulp(d)
             b == AtLeast(4 * t + Cent, Scale)
  <2>1. b \in Nat
    BY <1>2, <1>3 DEF AtLeast
  <2>2. n <= b /\ d <= n /\ n + 1 <= d + u /\ u \in Nat
    BY <1>3, <1>5, <1>7
  <2> HIDE DEF n, d, u, b
  <2>3. d <= b /\ 4 * (d + u + Cent) >= t
    BY <1>2, <1>3, <1>7, <2>1, <2>2
  <2> QED BY <2>3 DEF u, b
<1>9. policy = "exact" => d * c <= AtLeast(c, t * TargetSpan) /\ (d + Ulp(d)) * c > t * TargetSpan
  <2> SUFFICES ASSUME policy = "exact"
               PROVE  d * c <= AtLeast(c, t * TargetSpan) /\ (d + Ulp(d)) * c > t * TargetSpan
    OBVIOUS
  <2>1. n = NextTarget(t, span)
    OBVIOUS
  <2>2. /\ n * c <= AtLeast(c, t * TargetSpan)
        /\ \A m \in Nat : n < m => t * TargetSpan < m * c
    BY <1>2, <2>1, ExactTarget
  <2>3. c \in Nat \ {0} /\ TargetSpan \in Nat \ {0}
    BY ClampedIs
  <2>4. d * c <= n * c
    <3> HIDE DEF n, d, c
    <3> QED BY <1>3, <1>5, <1>7, <2>3, Larger
  <2> DEFINE u == Ulp(d)
             b == AtLeast(c, t * TargetSpan)
             z == t * TargetSpan
  <2>5. z \in Nat
    BY <1>2, <2>3
  <2>6. b \in Nat
    <3> HIDE DEF c, z
    <3>1. AtLeast(c, z) \in Nat
      BY <2>3, <2>5 DEF AtLeast
    <3> QED BY <3>1 DEF z
  <2>7. d + u \in Nat /\ n < d + u
    BY <1>5, <1>7
  <2>8. z < (d + u) * c
    BY <2>2, <2>7
  <2> HIDE DEF n, d, c, u, b, z
  <2>9. d * c \in Nat /\ n * c \in Nat /\ (d + u) * c \in Nat
    BY <1>3, <1>7, <2>3, <2>7
  <2>10. n * c <= b
    BY <2>2 DEF b
  <2>11. d * c <= b /\ (d + u) * c > z
    BY <2>4, <2>5, <2>6, <2>8, <2>9, <2>10
  <2> QED BY <2>11 DEF u, b, z
<1>10. Moved(t, d, span)
  <2> HIDE DEF n, d
  <2> QED BY <1>8, <1>9 DEF Moved
<1> HIDE DEF n
<1> QED BY <1>1, <1>6, <1>10 DEF t

-----------------------------------------------------------------------------
(* The chain's times and its fees, of any list of accepted blocks            *)

\* The compact forms there are, and the headers that can be accepted.
Forms == {Encode(t) : t \in Targets}
Header == [time : Nat, bits : Forms, fees : Nat]

LEMMA FormsFit == ASSUME RulesHypothesis, NEW bits PROVE bits \in Forms <=> Fits(bits)
<1>1. ASSUME bits \in Forms PROVE Fits(bits)
  <2>1. PICK t \in Targets : bits = Encode(t)
    BY <1>1 DEF Forms
  <2> QED BY <2>1, Compact DEF Fits
<1>2. ASSUME Fits(bits) PROVE bits \in Forms
  BY <1>2 DEF Fits, Forms
<1> QED BY <1>1, <1>2

TimesOf(list) == <<1>> \o [i \in DOMAIN list |-> list[i].time]
FeesOf(list) == SumFunction([i \in DOMAIN list |-> list[i].fees])

LEMMA TimesAre ==
  ASSUME NEW list \in Seq(Header)
  PROVE  /\ TimesOf(list) \in Seq(Nat) /\ Len(TimesOf(list)) = Len(list) + 1
         /\ TimesOf(list)[1] = 1
         /\ \A i \in 1 .. Len(list) : TimesOf(list)[i + 1] = list[i].time
<1> DEFINE times == [i \in DOMAIN list |-> list[i].time]
<1>1. Len(list) \in Nat /\ DOMAIN list = 1 .. Len(list) /\ \A i \in 1 .. Len(list) : list[i] \in Header
  BY LenProperties, ElementOfSeq
<1>2. times \in Seq(Nat) /\ Len(times) = Len(list) /\ \A i \in 1 .. Len(list) : times[i] = list[i].time
  <2>1. \A i \in 1 .. Len(list) : list[i].time \in Nat
    BY <1>1 DEF Header
  <2>2. times = [i \in 1 .. Len(list) |-> list[i].time]
    BY <1>1
  <2> HIDE DEF times
  <2>3. times \in [1 .. Len(list) -> Nat]
    BY <2>1, <2>2
  <2>4. times \in Seq(Nat)
    BY <1>1, <2>3, IsASeq
  <2> QED BY <1>1, <2>2, <2>3, <2>4, LenProperties
<1> HIDE DEF times
<1>3. TimesOf(list) = <<1>> \o times
  BY DEF TimesOf, times
<1>4. <<1>> \in Seq(Nat) /\ Len(<<1>>) = 1 /\ <<1>>[1] = 1
  OBVIOUS
<1>5. TimesOf(list) \in Seq(Nat) /\ Len(TimesOf(list)) = 1 + Len(times)
      /\ \A i \in 1 .. 1 + Len(times) :
           TimesOf(list)[i] = IF i <= 1 THEN <<1>>[i] ELSE times[i - 1]
  BY <1>2, <1>3, <1>4, ConcatProperties
<1>6. ASSUME NEW i \in 1 .. Len(list) PROVE TimesOf(list)[i + 1] = list[i].time
  <2>1. i + 1 \in 1 .. 1 + Len(times) /\ ~ (i + 1 <= 1) /\ (i + 1) - 1 = i
    BY <1>1, <1>2
  <2> QED BY <1>2, <1>5, <2>1
<1>7. TimesOf(list)[1] = 1
  <2>1. 1 \in 1 .. 1 + Len(times) /\ 1 <= 1
    BY <1>1, <1>2
  <2> QED BY <1>4, <1>5, <2>1
<1>8. 1 + Len(times) = Len(list) + 1
  BY <1>1, <1>2
<1> QED BY <1>5, <1>6, <1>7, <1>8

LEMMA TimesGrow ==
  ASSUME NEW list \in Seq(Header), NEW block \in Header
  PROVE  /\ Append(list, block) \in Seq(Header) /\ Len(Append(list, block)) = Len(list) + 1
         /\ \A i \in 1 .. Len(list) : Append(list, block)[i] = list[i]
         /\ Append(list, block)[Len(list) + 1] = block
         /\ TimesOf(Append(list, block)) = Append(TimesOf(list), block.time)
<1> DEFINE more == Append(list, block)
           n == Len(list)
           t == TimesOf(list)
           u == TimesOf(more)
<1>1. n \in Nat /\ more \in Seq(Header) /\ Len(more) = n + 1 /\ more[n + 1] = block
      /\ \A i \in 1 .. n : more[i] = list[i]
  BY AppendProperties, LenProperties
<1> HIDE DEF more
<1>2. t \in Seq(Nat) /\ Len(t) = n + 1 /\ t[1] = 1 /\ \A i \in 1 .. n : t[i + 1] = list[i].time
  BY TimesAre
<1>3. u \in Seq(Nat) /\ Len(u) = n + 2 /\ u[1] = 1 /\ \A i \in 1 .. n + 1 : u[i + 1] = more[i].time
  BY <1>1, TimesAre
<1>4. block.time \in Nat
  BY DEF Header
<1> HIDE DEF n, t, u
<1> DEFINE v == Append(t, block.time)
<1>5. v \in Seq(Nat) /\ Len(v) = n + 2 /\ v[n + 2] = block.time /\ \A i \in 1 .. n + 1 : v[i] = t[i]
  BY <1>1, <1>2, <1>4, AppendProperties
<1> HIDE DEF v
<1>6. ASSUME NEW i \in 1 .. n + 2 PROVE u[i] = v[i]
  <2>1. CASE i = 1
    BY <1>1, <1>2, <1>3, <1>5, <2>1
  <2>2. CASE i \in 2 .. n + 1
    <3>1. i - 1 \in 1 .. n /\ i - 1 \in 1 .. n + 1 /\ i \in 1 .. n + 1 /\ (i - 1) + 1 = i
      BY <1>1, <2>2
    <3>2. u[(i - 1) + 1] = more[i - 1].time /\ t[(i - 1) + 1] = list[i - 1].time
      BY <1>2, <1>3, <3>1
    <3> QED BY <1>1, <1>5, <3>1, <3>2
  <2>3. CASE i = n + 2
    <3>1. n + 1 \in 1 .. n + 1 /\ (n + 1) + 1 = n + 2
      BY <1>1
    <3>2. u[(n + 1) + 1] = more[n + 1].time
      BY <1>3, <3>1
    <3> QED BY <1>1, <1>5, <2>3, <3>1, <3>2
  <2> QED BY <1>1, <2>1, <2>2, <2>3
<1>7. u = v
  BY <1>1, <1>3, <1>5, <1>6, SeqEqual
<1> QED BY <1>1, <1>7 DEF more, n, t, u, v

LEMMA FeesGrow ==
  ASSUME NEW list \in Seq(Header), NEW block \in Header
  PROVE  FeesOf(list) \in Nat /\ FeesOf(Append(list, block)) = FeesOf(list) + block.fees
<1> DEFINE more == Append(list, block)
           n == Len(list)
           f == [i \in DOMAIN list |-> list[i].fees]
           g == [i \in DOMAIN more |-> more[i].fees]
<1>1. n \in Nat /\ DOMAIN list = 1 .. n /\ \A i \in 1 .. n : list[i] \in Header
  BY LenProperties, ElementOfSeq
<1>2. DOMAIN more = 1 .. n + 1 /\ more[n + 1] = block /\ \A i \in 1 .. n : more[i] = list[i]
  BY <1>1, TimesGrow, LenProperties
<1>3. 1 .. n + 1 = (1 .. n) \cup {n + 1} /\ n + 1 \notin 1 .. n /\ IsFiniteSet(1 .. n)
  <2>1. n \in Nat /\ n \in Int /\ 1 \in Int
    BY <1>1
  <2> HIDE DEF n
  <2>2. 1 .. n + 1 = (1 .. n) \cup {n + 1} /\ n + 1 \notin 1 .. n
    BY <2>1
  <2> QED BY <2>1, <2>2, FS_Interval
<1>4. block.fees \in Nat /\ \A i \in 1 .. n : list[i].fees \in Nat
  BY <1>1 DEF Header
<1>5. FeesOf(list) = Sum(f, 1 .. n) /\ FeesOf(more) = Sum(g, 1 .. n + 1)
  BY <1>1, <1>2, SumIs DEF FeesOf
<1>6. g[n + 1] = block.fees /\ \A i \in 1 .. n : f[i] = list[i].fees /\ g[i] = f[i]
  BY <1>1, <1>2, <1>3
<1> HIDE DEF f, g, more, n
<1>7. Sum(g, 1 .. n + 1) = g[n + 1] + Sum(g, 1 .. n)
  <2> DEFINE S == 1 .. n
             x == n + 1
  <2>1. IsFiniteSet(S) /\ x \notin S /\ (\A i \in S : g[i] \in Int) /\ g[x] \in Int
    <3>1. (\A i \in S : g[i] \in Nat) /\ g[x] \in Nat
      BY <1>4, <1>6
    <3> QED BY <1>3, <3>1
  <2> HIDE DEF S, x
  <2>2. Sum(g, S \cup {x}) = g[x] + Sum(g, S)
    BY <2>1, SumAdd
  <2> QED BY <1>3, <2>2 DEF S, x
<1>8. Sum(f, 1 .. n) = Sum(g, 1 .. n) /\ Sum(f, 1 .. n) \in Nat
  <2>1. \A i \in 1 .. n : f[i] \in Int /\ f[i] \in Nat
    BY <1>4, <1>6
  <2>2. Sum(f, 1 .. n) = Sum(g, 1 .. n)
    BY <1>3, <1>6, <2>1, SumSame
  <2> QED BY <1>3, <2>1, <2>2, SumNatural
<1>9. FeesOf(list) \in Nat /\ FeesOf(more) = block.fees + FeesOf(list)
  BY <1>5, <1>6, <1>7, <1>8
<1> QED BY <1>4, <1>9 DEF more

-----------------------------------------------------------------------------
(* The window and the median                                                 *)

\* The times a chain state keeps.
Ends(times) == SubSeq(times, AtLeast(1, Len(times) - Window), Len(times))

LEMMA EndsAre ==
  ASSUME RulesHypothesis, NEW times \in Seq(Nat), times # <<>>
  PROVE  LET k == Len(Ends(times)) IN
         /\ Ends(times) \in Seq(Nat) /\ k = AtMost(Window + 1, Len(times)) /\ k \in 1 .. Len(times)
         /\ \A i \in 1 .. k : Ends(times)[i] = times[Len(times) - k + i]
<1> DEFINE n == Len(times)
           m == AtLeast(1, n - Window)
<1>1. n \in Nat \ {0} /\ Window \in Nat \ {0}
  BY LenProperties, EmptySeq DEF RulesHypothesis
<1>2. m \in 1 .. n /\ n - m + 1 = AtMost(Window + 1, n) /\ n - m + 1 \in 1 .. n
  <2> HIDE DEF n
  <2> QED BY <1>1 DEF AtLeast, AtMost
<1> HIDE DEF m
<1>3. Ends(times) = SubSeq(times, m, n)
  BY DEF Ends, m
<1>4. \A i \in m .. n : times[i] \in Nat
  <2>1. m .. n \subseteq 1 .. n
    BY <1>1, <1>2
  <2> QED BY <2>1, ElementOfSeq
<1>5. /\ SubSeq(times, m, n) \in Seq(Nat) /\ Len(SubSeq(times, m, n)) = n - m + 1
      /\ \A i \in 1 .. n - m + 1 : SubSeq(times, m, n)[i] = times[m + i - 1]
  <2>1. m \in Int /\ n \in Int /\ m <= n + 1
    BY <1>1, <1>2
  <2> QED BY <1>1, <1>2, <1>4, <2>1, SubSeqProperties
<1>6. \A i \in 1 .. n - m + 1 : m + i - 1 = n - (n - m + 1) + i
  BY <1>1, <1>2
<1> QED BY <1>2, <1>3, <1>5, <1>6

LEMMA NotEmpty ==
  ASSUME NEW times \in Seq(Nat), NEW t \in Nat
  PROVE  Append(times, t) \in Seq(Nat) /\ Append(times, t) # <<>> /\ Len(Append(times, t)) = Len(times) + 1
         /\ Append(times, t)[Len(times) + 1] = t
         /\ \A i \in 1 .. Len(times) : Append(times, t)[i] = times[i]
<1>1. Append(times, t) \in Seq(Nat) /\ Len(Append(times, t)) = Len(times) + 1 /\ Len(times) \in Nat
      /\ Append(times, t)[Len(times) + 1] = t
      /\ \A i \in 1 .. Len(times) : Append(times, t)[i] = times[i]
  BY AppendProperties, LenProperties
<1>2. Len(<<>>) = 0
  OBVIOUS
<1> QED BY <1>1, <1>2

\* Dropping the oldest keeps the end.
LEMMA KeptEnds ==
  ASSUME RulesHypothesis, NEW times \in Seq(Nat), times # <<>>, NEW t \in Nat
  PROVE  Kept(Append(Ends(times), t)) = Ends(Append(times, t))
<1> DEFINE n == Len(times)
           k == Len(Ends(times))
           a == Append(Ends(times), t)
           b == Append(times, t)
           l == Len(Ends(b))
<1>1. n \in Nat \ {0} /\ Window \in Nat \ {0}
  BY LenProperties, EmptySeq DEF RulesHypothesis
<1>2. Ends(times) \in Seq(Nat) /\ k = AtMost(Window + 1, n) /\ k \in 1 .. n
      /\ \A i \in 1 .. k : Ends(times)[i] = times[n - k + i]
  BY EndsAre
<1>3. b \in Seq(Nat) /\ b # <<>> /\ Len(b) = n + 1 /\ b[n + 1] = t /\ \A i \in 1 .. n : b[i] = times[i]
  BY NotEmpty
<1>4. a \in Seq(Nat) /\ a # <<>> /\ Len(a) = k + 1 /\ a[k + 1] = t /\ \A i \in 1 .. k : a[i] = Ends(times)[i]
  BY <1>2, NotEmpty
<1> HIDE DEF b
<1>5. Ends(b) \in Seq(Nat) /\ l = AtMost(Window + 1, n + 1) /\ l \in 1 .. n + 1
      /\ \A i \in 1 .. l : Ends(b)[i] = b[n + 1 - l + i]
  <2>1. Ends(b) \in Seq(Nat) /\ l = AtMost(Window + 1, Len(b)) /\ l \in 1 .. Len(b)
        /\ \A i \in 1 .. l : Ends(b)[i] = b[Len(b) - l + i]
    BY <1>3, EndsAre
  <2>2. Len(b) = n + 1
    BY <1>3
  <2> DEFINE c == Len(b)
             d == n + 1
  <2>3. Ends(b) \in Seq(Nat) /\ l = AtMost(Window + 1, c) /\ l \in 1 .. c
        /\ \A i \in 1 .. l : Ends(b)[i] = b[c - l + i]
    BY <2>1
  <2>4. c = d
    BY <2>2
  <2> HIDE DEF c, d, l
  <2>5. Ends(b) \in Seq(Nat) /\ l = AtMost(Window + 1, d) /\ l \in 1 .. d
        /\ \A i \in 1 .. l : Ends(b)[i] = b[d - l + i]
    BY <2>3, <2>4
  <2> QED BY <2>5 DEF d
<1> HIDE DEF a, l, k, n
<1>6. \A i \in 1 .. k + 1 : a[i] = b[n - k + i]
  <2> SUFFICES ASSUME NEW i \in 1 .. k + 1 PROVE a[i] = b[n - k + i]
    OBVIOUS
  <2>1. CASE i = k + 1
    <3>1. n - k + i = n + 1
      BY <1>1, <1>2, <2>1
    <3> QED BY <1>3, <1>4, <2>1, <3>1
  <2>2. CASE i # k + 1
    <3>1. i \in 1 .. k /\ n - k + i \in 1 .. n
      <4>1. n \in Nat /\ k \in 1 .. n
        BY <1>1, <1>2
      <4> QED BY <2>2, <4>1
    <3> QED BY <1>2, <1>3, <1>4, <3>1
  <2> QED BY <2>1, <2>2
<1>7. CASE k + 1 > Window + 1
  <2>1. k = Window + 1 /\ l = Window + 1
    BY <1>1, <1>2, <1>5, <1>7 DEF AtMost
  <2>2. Kept(a) = Tail(a)
    BY <1>4, <1>7 DEF Kept
  <2>3. Tail(a) \in Seq(Nat) /\ Len(Tail(a)) = k /\ \A i \in 1 .. k : Tail(a)[i] = a[i + 1]
    <3>1. Len(a) \in Nat \ {0} /\ (k + 1) - 1 = k /\ k \in Nat
      <4>1. k \in Nat /\ Len(a) = k + 1
        BY <1>1, <1>2, <1>4
      <4> QED BY <4>1
    <3>2. Tail(a) \in Seq(Nat) /\ Len(Tail(a)) = Len(a) - 1 /\ \A i \in 1 .. Len(Tail(a)) : Tail(a)[i] = a[i + 1]
      BY <1>4, HeadTailProperties
    <3> QED BY <1>4, <3>1, <3>2
  <2>4. ASSUME NEW i \in 1 .. k PROVE Tail(a)[i] = Ends(b)[i]
    <3>1. i + 1 \in 1 .. k + 1 /\ n - k + (i + 1) = n + 1 - l + i /\ i \in 1 .. l
      <4>1. n \in Nat /\ k \in Nat /\ i \in 1 .. k /\ l = k
        BY <1>1, <1>2, <2>1
      <4>2. \A x, y \in Nat : \A j \in 1 .. y : j + 1 \in 1 .. y + 1 /\ x - y + (j + 1) = x + 1 - y + j
        OBVIOUS
      <4> QED BY <4>1, <4>2
    <3>2. Tail(a)[i] = a[i + 1]
      BY <2>3
    <3>3. a[i + 1] = b[n - k + (i + 1)]
      BY <1>6, <3>1
    <3>4. Ends(b)[i] = b[n + 1 - l + i]
      BY <1>5, <3>1
    <3> QED BY <3>1, <3>2, <3>3, <3>4
  <2>5. Len(Ends(b)) = k
    BY <2>1 DEF l
  <2>6. Tail(a) = Ends(b)
    BY <1>5, <2>3, <2>4, <2>5, SeqEqual
  <2> QED BY <2>2, <2>6 DEF a, b
<1>8. CASE ~ (k + 1 > Window + 1)
  <2>1. k = n /\ l = n + 1
    BY <1>1, <1>2, <1>5, <1>8 DEF AtMost
  <2>2. Kept(a) = a
    BY <1>4, <1>8 DEF Kept
  <2>3. ASSUME NEW i \in 1 .. k + 1 PROVE a[i] = Ends(b)[i]
    <3>0. n \in Nat /\ k = n /\ l = n + 1 /\ i \in 1 .. n + 1
      BY <1>1, <2>1
    <3>1. n - k + i = n + 1 - l + i /\ i \in 1 .. l
      BY <3>0
    <3> QED BY <1>5, <1>6, <3>1
  <2>4. Len(Ends(b)) = k + 1
    BY <2>1 DEF l
  <2>5. a = Ends(b)
    BY <1>4, <1>5, <2>3, <2>4, SeqEqual
  <2> QED BY <2>2, <2>5 DEF a, b
<1> QED BY <1>7, <1>8

LEMMA ElevenAre ==
  ASSUME RulesHypothesis, NEW times \in Seq(Nat), times # <<>>
  PROVE  LET k == Len(Last11(times)) IN
         /\ Last11(times) \in Seq(Nat) /\ k = AtMost(MedianSpan, Len(times)) /\ k \in 1 .. Len(times)
         /\ \A i \in 1 .. k : Last11(times)[i] = times[Len(times) - k + i]
<1> DEFINE n == Len(times)
           m == AtLeast(1, n - MedianSpan + 1)
<1>1. n \in Nat \ {0} /\ MedianSpan \in Nat \ {0}
  BY LenProperties, EmptySeq DEF RulesHypothesis
<1>2. m \in 1 .. n /\ n - m + 1 = AtMost(MedianSpan, n) /\ n - m + 1 \in 1 .. n
  <2> HIDE DEF n
  <2> QED BY <1>1 DEF AtLeast, AtMost
<1> HIDE DEF m
<1>3. Last11(times) = SubSeq(times, m, n)
  BY DEF Last11, m
<1>4. \A i \in m .. n : times[i] \in Nat
  <2>1. m .. n \subseteq 1 .. n
    BY <1>1, <1>2
  <2> QED BY <2>1, ElementOfSeq
<1>5. /\ SubSeq(times, m, n) \in Seq(Nat) /\ Len(SubSeq(times, m, n)) = n - m + 1
      /\ \A i \in 1 .. n - m + 1 : SubSeq(times, m, n)[i] = times[m + i - 1]
  <2>1. m \in Int /\ n \in Int /\ m <= n + 1
    BY <1>1, <1>2
  <2> QED BY <1>1, <1>2, <1>4, <2>1, SubSeqProperties
<1>6. \A i \in 1 .. n - m + 1 : m + i - 1 = n - (n - m + 1) + i
  BY <1>1, <1>2
<1> QED BY <1>2, <1>3, <1>5, <1>6

\* What is kept is enough for the median.
LEMMA ElevenOfEnds ==
  ASSUME RulesHypothesis, NEW times \in Seq(Nat), times # <<>>
  PROVE  Last11(Ends(times)) = Last11(times)
<1> DEFINE n == Len(times)
           k == Len(Ends(times))
           e == Ends(times)
           a == Last11(e)
           b == Last11(times)
<1>1. n \in Nat \ {0} /\ Window \in Nat \ {0} /\ MedianSpan \in Nat \ {0} /\ MedianSpan <= Window + 1
  BY LenProperties, EmptySeq DEF RulesHypothesis
<1>2. e \in Seq(Nat) /\ k = AtMost(Window + 1, n) /\ k \in 1 .. n
      /\ \A i \in 1 .. k : e[i] = times[n - k + i]
  BY EndsAre
<1>3. e # <<>>
  <2>1. Len(<<>>) = 0
    OBVIOUS
  <2> HIDE DEF e
  <2>2. k = Len(e)
    BY DEF e
  <2> HIDE DEF k
  <2> QED BY <1>1, <1>2, <2>1, <2>2
<1>4. b \in Seq(Nat) /\ Len(b) = AtMost(MedianSpan, n) /\ Len(b) \in 1 .. n
      /\ \A i \in 1 .. Len(b) : b[i] = times[n - Len(b) + i]
  BY ElevenAre
<1>5. k = Len(e)
  OBVIOUS
<1> HIDE DEF e, k
<1>6. a \in Seq(Nat) /\ Len(a) = AtMost(MedianSpan, k) /\ Len(a) \in 1 .. k
      /\ \A i \in 1 .. Len(a) : a[i] = e[k - Len(a) + i]
  BY <1>2, <1>3, <1>5, ElevenAre
<1> HIDE DEF a, b, n
<1>7. Len(a) = Len(b) /\ Len(a) \in Nat
  BY <1>1, <1>2, <1>4, <1>6 DEF AtMost
<1>8. ASSUME NEW i \in 1 .. Len(a) PROVE a[i] = b[i]
  <2>0. n \in Nat /\ k \in Nat /\ Len(a) \in Nat /\ Len(a) <= k /\ Len(b) = Len(a)
        /\ i \in Nat /\ i >= 1 /\ i <= Len(a)
    BY <1>1, <1>2, <1>6, <1>7
  <2>1. k - Len(a) + i \in 1 .. k /\ n - k + (k - Len(a) + i) = n - Len(b) + i
    BY <2>0
  <2>2. a[i] = e[k - Len(a) + i]
    BY <1>6
  <2>3. e[k - Len(a) + i] = times[n - k + (k - Len(a) + i)]
    BY <1>2, <2>1
  <2>4. b[i] = times[n - Len(b) + i]
    BY <1>4, <1>7
  <2> QED BY <2>1, <2>2, <2>3, <2>4
<1>9. a = b
  BY <1>4, <1>6, <1>7, <1>8, SeqEqual
<1> QED BY <1>9 DEF a, b, e

\* The median is one of the times.
LEMMA MedianIs ==
  ASSUME NEW times \in Seq(Nat), times # <<>>
  PROVE  \E i \in 1 .. Len(times) : Median(times) = times[i]
<1> DEFINE n == Len(times)
           R == Range(times)
           Below(t) == {i \in DOMAIN times : times[i] <= t}
           M == {t \in R : n \div 2 < Cardinality(Below(t))}
           U == {t \in Nat : \A i \in 1 .. n : times[i] <= t}
<1>1. n \in Nat \ {0} /\ DOMAIN times = 1 .. n /\ \A i \in 1 .. n : times[i] \in Nat
  BY LenProperties, EmptySeq, ElementOfSeq
<1>2. R \in SUBSET Nat /\ \A t \in R : \E i \in 1 .. n : t = times[i]
  BY <1>1 DEF Range
\* A bound: the sum of the times, of which the least is a time.
<1>3. U # {}
  <2>1. IsFiniteSet(1 .. n) /\ \A i \in 1 .. n : times[i] \in Nat
    BY <1>1, FS_Interval
  <2> HIDE DEF n
  <2>2. Sum(times, 1 .. n) \in Nat /\ \A i \in 1 .. n : times[i] <= Sum(times, 1 .. n)
    BY <2>1, SumNatural
  <2> QED BY <2>2
<1>4. PICK t \in U : \A u \in U : t <= u
  <2>1. U \in SUBSET Nat
    OBVIOUS
  <2> HIDE DEF U
  <2> QED BY <1>3, <2>1, LeastOf
<1>5. t \in R
  <2> SUFFICES ASSUME t \notin R PROVE FALSE
    OBVIOUS
  <2>1. t \in Nat /\ \A i \in 1 .. n : times[i] <= t /\ times[i] # t
    BY <1>1 DEF Range
  <2>2. \A i \in 1 .. n : times[i] <= t - 1
    BY <1>1, <2>1
  <2>3. times[1] \in Nat /\ times[1] <= t - 1
    BY <1>1, <2>2
  <2>4. t - 1 \in Nat
    BY <2>1, <2>3
  <2>5. t - 1 \in U
    BY <2>2, <2>4
  <2> QED BY <1>4, <2>1, <2>5
<1>6. t \in M
  <2>1. Below(t) = 1 .. n
    BY <1>1, <1>4
  <2>2. Cardinality(1 .. n) = n
    BY <1>1, FS_Interval
  <2>3. n \div 2 < n
    <3> HIDE DEF n
    <3> QED BY <1>1
  <2> HIDE DEF Below, n, R
  <2> QED BY <1>5, <2>1, <2>2, <2>3
<1> HIDE DEF R
<1>7. M \in SUBSET Nat /\ M # {} /\ M \subseteq R
  BY <1>2, <1>6
<1> HIDE DEF M
<1>8. \E m \in M : \A u \in M : m <= u
  BY <1>7, LeastOf
<1>9. Min(M) \in M
  BY <1>8 DEF Min
<1>10. Median(times) = Min(M)
  BY DEF Median, M, R
<1> QED BY <1>2, <1>7, <1>9, <1>10

-----------------------------------------------------------------------------
(* The chain state, and the inductive invariant                              *)

\* RetargetBounded of one height, and of a list of blocks and what the next asks for.
BoundedAt(h, old, new, span) ==
  /\ h % Window # 0 => new = old
  /\ h % Window = 0 => Moved(Decode(old), Decode(new), span)

AllBounded(list, last) ==
  \A h \in 1 .. Len(list) :
    BoundedAt(h, list[h].bits, IF h = Len(list) THEN last ELSE list[h + 1].bits,
              TimesOf(list)[h + 1] - TimesOf(list)[h + 1 - Window])

\* The states of the chain from genesis: the snapshot is one, the chain's the last.
Passed(st) ==
  /\ st[0] = Genesis
  /\ \A i \in 1 .. Len(accepted) : st[i] = ApplyBlock(st[i - 1], accepted[i])
  /\ st[Len(accepted)] = chainState
  /\ st[snapshot.height] = snapshot

RulesTypes ==
  /\ policy \in {"pilot", "exact"} /\ now \in Nat \ {0}
  /\ accepted \in Seq(Header) /\ settled \in Nat
  /\ chainState.height = Len(accepted) /\ chainState.bits \in Forms
  /\ chainState.median \in Nat /\ chainState.pool \in Nat
  /\ snapshot.height \in 0 .. Len(accepted)

RulesIInv ==
  /\ RulesTypes
  /\ \E st : Passed(st)
  /\ \A i \in 1 .. Len(TimesOf(accepted)) : TimesOf(accepted)[i] <= now + MaxFuture
  /\ chainState.times = Ends(TimesOf(accepted))
  /\ chainState.height > 0 => chainState.median = Median(Last11(TimesOf(accepted)))
  /\ chainState.median <= now + MaxFuture
  /\ AllBounded(accepted, chainState.bits)
  /\ settled + chainState.pool = Supply(chainState.height + 1) + FeesOf(accepted)

LEMMA WholeWindow ==
  ASSUME NEW n \in Nat \ {0}, NEW w \in Nat \ {0}, n % w = 0
  PROVE  n >= w
<1> SUFFICES ASSUME n < w PROVE FALSE
  OBVIOUS
<1>1. n \div w = 0
  BY QuotientIs
<1>2. n = w * (n \div w) + (n % w)
  OBVIOUS
<1> QED BY <1>1, <1>2

LEMMA BoundedIs ==
  chainState.height = Len(accepted) /\ Len(accepted) \in Nat /\ AllBounded(accepted, chainState.bits)
    => RetargetBounded
<1> SUFFICES ASSUME chainState.height = Len(accepted), Len(accepted) \in Nat,
                    AllBounded(accepted, chainState.bits)
             PROVE  RetargetBounded
  OBVIOUS
<1> DEFINE n == Len(accepted)
<1>1. History = TimesOf(accepted)
  BY DEF History, TimesOf
<1>2. ASSUME NEW h \in 1 .. n
      PROVE  /\ BitsAt(h) = accepted[h].bits
             /\ BitsAt(h + 1) = IF h = n THEN chainState.bits ELSE accepted[h + 1].bits
  <2>1. ~ (h > n) /\ (h + 1 > n <=> h = n)
    OBVIOUS
  <2> QED BY <2>1 DEF BitsAt
<1>3. ASSUME NEW h \in 1 .. n
      PROVE  BoundedAt(h, BitsAt(h), BitsAt(h + 1), History[h + 1] - History[h + 1 - Window])
  <2>1. BoundedAt(h, accepted[h].bits, IF h = n THEN chainState.bits ELSE accepted[h + 1].bits,
                  TimesOf(accepted)[h + 1] - TimesOf(accepted)[h + 1 - Window])
    BY DEF AllBounded
  <2> HIDE DEF n
  <2> QED BY <1>1, <1>2, <2>1
<1> QED BY <1>3 DEF RetargetBounded, BoundedAt, Moved

LEMMA RulesImplies == RulesHypothesis /\ RulesIInv => RulesInv
<1> SUFFICES ASSUME RulesHypothesis, RulesIInv PROVE RulesInv
  OBVIOUS
<1> USE DEF RulesIInv, RulesTypes
<1>1. History = TimesOf(accepted) /\ Len(accepted) \in Nat
  BY LenProperties DEF History, TimesOf
<1>2. Canonical(chainState.bits)
  <2>1. Fits(chainState.bits)
    BY FormsFit
  <2> QED BY <2>1 DEF Fits, Targets, Canonical
<1>3. WindowComplete
  BY <1>1 DEF WindowComplete, Ends
<1>4. RetargetBounded
  BY <1>1, BoundedIs
<1>5. EmissionExact
  <2> DEFINE k == Len(accepted) + 1
  <2>1. k \in Nat \ {0}
    BY <1>1
  <2> HIDE DEF k
  <2>2. Supply(k) < HardCap
    BY <2>1, SupplyIs
  <2> QED BY <2>2 DEF EmissionExact, FeesOf, k
<1> QED BY <1>2, <1>3, <1>4, <1>5 DEF RulesInv

LEMMA GenesisIs ==
  ASSUME RulesHypothesis
  PROVE  /\ FirstTarget \in Targets
         /\ Genesis.height = 0 /\ Genesis.times = <<1>> /\ Genesis.median = 0
         /\ Genesis.bits \in Forms /\ Genesis.pool = Supply(1) /\ Genesis.pool \in Nat
<1>1. FirstTarget \in Targets
  BY DEF RulesHypothesis, Targets
<1>2. Genesis.bits \in Forms
  BY <1>1 DEF Genesis, Forms
<1> QED BY <1>1, <1>2, SupplyStarts DEF Genesis

LEMMA RulesStart == RulesHypothesis /\ RulesInit => RulesIInv
<1> SUFFICES ASSUME RulesHypothesis, RulesInit PROVE RulesIInv
  OBVIOUS
<1>1. /\ policy \in {"pilot", "exact"} /\ chainState = Genesis /\ snapshot = Genesis
      /\ accepted = <<>> /\ settled = 0 /\ now = 1
  BY DEF RulesInit
<1>2. accepted \in Seq(Header) /\ Len(accepted) = 0
  BY <1>1
<1>3. TimesOf(accepted) \in Seq(Nat) /\ Len(TimesOf(accepted)) = 1 /\ TimesOf(accepted)[1] = 1
  <2>1. TimesOf(accepted) \in Seq(Nat) /\ Len(TimesOf(accepted)) = Len(accepted) + 1
        /\ TimesOf(accepted)[1] = 1
    BY <1>2, TimesAre
  <2> QED BY <1>2, <2>1
<1>4. RulesTypes
  BY <1>1, <1>2, GenesisIs DEF RulesTypes
<1>5. \E st : Passed(st)
  <2> DEFINE st == [i \in {0} |-> Genesis]
  <2>1. st[0] = Genesis
    OBVIOUS
  <2>2. 1 .. 0 = {}
    OBVIOUS
  <2> HIDE DEF st
  <2>3. Passed(st)
    BY <1>1, <1>2, <2>1, <2>2, GenesisIs DEF Passed
  <2> QED BY <2>3
<1>6. chainState.times = Ends(TimesOf(accepted))
  <2> DEFINE t == TimesOf(accepted)
             e == Ends(t)
  <2>1. t # <<>>
    <3>1. Len(<<>>) = 0
      OBVIOUS
    <3> HIDE DEF t
    <3>2. Len(t) = 1
      BY <1>3 DEF t
    <3> QED BY <3>1, <3>2
  <2>2. e \in Seq(Nat) /\ Len(e) \in 1 .. 1 /\ \A i \in 1 .. Len(e) : e[i] = t[1 - Len(e) + i]
    <3> HIDE DEF t
    <3> QED BY <1>3, <2>1, EndsAre DEF t
  <2> HIDE DEF e
  <2>3. Len(e) = 1 /\ e[1] = 1
    <3>1. Len(e) = 1 /\ 1 \in 1 .. 1 /\ 1 - 1 + 1 = 1
      BY <2>2
    <3> QED BY <1>3, <2>2, <3>1
  <2>4. <<1>> \in Seq(Nat) /\ Len(<<1>>) = 1 /\ <<1>>[1] = 1
    OBVIOUS
  <2>5. e = <<1>>
    <3>1. \A i \in 1 .. 1 : i = 1
      OBVIOUS
    <3> QED BY <2>2, <2>3, <2>4, <3>1, SeqEqual
  <2> QED BY <1>1, <2>5, GenesisIs DEF e
<1>7. AllBounded(accepted, chainState.bits)
  <2>1. 1 .. 0 = {}
    OBVIOUS
  <2> QED BY <1>2, <2>1 DEF AllBounded
<1>8. FeesOf(accepted) = 0
  <2> DEFINE f == [i \in DOMAIN accepted |-> accepted[i].fees]
  <2>1. DOMAIN f = {}
    BY <1>1
  <2> HIDE DEF f
  <2>2. FeesOf(accepted) = Sum(f, {})
    BY <2>1, SumIs DEF FeesOf, f
  <2> QED BY <2>2, SumEmpty
<1>9. settled + chainState.pool = Supply(chainState.height + 1) + FeesOf(accepted)
  <2>1. Genesis.height + 1 = 1
    BY GenesisIs
  <2> QED BY <1>1, <1>8, <2>1, GenesisIs
<1>10. MaxFuture \in Nat
  BY DEF RulesHypothesis
<1>11. \A i \in 1 .. Len(TimesOf(accepted)) : TimesOf(accepted)[i] <= now + MaxFuture
  <2>1. \A i \in 1 .. 1 : i = 1
    OBVIOUS
  <2>2. 1 <= now + MaxFuture
    BY <1>1, <1>10
  <2> QED BY <1>3, <2>1, <2>2
<1>12. chainState.median <= now + MaxFuture /\ ~ (chainState.height > 0)
  BY <1>1, <1>10, GenesisIs
<1> QED BY <1>4, <1>5, <1>6, <1>7, <1>9, <1>11, <1>12 DEF RulesIInv

\* What a block makes of the chain state.
LEMMA Applied ==
  ASSUME RulesHypothesis, RulesIInv, NEW block \in Header, block.time <= now + MaxFuture,
         4 * Decode(chainState.bits) + Scale < Power[MaxSize]
  PROVE  LET next == ApplyBlock(chainState, block)
             more == Append(accepted, block)
             times == TimesOf(more)
             n == Len(accepted) + 1
         IN  /\ next.height = n /\ next.bits \in Forms /\ next.median \in Nat
             /\ \A i \in 1 .. Len(times) : times[i] <= now + MaxFuture
             /\ next.times = Ends(times)
             /\ next.median = Median(Last11(times)) /\ next.median <= now + MaxFuture
             /\ BoundedAt(n, chainState.bits, next.bits, times[n + 1] - times[n + 1 - Window])
<1> DEFINE next == ApplyBlock(chainState, block)
           more == Append(accepted, block)
           old == TimesOf(accepted)
           times == TimesOf(more)
           n == Len(accepted) + 1
<1>1. /\ policy \in {"pilot", "exact"} /\ now \in Nat /\ accepted \in Seq(Header)
      /\ chainState.height = Len(accepted) /\ chainState.bits \in Forms
      /\ chainState.times = Ends(old)
      /\ \A i \in 1 .. Len(old) : old[i] <= now + MaxFuture
      /\ Len(accepted) \in Nat /\ n \in Nat \ {0} /\ MaxFuture \in Nat /\ block.time \in Nat
      /\ Window \in Nat \ {0}
  <2>1. /\ policy \in {"pilot", "exact"} /\ now \in Nat /\ accepted \in Seq(Header)
        /\ chainState.height = Len(accepted) /\ chainState.bits \in Forms
        /\ chainState.times = Ends(old)
        /\ \A i \in 1 .. Len(old) : old[i] <= now + MaxFuture
    BY DEF RulesIInv, RulesTypes
  <2>2. MaxFuture \in Nat /\ Window \in Nat \ {0} /\ block.time \in Nat
    BY DEF RulesHypothesis, Header
  <2>3. Len(accepted) \in Nat
    BY <2>1, LenProperties
  <2>4. n \in Nat \ {0}
    BY <2>3
  <2> HIDE DEF n, old
  <2> QED BY <2>1, <2>2, <2>3, <2>4
<1>2. old \in Seq(Nat) /\ Len(old) = n /\ old # <<>>
  <2>1. old \in Seq(Nat) /\ Len(old) = n
    BY <1>1, TimesAre
  <2>2. Len(<<>>) = 0
    OBVIOUS
  <2> HIDE DEF n, old
  <2> QED BY <1>1, <2>1, <2>2
<1>3. times = Append(old, block.time)
  BY <1>1, TimesGrow
<1> HIDE DEF more, old, times
<1>4. /\ times \in Seq(Nat) /\ times # <<>> /\ Len(times) = n + 1
      /\ times[n + 1] = block.time /\ \A i \in 1 .. n : times[i] = old[i]
  BY <1>1, <1>2, <1>3, NotEmpty
<1>5. \A i \in 1 .. n + 1 : times[i] <= now + MaxFuture
  <2> HIDE DEF n
  <2>1. \A i \in 1 .. n + 1 : i = n + 1 \/ i \in 1 .. n
    BY <1>1
  <2> QED BY <1>1, <1>2, <1>4, <2>1
<1> DEFINE kept == Kept(Append(chainState.times, block.time))
<1>6. kept = Ends(times)
  BY <1>1, <1>2, <1>3, KeptEnds
<1>7. /\ next.height = n /\ next.times = kept /\ next.median = Median(Last11(kept))
      /\ next.bits = IF n % Window = 0 THEN Retargeted(chainState.bits, kept) ELSE chainState.bits
  <2>1. chainState.height + 1 = n
    BY <1>1
  <2> HIDE DEF kept, n
  <2> QED BY <2>1 DEF ApplyBlock, kept
<1> HIDE DEF next, kept, n
<1>8. next.median = Median(Last11(times)) /\ next.median \in Nat /\ next.median <= now + MaxFuture
  <2> DEFINE l == Last11(times)
  <2>1. next.median = Median(l)
    BY <1>4, <1>6, <1>7, ElevenOfEnds
  <2>2. l \in Seq(Nat) /\ Len(l) \in 1 .. Len(times)
        /\ \A i \in 1 .. Len(l) : l[i] = times[Len(times) - Len(l) + i]
    BY <1>4, ElevenAre
  <2> HIDE DEF l
  <2>3. l # <<>>
    <3>1. Len(<<>>) = 0
      OBVIOUS
    <3> QED BY <1>1, <1>4, <2>2, <3>1
  <2>4. PICK i \in 1 .. Len(l) : Median(l) = l[i]
    BY <2>2, <2>3, MedianIs
  <2>5. Len(times) - Len(l) + i \in 1 .. n + 1
    BY <1>1, <1>4, <2>2
  <2>6. l[i] = times[Len(times) - Len(l) + i] /\ l[i] \in Nat
    BY <2>2, <2>4, ElementOfSeq
  <2>7. l[i] <= now + MaxFuture
    BY <1>5, <2>5, <2>6
  <2> QED BY <2>1, <2>4, <2>6, <2>7 DEF l
<1>9. Fits(chainState.bits)
  BY <1>1, FormsFit
<1> DEFINE span == times[n + 1] - times[n + 1 - Window]
<1>10. ASSUME n % Window = 0
       PROVE  next.bits = NextBits(chainState.bits, span) /\ span \in Int
  <2>1. n >= Window
    BY <1>1, <1>10, WholeWindow
  <2>2. /\ kept \in Seq(Nat) /\ Len(kept) = AtMost(Window + 1, Len(times))
        /\ \A i \in 1 .. Len(kept) : kept[i] = times[Len(times) - Len(kept) + i]
    BY <1>4, <1>6, EndsAre
  <2>3. Len(kept) = Window + 1
    BY <1>1, <1>4, <2>1, <2>2 DEF AtMost
  <2>4. ~ (Len(kept) < 2) /\ AtLeast(1, Len(kept) - Window) = 1 /\ 1 \in 1 .. Len(kept) /\ Len(kept) \in 1 .. Len(kept)
        /\ Len(times) - Len(kept) + 1 = n + 1 - Window /\ Len(times) - Len(kept) + Len(kept) = n + 1
    BY <1>1, <1>4, <2>3 DEF AtLeast
  <2>5. kept[1] = times[n + 1 - Window] /\ kept[Len(kept)] = times[n + 1]
    BY <2>2, <2>4
  <2>6. Retargeted(chainState.bits, kept) = NextBits(chainState.bits, span)
    BY <2>4, <2>5 DEF Retargeted, Last
  <2>7. n + 1 - Window \in 1 .. n + 1 /\ n + 1 \in 1 .. n + 1
    BY <1>1, <2>1
  <2>8. times[n + 1] \in Nat /\ times[n + 1 - Window] \in Nat
    BY <1>4, <2>7, ElementOfSeq
  <2> QED BY <1>7, <1>10, <2>6, <2>8
<1> HIDE DEF span
<1>11. next.bits \in Forms /\ BoundedAt(n, chainState.bits, next.bits, span)
  <2>1. CASE n % Window = 0
    <3>1. Fits(next.bits) /\ Moved(Decode(chainState.bits), Decode(next.bits), span)
      BY <1>1, <1>9, <1>10, <2>1, Retargets
    <3> QED BY <2>1, <3>1, FormsFit DEF BoundedAt
  <2>2. CASE n % Window # 0
    BY <1>1, <1>7, <2>2 DEF BoundedAt
  <2> QED BY <2>1, <2>2
<1> QED BY <1>4, <1>5, <1>6, <1>7, <1>8, <1>11 DEF next, more, times, n, span

LEMMA SamePolicy ==
  ASSUME policy' = policy
  PROVE  /\ \A s, block : ApplyBlock(s, block)' = ApplyBlock(s, block)
         /\ \A h, old, new, span : BoundedAt(h, old, new, span)' <=> BoundedAt(h, old, new, span)
<1>1. \A s, block : ApplyBlock(s, block)' = ApplyBlock(s, block)
  BY DEF ApplyBlock, Retargeted, NextBits
<1>2. ASSUME NEW h, NEW old, NEW new, NEW span
      PROVE  BoundedAt(h, old, new, span)' <=> BoundedAt(h, old, new, span)
  BY DEF BoundedAt, Moved, Cent
<1> QED BY <1>1, <1>2

\* Replaying the blocks above a state of the chain ends in its last.
LEMMA RebuiltIs ==
  ASSUME NEW base, Len(accepted) \in Nat, base.height \in 0 .. Len(accepted), NEW st, st[base.height] = base,
         \A i \in 1 .. Len(accepted) : st[i] = ApplyBlock(st[i - 1], accepted[i])
  PROVE  Rebuilt(base)[Len(accepted)] = st[Len(accepted)]
<1> DEFINE n == Len(accepted)
           b == base.height
           Is(f) == f = [h \in b .. n |-> IF h = b THEN base ELSE ApplyBlock(f[h - 1], accepted[h])]
           g == [h \in b .. n |-> st[h]]
           r == Rebuilt(base)
<1>1. n \in Nat /\ b \in Nat /\ b <= n
  OBVIOUS
<1>2. \A h \in b .. n : h # b => h - 1 \in b .. n /\ h \in 1 .. n
  <2> HIDE DEF n, b
  <2> QED BY <1>1
<1>3. Is(g)
  <2>1. ASSUME NEW h \in b .. n
        PROVE  g[h] = IF h = b THEN base ELSE ApplyBlock(g[h - 1], accepted[h])
    <3>1. CASE h = b
      BY <3>1
    <3>2. CASE h # b
      <4>1. g[h - 1] = st[h - 1] /\ g[h] = st[h] /\ st[h] = ApplyBlock(st[h - 1], accepted[h])
        BY <1>2, <3>2
      <4> QED BY <3>2, <4>1
    <3> QED BY <3>1, <3>2
  <2>2. g = [h \in b .. n |-> g[h]]
    OBVIOUS
  <2> HIDE DEF g, b, n
  <2> QED BY <2>1, <2>2
<1>4. r = CHOOSE f : Is(f)
  BY DEF Rebuilt
<1> HIDE DEF r, g, Is
<1>5. Is(r)
  BY <1>3, <1>4
<1>6. \A h \in b .. n : r[h] = IF h = b THEN base ELSE ApplyBlock(r[h - 1], accepted[h])
  BY <1>5 DEF Is
<1> DEFINE S == {h \in 0 .. n : h >= b => r[h] = st[h]}
<1>7. 0 \in S
  <2> HIDE DEF n
  <2>1. 0 \in 0 .. n
    BY <1>1
  <2>2. ASSUME 0 >= b PROVE r[0] = st[0]
    <3>1. b = 0 /\ 0 \in b .. n
      BY <1>1, <2>2
    <3> QED BY <1>6, <3>1
  <2> QED BY <2>1, <2>2
<1>8. ASSUME NEW h \in 1 .. n, h - 1 \in S PROVE h \in S
  <2>1. h \in 0 .. n
    OBVIOUS
  <2>2. ASSUME h >= b PROVE r[h] = st[h]
    <3>1. h \in b .. n
      BY <1>1, <2>2
    <3>2. CASE h = b
      BY <1>6, <3>1, <3>2
    <3>3. CASE h # b
      <4>1. h - 1 >= b
        BY <1>1, <2>2, <3>3
      <4>2. r[h - 1] = st[h - 1]
        BY <1>8, <4>1
      <4>3. r[h] = ApplyBlock(r[h - 1], accepted[h])
        BY <1>6, <3>1, <3>3
      <4>4. st[h] = ApplyBlock(st[h - 1], accepted[h])
        OBVIOUS
      <4> QED BY <4>2, <4>3, <4>4
    <3> QED BY <3>2, <3>3
  <2> QED BY <2>1, <2>2
<1> HIDE DEF S
<1>9. 0 .. n \subseteq S
  BY <1>1, <1>7, <1>8, Along
<1>10. n \in S
  <2>1. n \in 0 .. n
    BY <1>1
  <2> QED BY <1>9, <2>1
<1> QED BY <1>1, <1>10 DEF S, r

LEMMA ConnectKeeps == RulesHypothesis /\ RulesIInv /\ Connects => RulesIInv'
<1> SUFFICES ASSUME RulesHypothesis, RulesIInv, Connects PROVE RulesIInv'
  OBVIOUS
<1>1. PICK time \in {1, chainState.median + 1, now, now + MaxFuture}, fees \in FeeTotals :
        Connect([time |-> time, bits |-> chainState.bits, fees |-> fees])
  BY DEF Connects
<1> DEFINE block == [time |-> time, bits |-> chainState.bits, fees |-> fees]
           next == ApplyBlock(chainState, block)
           more == Append(accepted, block)
           n == Len(accepted)
           times == TimesOf(more)
<1>2. /\ RulesTypes /\ n \in Nat /\ accepted \in Seq(Header) /\ chainState.height = n
      /\ policy \in {"pilot", "exact"} /\ now \in Nat \ {0} /\ settled \in Nat
      /\ chainState.median \in Nat /\ chainState.pool \in Nat /\ snapshot.height \in 0 .. n
  BY LenProperties DEF RulesIInv, RulesTypes
<1>3. block \in Header
  <2>1. time \in Nat /\ fees \in Nat
    BY <1>2 DEF RulesHypothesis
  <2>2. chainState.bits \in Forms
    BY DEF RulesIInv, RulesTypes
  <2> QED BY <2>1, <2>2 DEF Header
<1>4. block.bits = chainState.bits /\ block.fees = fees
  OBVIOUS
<1> HIDE DEF block
<1>5. /\ block.time <= now + MaxFuture
      /\ chainState' = next /\ accepted' = more /\ policy' = policy /\ now' = now
      /\ settled' = settled + IF EndsEpoch(next.height)
                                THEN chainState.pool + Reward(next.height) + block.fees ELSE 0
      /\ snapshot' = IF next.height % SnapshotEvery = 0 THEN next ELSE snapshot
  BY <1>1 DEF Connect, ValidHeader, block
<1>6. 4 * Decode(chainState.bits) + Scale < Power[MaxSize]
  BY DEF Connects
<1>7. /\ next.height = n + 1 /\ next.bits \in Forms /\ next.median \in Nat
      /\ \A i \in 1 .. Len(times) : times[i] <= now + MaxFuture
      /\ next.times = Ends(times)
      /\ next.median = Median(Last11(times)) /\ next.median <= now + MaxFuture
      /\ BoundedAt(n + 1, chainState.bits, next.bits, times[(n + 1) + 1] - times[(n + 1) + 1 - Window])
  BY <1>3, <1>5, <1>6, Applied
<1>8. /\ more \in Seq(Header) /\ Len(more) = n + 1 /\ more[n + 1] = block
      /\ \A i \in 1 .. n : more[i] = accepted[i]
      /\ times = Append(TimesOf(accepted), block.time)
  BY <1>2, <1>3, TimesGrow
<1>9. /\ next.pool = IF EndsEpoch(n + 1) THEN 0 ELSE chainState.pool + Reward(n + 1) + block.fees
  BY <1>2 DEF ApplyBlock
<1> HIDE DEF next, more, times
<1>10. Reward(n + 1) \in Nat /\ Supply(n + 1) \in Nat /\ Supply((n + 1) + 1) = Supply(n + 1) + Reward(n + 1)
  <2> DEFINE k == n + 1
  <2>1. k \in Nat \ {0}
    BY <1>2
  <2> HIDE DEF k
  <2>2. Reward(k) \in Nat /\ Supply(k) \in Nat /\ Supply(k + 1) = Supply(k) + Reward(k)
    BY <2>1, SupplyGrows
  <2> QED BY <2>2 DEF k
<1>11. block.fees \in Nat
  BY <1>3 DEF Header
<1>12. next.pool \in Nat /\ settled' \in Nat
       /\ settled' + next.pool = settled + chainState.pool + Reward(n + 1) + block.fees
  <2> DEFINE reward == Reward(n + 1)
             owed == chainState.pool
  <2>1. reward \in Nat /\ owed \in Nat /\ settled \in Nat /\ block.fees \in Nat
    BY <1>2, <1>10, <1>11
  <2>2. settled' = settled + IF EndsEpoch(n + 1) THEN owed + reward + block.fees ELSE 0
    BY <1>5, <1>7
  <2>3. next.pool = IF EndsEpoch(n + 1) THEN 0 ELSE owed + reward + block.fees
    BY <1>9
  <2> HIDE DEF reward, owed
  <2>4. CASE EndsEpoch(n + 1)
    <3>1. settled' = settled + (owed + reward + block.fees) /\ next.pool = 0
      BY <2>2, <2>3, <2>4
    <3>2. settled' \in Nat /\ settled' + next.pool = settled + owed + reward + block.fees
      BY <2>1, <3>1
    <3> QED BY <3>1, <3>2 DEF reward, owed
  <2>5. CASE ~ EndsEpoch(n + 1)
    <3>1. settled' = settled + 0 /\ next.pool = owed + reward + block.fees
      BY <2>2, <2>3, <2>5
    <3>2. settled' \in Nat /\ next.pool \in Nat /\ settled' + next.pool = settled + owed + reward + block.fees
      BY <2>1, <3>1
    <3> QED BY <3>2 DEF reward, owed
  <2> QED BY <2>4, <2>5
<1>13. settled' + next.pool = Supply((n + 1) + 1) + FeesOf(more)
  <2>1. FeesOf(accepted) \in Nat /\ FeesOf(more) = FeesOf(accepted) + block.fees
    BY <1>2, <1>3, FeesGrow DEF more
  <2>2. settled + chainState.pool = Supply(n + 1) + FeesOf(accepted)
    BY <1>2 DEF RulesIInv
  <2> QED BY <1>2, <1>10, <1>11, <1>12, <2>1, <2>2
<1>14. RulesTypes'
  <2>1. snapshot'.height \in 0 .. n + 1
    BY <1>2, <1>5, <1>7
  <2> QED BY <1>2, <1>5, <1>7, <1>8, <1>12, <2>1 DEF RulesTypes
<1>15. (\E st : Passed(st))'
  <2>1. PICK st : Passed(st)
    BY DEF RulesIInv
  <2>2. PICK new : /\ new[n + 1] = next /\ \A i \in 0 .. n : new[i] = st[i]
    <3> DEFINE new == [i \in 0 .. n + 1 |-> IF i = n + 1 THEN next ELSE st[i]]
    <3>1. new[n + 1] = next /\ \A i \in 0 .. n : new[i] = st[i]
      BY <1>2
    <3> QED BY <3>1
  <2>3. new[0] = Genesis
    <3>1. 0 \in 0 .. n /\ st[0] = Genesis
      BY <1>2, <2>1 DEF Passed
    <3> QED BY <2>2, <3>1
  <2>4. ASSUME NEW i \in 1 .. n + 1 PROVE new[i] = ApplyBlock(new[i - 1], more[i])
    <3>1. CASE i = n + 1
      <4>1. i - 1 = n /\ n \in 0 .. n
        BY <1>2, <3>1
      <4>2. new[i - 1] = chainState
        BY <2>1, <2>2, <4>1 DEF Passed
      <4> QED BY <1>8, <2>2, <3>1, <4>2 DEF next
    <3>2. CASE i # n + 1
      <4>1. i \in 1 .. n /\ i \in 0 .. n /\ i - 1 \in 0 .. n
        BY <1>2, <3>2
      <4>2. st[i] = ApplyBlock(st[i - 1], accepted[i])
        BY <2>1, <4>1 DEF Passed
      <4> QED BY <1>8, <2>2, <4>1, <4>2
    <3> QED BY <3>1, <3>2
  <2>5. new[snapshot'.height] = snapshot'
    <3>1. CASE next.height % SnapshotEvery = 0
      BY <1>5, <1>7, <2>2, <3>1
    <3>2. CASE next.height % SnapshotEvery # 0
      <4>1. st[snapshot.height] = snapshot
        BY <2>1 DEF Passed
      <4> QED BY <1>2, <1>5, <2>2, <3>2, <4>1
    <3> QED BY <3>1, <3>2
  <2>6. Len(accepted') = n + 1
    BY <1>5, <1>8
  <2>7. ASSUME NEW i \in 1 .. n + 1 PROVE new[i] = ApplyBlock(new[i - 1], accepted[i])'
    BY <1>5, <2>4, SamePolicy
  <2>8. Genesis' = Genesis
    BY DEF Genesis
  <2>9. Passed(new)'
    BY <1>5, <2>2, <2>3, <2>5, <2>6, <2>7, <2>8 DEF Passed
  <2> QED BY <2>9
<1>16. AllBounded(accepted, chainState.bits)'
  <2> SUFFICES ASSUME NEW h \in 1 .. n + 1
               PROVE  BoundedAt(h, more[h].bits, IF h = n + 1 THEN next.bits ELSE more[h + 1].bits,
                                times[h + 1] - times[h + 1 - Window])
    <3>1. Len(accepted') = n + 1 /\ TimesOf(accepted') = times
      BY <1>5, <1>8 DEF times
    <3> QED BY <1>5, <3>1, SamePolicy DEF AllBounded
  <2>1. CASE h = n + 1
    BY <1>4, <1>7, <1>8, <2>1
  <2>2. CASE h # n + 1
    <3>1. h \in 1 .. n
      BY <1>2, <2>2
    <3>2. BoundedAt(h, accepted[h].bits, IF h = n THEN chainState.bits ELSE accepted[h + 1].bits,
                    TimesOf(accepted)[h + 1] - TimesOf(accepted)[h + 1 - Window])
      BY <3>1 DEF RulesIInv, AllBounded
    <3>3. more[h].bits = accepted[h].bits
      BY <1>8, <3>1
    <3>4. more[h + 1].bits = IF h = n THEN chainState.bits ELSE accepted[h + 1].bits
      <4>1. h # n => h + 1 \in 1 .. n
        BY <1>2, <3>1
      <4> QED BY <1>4, <1>8, <4>1
    <3>5. CASE h % Window # 0
      BY <2>2, <3>2, <3>3, <3>4, <3>5 DEF BoundedAt
    <3>6. CASE h % Window = 0
      <4>1. h >= Window
        <5>1. h \in Nat \ {0} /\ Window \in Nat \ {0}
          BY <3>1 DEF RulesHypothesis
        <5> QED BY <3>6, <5>1, WholeWindow
      <4>2. h + 1 \in 1 .. n + 1 /\ h + 1 - Window \in 1 .. n + 1
        BY <1>2, <3>1, <4>1 DEF RulesHypothesis
      <4>3. TimesOf(accepted) \in Seq(Nat) /\ Len(TimesOf(accepted)) = n + 1
        BY <1>2, TimesAre
      <4>4. \A i \in 1 .. n + 1 : times[i] = TimesOf(accepted)[i]
        <5>1. block.time \in Nat
          BY <1>3 DEF Header
        <5> QED BY <1>8, <4>3, <5>1, NotEmpty
      <4>5. times[h + 1] = TimesOf(accepted)[h + 1]
            /\ times[h + 1 - Window] = TimesOf(accepted)[h + 1 - Window]
        BY <4>2, <4>4
      <4> QED BY <2>2, <3>2, <3>3, <3>4, <4>5
    <3> QED BY <3>5, <3>6
  <2> QED BY <2>1, <2>2
<1>17. TimesOf(accepted)' = times /\ FeesOf(accepted)' = FeesOf(more)
  BY <1>5 DEF times, TimesOf, FeesOf
<1>18. /\ \A i \in 1 .. Len(TimesOf(accepted)') : TimesOf(accepted)'[i] <= now' + MaxFuture
       /\ chainState'.times = Ends(TimesOf(accepted))'
       /\ chainState'.median = Median(Last11(TimesOf(accepted)))'
       /\ chainState'.median <= now' + MaxFuture
  <2>1. Ends(TimesOf(accepted))' = Ends(times) /\ Median(Last11(TimesOf(accepted)))' = Median(Last11(times))
    BY <1>17 DEF Ends, Median, Last11
  <2> QED BY <1>5, <1>7, <1>17, <2>1
<1>19. settled' + chainState'.pool = Supply(chainState.height + 1)' + FeesOf(accepted)'
  <2>1. Supply(chainState.height + 1)' = Supply((n + 1) + 1)
    <3>1. (chainState.height + 1)' = (n + 1) + 1
      BY <1>5, <1>7
    <3> QED BY <3>1
  <2> QED BY <1>5, <1>13, <1>17, <2>1
<1> QED BY <1>14, <1>15, <1>16, <1>18, <1>19 DEF RulesIInv

LEMMA RestartKeeps == RulesHypothesis /\ RulesIInv /\ Restart => UNCHANGED ruleVars
<1> SUFFICES ASSUME RulesHypothesis, RulesIInv, Restart PROVE UNCHANGED ruleVars
  OBVIOUS
<1>1. PICK st : Passed(st)
  BY DEF RulesIInv
<1>2. Len(accepted) \in Nat /\ snapshot.height \in 0 .. Len(accepted)
  BY LenProperties DEF RulesIInv, RulesTypes
<1>3. Rebuilt(snapshot)[Len(accepted)] = st[Len(accepted)]
  BY <1>1, <1>2, RebuiltIs DEF Passed
<1>4. chainState' = chainState
  BY <1>1, <1>3 DEF Restart, Passed
<1> QED BY <1>4 DEF Restart, ruleVars

\* Time passes, or nothing happens.
LEMMA WaitKeeps ==
  ASSUME RulesHypothesis, RulesIInv, now' \in Nat, now <= now',
         UNCHANGED <<policy, chainState, snapshot, accepted, settled>>
  PROVE  RulesIInv'
<1>1. now \in Nat \ {0} /\ MaxFuture \in Nat /\ now' \in Nat \ {0}
  BY DEF RulesHypothesis, RulesIInv, RulesTypes
<1>2. \A x \in Nat : x <= now + MaxFuture => x <= now' + MaxFuture
  <2>1. \A x, y, z, w \in Nat : y <= z /\ x <= y + w => x <= z + w
    OBVIOUS
  <2> QED BY <1>1, <2>1
<1>4. RulesTypes'
  BY <1>1 DEF RulesIInv, RulesTypes
<1>5. (\E st : Passed(st))'
  <2>1. PICK st : Passed(st)
    BY DEF RulesIInv
  <2>2. Genesis' = Genesis
    BY DEF Genesis
  <2>3. ASSUME NEW i \in 1 .. Len(accepted) PROVE st[i] = ApplyBlock(st[i - 1], accepted[i])'
    <3>1. st[i] = ApplyBlock(st[i - 1], accepted[i])
      BY <2>1 DEF Passed
    <3> QED BY <3>1, SamePolicy
  <2>4. Passed(st)'
    BY <2>1, <2>2, <2>3 DEF Passed
  <2> QED BY <2>4
<1>6. AllBounded(accepted, chainState.bits)'
  <2>1. Cent' = Cent
    BY DEF Cent
  <2>2. \A old, new, span : Moved(old, new, span)' <=> Moved(old, new, span)
    BY <2>1 DEF Moved
  <2>3. \A h, old, new, span : BoundedAt(h, old, new, span)' <=> BoundedAt(h, old, new, span)
    BY <2>2 DEF BoundedAt
  <2>4. TimesOf(accepted)' = TimesOf(accepted)
    BY DEF TimesOf
  <2>5. AllBounded(accepted, chainState.bits)
    BY DEF RulesIInv
  <2> QED BY <2>3, <2>4, <2>5 DEF AllBounded
<1>7. TimesOf(accepted)' = TimesOf(accepted) /\ FeesOf(accepted)' = FeesOf(accepted)
  BY DEF TimesOf, FeesOf
<1>8. \A i \in 1 .. Len(TimesOf(accepted)') : TimesOf(accepted)'[i] <= now' + MaxFuture
  <2> SUFFICES ASSUME NEW i \in 1 .. Len(TimesOf(accepted)) PROVE TimesOf(accepted)[i] <= now' + MaxFuture
    BY <1>7
  <2>1. TimesOf(accepted)[i] \in Nat
    <3>1. TimesOf(accepted) \in Seq(Nat)
      BY TimesAre DEF RulesIInv, RulesTypes
    <3> QED BY <3>1, ElementOfSeq
  <2>2. TimesOf(accepted)[i] <= now + MaxFuture
    BY DEF RulesIInv
  <2> QED BY <1>2, <2>1, <2>2
<1>9. chainState'.median <= now' + MaxFuture
  <2>1. chainState.median \in Nat /\ chainState.median <= now + MaxFuture
    BY DEF RulesIInv, RulesTypes
  <2> QED BY <1>2, <2>1
<1>10. /\ chainState'.times = Ends(TimesOf(accepted))'
       /\ chainState'.height > 0 => chainState'.median = Median(Last11(TimesOf(accepted)))'
       /\ settled' + chainState'.pool = Supply(chainState.height + 1)' + FeesOf(accepted)'
  BY <1>7 DEF RulesIInv, Ends, Median, Last11
<1> QED BY <1>4, <1>5, <1>6, <1>8, <1>9, <1>10 DEF RulesIInv

LEMMA RulesKeep ==
  ASSUME RulesHypothesis
  PROVE  RulesIInv /\ [RulesNext]_ruleVars => RulesIInv'
<1> SUFFICES ASSUME RulesIInv, [RulesNext]_ruleVars PROVE RulesIInv'
  OBVIOUS
<1>1. now \in Nat
  BY DEF RulesIInv, RulesTypes
<1>2. CASE Tick
  <2>1. PICK step \in Waits : now' = now + step /\ UNCHANGED <<policy, chainState, snapshot, accepted, settled>>
    BY <1>2 DEF Tick
  <2>2. step \in Nat
    BY DEF RulesHypothesis
  <2>3. now' \in Nat /\ now <= now'
    BY <1>1, <2>1, <2>2
  <2> QED BY <2>1, <2>3, WaitKeeps
<1>3. CASE UNCHANGED ruleVars \/ Restart
  <2>1. now' = now /\ UNCHANGED <<policy, chainState, snapshot, accepted, settled>>
    BY <1>3, RestartKeeps DEF ruleVars
  <2>2. now' \in Nat /\ now <= now'
    BY <1>1, <2>1
  <2> QED BY <2>1, <2>2, WaitKeeps
<1>4. CASE Connects
  BY <1>4, ConnectKeeps
<1> QED BY <1>2, <1>3, <1>4 DEF RulesNext

\* For any window, eras, reward, compact form, fees and clock, under either policy and
\* over any restarts: the target the chain asks for can be written in a header and
\* moves with whole windows only, in proportion to their time and at most fourfold;
\* the median is no further ahead than one block could go; and what was paid and is
\* pending is the emission, below its cap, and the fees (consensus/emission.ts,
\* config/difficulty-policy.ts, consensus/epoch.ts, network/node.ts).
THEOREM RulesAddUp ==
  ASSUME RulesHypothesis
  PROVE  RulesSpec => []RulesInv
<1>1. RulesInit => RulesIInv
  BY RulesStart
<1>2. RulesIInv /\ [RulesNext]_ruleVars => RulesIInv'
  BY RulesKeep
<1>3. RulesIInv => RulesInv
  BY RulesImplies
<1> QED BY <1>1, <1>2, <1>3, PTL DEF RulesSpec
=============================================================================
