------------------------------ MODULE MCLedger ------------------------------
(***************************************************************************)
(* What blocks carry and pay, in one run: the ledger and the pool, the     *)
(* rules of time, difficulty and emission, the encodings, the proofs and   *)
(* the miners' proof contributions, and the wallet.  They share no state   *)
(* here, so each is explored by itself: the initial state chooses the part *)
(* that moves.                                                             *)
(***************************************************************************)
EXTENDS MCMempool, Wallet, ChainRules

VARIABLES part,
          height, pending, made, wire, mined, tasks, losses,   \* of the contributions
          s1, s2, s3, s4, s5, s6, s7, s8                        \* of the other parts

slots == <<s1, s2, s3, s4, s5, s6, s7, s8>>
pilotVars == <<height, pending, made, wire, mined, tasks, losses>>
ledgerVars == <<part, vars, pilotVars, walletVars, ruleVars, slots>>

-----------------------------------------------------------------------------
\* Two miners, one beside the producer and one at another node.
Pilot == INSTANCE Contributions WITH
  Node <- {"a", "b"}, Producer <- "a", Miner <- {1, 2},
  Home <- [p \in {1, 2} |-> IF p = 1 THEN "a" ELSE "b"], Weight <- [p \in {1, 2} |-> 10],
  Target <- 10, MaxHeight <- 2, MaxTasks <- 6, MaxLosses <- 1

ASSUME RulesConstants == RulesHypothesis

\* One witness per circuit, over the field of three elements.
Circuits == {"conv", "matvec"}
WitnessOf == [c \in Circuits |-> IF c = "conv" THEN {<<<<1, 0, 1>>, <<1, 1>>>>}
                                 ELSE {<<<<1, 0, 0, 1>>, <<1, 1>>>>}]
FlopsOf == [c \in Circuits |-> IF c = "conv" THEN 8 ELSE 9]
PilotProofs == INSTANCE ProofSystem WITH
  Prime <- 3, Field <- 9999999, Circuit <- Circuits, Witness <- WitnessOf, Flops <- FlopsOf,
  Least <- [c \in Circuits |-> 5], Most <- [c \in Circuits |-> 9], Epoch <- {1, 2},
  Claimed <- {8, 9}, Production <- FALSE, MaxContributions <- 2, MaxProofs <- 1,
  pk <- s1, rounds <- s2, registry <- s3, proofs <- s4, mode <- s5, module <- s6,
  pqMode <- s7, up <- s8
MainnetProofs == INSTANCE ProofSystem WITH
  Prime <- 3, Field <- 9999999, Circuit <- Circuits, Witness <- WitnessOf, Flops <- FlopsOf,
  Least <- [c \in Circuits |-> 5], Most <- [c \in Circuits |-> 9], Epoch <- {1, 2},
  Claimed <- {8, 9}, Production <- TRUE, MaxContributions <- 2, MaxProofs <- 1,
  pk <- s1, rounds <- s2, registry <- s3, proofs <- s4, mode <- s5, module <- s6,
  pqMode <- s7, up <- s8

ASSUME PilotConstants == Pilot!MiningHypothesis /\ PilotProofs!ProofHypothesis

\* Small blocks: lists of 0 to 2 transactions, contributions and verdicts.
EncInput(script) == [txid |-> 1, vout |-> 0, scriptSig |-> script, sequence |-> 7]
EncOutput(v) == [value |-> v, scriptPubKey |-> <<5, 0>>]
EncTx(ins, outs, ref) ==
  [version |-> 1, inputs |-> ins, outputs |-> outs, locktime |-> 0, hasRef |-> ref # <<>>, ref |-> ref]
EncHeader ==
  [version |-> 3, prevHash |-> 0, merkleRoot |-> 0, computeRoot |-> 0, epochRoot |-> 0,
   auditRoot |-> 0, timestamp |-> 0, height |-> 0]
EncTxLists ==
  {<<>>, <<EncTx(<<>>, <<EncOutput(0)>>, <<>>)>>,
   <<EncTx(<<EncInput(<<>>)>>, <<EncOutput(1), EncOutput(17)>>, <<1>>),
     EncTx(<<EncInput(<<1, 2, 3, 4, 5, 6, 7>>)>>, <<>>, <<>>)>>}
\* The last two lists differ, and have one leaf.
Ones(k) == [i \in 1 .. k |-> 1]
EncProof(m, j, k) ==
  [miner |-> <<m>>, proof |-> Ones(j), circuit |-> Ones(k), inputs |-> <<<<1>>, <<>>>>, weight |-> 9]
EncProofLists ==
  {<<>>, <<EncProof(2, 70, 0), EncProof(1, 0, 1)>>, <<EncProof(1, 3, 2)>>, <<EncProof(1, 2, 3)>>}
EncVerdict(i) == [id |-> i, result |-> 1]
EncLeaves ==
  {[i \in 1 .. n |-> <<i>>] : n \in 0 .. 6}
    \cup {<<<<1>>, <<2>>, <<3>>, <<3>>>>, <<<<2>>, <<1>>>>}

Codec == INSTANCE Encodings WITH
  Base <- 8, Half <- 16, Previous <- {EncHeader}, TxLists <- EncTxLists,
  ProofLists <- EncProofLists,
  AuditLists <- {<<>>, <<EncVerdict(2), EncVerdict(1)>>}, Leaves <- EncLeaves,
  Magics <- <<1, 2>>, Types <- 2, MaxPayload <- 2, Payloads <- {<<>>, <<1>>, <<1, 2>>},
  Fresh <- <<0, 0>>,
  block <- s1, buffer <- s2, trees <- s3, message <- s4, frame <- s5

\* Coins of both kinds, mature and not, the wallet's and another's.
Owned(i, v, h, cb, m) == [id |-> i, value |-> v, height |-> h, coinbase |-> cb, mine |-> m]
MCCoin ==
  {Owned(1, 2, 0, FALSE, TRUE), Owned(2, 3, 1, TRUE, TRUE), Owned(3, 2, 2, TRUE, TRUE),
   Owned(4, 4, 1, FALSE, FALSE), Owned(5, 1, 1, FALSE, TRUE)}
MCAccountName == <<100, 101>>

ASSUME WalletConstants == WalletHypothesis
ASSUME EncodingConstants == Codec!EncodingHypothesis

-----------------------------------------------------------------------------
Parts == {"ledger", "rules", "pilot", "pilot proofs", "mainnet proofs", "codec", "wallet"}
Unused(slot) == slot = 0

LedgerInit ==
  /\ part \in Parts /\ Init /\ Pilot!MiningInit /\ WalletInit
  /\ RulesInit /\ (part # "rules" => policy = "exact")
  /\ CASE part = "pilot proofs" -> PilotProofs!ProofInit
       [] part = "mainnet proofs" -> MainnetProofs!ProofInit
       [] part = "codec" -> Codec!EncodingInit /\ Unused(s6) /\ Unused(s7) /\ Unused(s8)
       [] OTHER -> /\ Unused(s1) /\ Unused(s2) /\ Unused(s3) /\ Unused(s4)
                   /\ Unused(s5) /\ Unused(s6) /\ Unused(s7) /\ Unused(s8)

Still == UNCHANGED <<part, vars, ruleVars, pilotVars, walletVars>>

LedgerNext ==
  \/ part = "ledger" /\ Next /\ UNCHANGED <<part, ruleVars, pilotVars, walletVars, slots>>
  \/ part = "rules" /\ RulesNext /\ UNCHANGED <<part, vars, pilotVars, walletVars, slots>>
  \/ part = "pilot" /\ Pilot!MiningNext /\ UNCHANGED <<part, vars, ruleVars, walletVars, slots>>
  \/ part = "pilot proofs" /\ PilotProofs!ProofNext /\ Still
  \/ part = "mainnet proofs" /\ MainnetProofs!ProofNext /\ Still
  \/ part = "codec" /\ Codec!EncodingNext /\ Still /\ UNCHANGED <<s6, s7, s8>>
  \/ part = "wallet" /\ WalletNext /\ UNCHANGED <<part, vars, ruleVars, pilotVars, slots>>

\* The fairness is the contributions'; the other parts have safety properties only.
LedgerSpec == LedgerInit /\ [][LedgerNext]_ledgerVars /\ Pilot!Fairness

-----------------------------------------------------------------------------
(* The parts' properties, under their own names.                            *)
ProofsInv == /\ part = "pilot" => Pilot!ProofsInv
             /\ part = "pilot proofs" => PilotProofs!ProofSystemInv
             /\ part = "mainnet proofs" => MainnetProofs!ProofSystemInv
KeepsProducing == part = "pilot" => Pilot!KeepsProducing
EncodingInv == part = "codec" => Codec!EncodingInv
=============================================================================
