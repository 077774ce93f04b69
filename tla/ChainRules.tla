------------------------------ MODULE ChainRules ------------------------------
(***************************************************************************)
(* The rules that follow from the chain alone: the time window of a block  *)
(* (consensus/validation.ts), compact difficulty targets and retargeting   *)
(* (consensus/emission.ts, config/difficulty-policy.ts), the emission and  *)
(* the epoch reward pool (consensus/epoch.ts), and their restoration from  *)
(* a snapshot and the blocks above it (network/node.ts).                   *)
(*                                                                         *)
(* Integers are exact; the compact form keeps Digits digits of base Base   *)
(* (three bytes in the code).  The pilot policy, which the code computes   *)
(* in floating point, is computed here with exact halves rounded up.       *)
(***************************************************************************)
EXTENDS Integers, SequencesExt, FiniteSetsExt, Functions

CONSTANTS
  Window,       \* RETARGET_WINDOW_BLOCKS
  Interval,     \* TARGET_BLOCK_INTERVAL_SECONDS
  MedianSpan,   \* 11
  MaxFuture,    \* 7200
  EpochBlocks, EraLength,
  Initial,      \* INITIAL_BLOCK_REWARD_SATOSHIS
  Base, Digits, \* of the compact target
  MaxSize,      \* of a target in digits: beyond 255 there is no compact form
  Scale, Cents, \* units in a TFLOPS, and the pilot's rounding of one
  FirstTarget,  \* of genesis, in units
  FeeTotals,    \* fees a block may collect
  SnapshotEvery,
  Waits,        \* steps of the clock
  MaxChain, MaxTime   \* bounds

VARIABLES
  policy,      \* "pilot" or "exact", by the chain identity
  chainState,  \* what later blocks are judged by
  snapshot,    \* the last chain state written to disk
  accepted,    \* the blocks above genesis: [time, bits, fees]
  settled,     \* what the settlements have paid
  now          \* the clock

ruleVars == <<policy, chainState, snapshot, accepted, settled, now>>

-----------------------------------------------------------------------------
(* Compact targets.                                                        *)

Power[n \in Nat] == IF n = 0 THEN 1 ELSE Base * Power[n - 1]

\* A quarter of the retarget span is whole seconds, the pilot's rounding whole units.
RulesHypothesis ==
  /\ Window \in Nat \ {0} /\ Interval \in Nat \ {0} /\ (Window * Interval) % 4 = 0
  /\ MedianSpan \in 1 .. Window + 1 /\ MaxFuture \in Nat
  /\ EpochBlocks \in Nat \ {0} /\ EraLength \in Nat \ {0} /\ Initial \in Nat \ {0}
  /\ Base \in Nat \ {0, 1} /\ Digits \in Nat \ {0} /\ MaxSize \in Nat \ {0}
  /\ Scale \in Nat \ {0} /\ Cents \in Nat \ {0} /\ Scale % Cents = 0
  /\ FirstTarget \in Nat \ {0} /\ FirstTarget < Power[MaxSize]
  /\ FeeTotals \subseteq Nat /\ SnapshotEvery \in Nat \ {0}
  /\ Waits \subseteq Nat /\ MaxChain \in Nat /\ MaxTime \in Nat

Width(target) ==
  CHOOSE n \in 1 .. MaxSize : Power[n - 1] <= target /\ target < Power[n]

Encode(target) ==
  LET n == Width(target) IN
  [size |-> n, mantissa |-> IF n > Digits THEN target \div Power[n - Digits]
                                          ELSE target * Power[Digits - n]]

Decode(bits) ==
  IF bits.size < Digits THEN bits.mantissa \div Power[Digits - bits.size]
                        ELSE bits.mantissa * Power[bits.size - Digits]

Canonical(bits) == Decode(bits) > 0 /\ Encode(Decode(bits)) = bits

TargetSpan == Window * Interval
AtMost(x, y) == IF x < y THEN x ELSE y
AtLeast(x, y) == IF x > y THEN x ELSE y
Clamped(span) == AtLeast(TargetSpan \div 4, AtMost(TargetSpan * 4, span))

\* calculateNextDifficultyTargetExact
NextTarget(target, span) == AtLeast(1, (target * TargetSpan) \div Clamped(span))

\* The pilot rounds to hundredths and does not go below one TFLOPS.
PilotTarget(target, span) ==
  LET over == Clamped(span) * Scale
      cents == (2 * target * TargetSpan * Cents + over) \div (2 * over)
  IN  AtLeast(Scale, (cents * Scale) \div Cents)

NextBits(bits, span) ==
  Encode(IF policy = "pilot" THEN PilotTarget(Decode(bits), span)
                             ELSE NextTarget(Decode(bits), span))

-----------------------------------------------------------------------------
(* Emission: a reward that loses a quarter each era, rounded down.         *)

Era(height) == height \div EraLength

RewardOfEra[e \in Nat] == IF e = 0 THEN Initial ELSE (RewardOfEra[e - 1] * 3) \div 4

Reward(height) == RewardOfEra[Era(height)]

\* getCumulativeSupply, era by era, under the cap of the geometric series.
HardCap == 4 * Initial * EraLength
Supply(height) ==
  AtMost(HardCap,
         SumFunction([e \in 0 .. Era(AtLeast(0, height - 1)) |->
                        RewardOfEra[e] * AtMost(EraLength, height - e * EraLength)]))

-----------------------------------------------------------------------------
(* The chain state, and what a block does to it.                           *)

\* In order, the time with half of the others before it.
Median(times) ==
  Min({t \in Range(times) :
         Len(times) \div 2 < Cardinality({i \in DOMAIN times : times[i] <= t})})
Last11(times) == SubSeq(times, AtLeast(1, Len(times) - MedianSpan + 1), Len(times))

Genesis ==
  [height |-> 0, times |-> <<1>>, median |-> 0, bits |-> Encode(FirstTarget),
   index |-> 1, pool |-> Reward(0), fees |-> 0]

EndsEpoch(height) == height % EpochBlocks = EpochBlocks - 1

\* Mutant: the window holds one time too few to span a whole retarget period.
KeptShort(times) ==
  IF Len(times) > Window THEN Tail(times) ELSE times

Kept(times) == IF Len(times) > Window + 1 THEN Tail(times) ELSE times

\* retargetDifficulty
Retargeted(bits, times) ==
  IF Len(times) < 2 THEN bits
  ELSE NextBits(bits, Last(times) - times[AtLeast(1, Len(times) - Window)])

\* applyBlockState: the pool takes the subsidy of this height and the fees.
ApplyBlock(s, block) ==
  LET height == s.height + 1
      times == Kept(Append(s.times, block.time))
      ends == EndsEpoch(height)
  IN  [height |-> height, times |-> times, median |-> Median(Last11(times)),
       bits |-> IF height % Window = 0 THEN Retargeted(s.bits, times) ELSE s.bits,
       index |-> IF ends THEN 0 ELSE s.index + 1,
       pool |-> IF ends THEN 0 ELSE s.pool + Reward(height) + block.fees,
       fees |-> IF ends THEN 0 ELSE s.fees + block.fees]

\* Mutant: a block may be older than the ones before it.
ValidHeaderAnyTime(s, block) ==
  /\ block.time <= now + MaxFuture
  /\ Canonical(block.bits) /\ block.bits = s.bits

\* validateBlockHeader and the target of validateBlockSync.
ValidHeader(s, block) ==
  /\ block.time > s.median
  /\ block.time <= now + MaxFuture
  /\ Canonical(block.bits)
  /\ block.bits = s.bits

-----------------------------------------------------------------------------
RulesInit ==
  /\ policy \in {"pilot", "exact"}
  /\ chainState = Genesis /\ snapshot = Genesis
  /\ accepted = <<>> /\ settled = 0 /\ now = 1

\* A block is accepted.  A boundary block pays the whole pool
\* (validateCoinbaseTx checks it against computeEpochSettlement); the snapshot
\* is written after the block is applied.
Connect(block) ==
  /\ ValidHeader(chainState, block)
  /\ chainState.index = (chainState.height + 1) % EpochBlocks
  /\ chainState' = ApplyBlock(chainState, block)
  /\ accepted' = Append(accepted, block)
  /\ settled' = settled + IF EndsEpoch(chainState'.height)
                            THEN chainState.pool + Reward(chainState'.height) + block.fees
                            ELSE 0
  /\ snapshot' = IF chainState'.height % SnapshotEvery = 0 THEN chainState' ELSE snapshot
  /\ UNCHANGED <<policy, now>>

\* loadSnapshotIntoChain, then the blocks of the log above it.
Rebuilt(base) ==
  LET after[h \in base.height .. Len(accepted)] ==
        IF h = base.height THEN base ELSE ApplyBlock(after[h - 1], accepted[h])
  IN  after

Restart ==
  /\ snapshot.height < chainState.height
  /\ chainState' = Rebuilt(snapshot)[Len(accepted)]
  /\ UNCHANGED <<policy, snapshot, accepted, settled, now>>

\* Blocks come soon after each other or after a long wait.
Tick ==
  \E step \in Waits :
    /\ now + step <= MaxTime /\ now' = now + step
    /\ UNCHANGED <<policy, chainState, snapshot, accepted, settled>>

\* The model's chain ends before a target could outgrow its compact form.
Connects ==
  /\ chainState.height < MaxChain
  /\ 4 * Decode(chainState.bits) + Scale < Power[MaxSize]
  /\ \E time \in {1, chainState.median + 1, now, now + MaxFuture}, fees \in FeeTotals :
       Connect([time |-> time, bits |-> chainState.bits, fees |-> fees])

RulesNext == Connects \/ Restart \/ Tick

RulesSpec == RulesInit /\ [][RulesNext]_ruleVars

-----------------------------------------------------------------------------
History == <<1>> \o [i \in DOMAIN accepted |-> accepted[i].time]

\* The times kept are the end of the chain's, long enough for a whole window.
WindowComplete ==
  /\ chainState.times = SubSeq(History, AtLeast(1, Len(History) - Window), Len(History))
  /\ chainState.height > 0 => chainState.median = Median(Last11(History))

\* The targets the chain went through, as its headers and the next one tell.
BitsAt(height) == IF height > chainState.height THEN chainState.bits ELSE accepted[height].bits

\* A target moves with a full window only, in proportion to the time it took and at
\* most fourfold, except for what its compact form cuts off and the pilot rounds.
Ulp(target) == LET n == Width(target) IN IF n > Digits THEN Power[n - Digits] ELSE 1
Cent == IF policy = "pilot" THEN Scale \div Cents ELSE 0
RetargetBounded ==
  \A h \in 1 .. chainState.height :
    LET old == Decode(BitsAt(h))  new == Decode(BitsAt(h + 1))
        span == Clamped(History[h + 1] - History[h + 1 - Window])
    IN  /\ h % Window # 0 => BitsAt(h + 1) = BitsAt(h)
        /\ h % Window = 0 =>
             /\ new <= AtLeast(4 * old + Cent, Scale)
             /\ 4 * (new + Ulp(new) + Cent) >= old
             /\ policy = "exact" =>
                  /\ new * span <= AtLeast(span, old * TargetSpan)
                  /\ (new + Ulp(new)) * span > old * TargetSpan

\* What was paid and what is pending is the emission to here and the fees.
EmissionExact ==
  /\ settled + chainState.pool =
       Supply(chainState.height + 1) + SumFunction([i \in DOMAIN accepted |-> accepted[i].fees])
  /\ Supply(chainState.height + 1) < HardCap

(* The rules leave the chain open: the target it asks for can be written   *)
(* in a header and is in proportion to the time the last whole window      *)
(* took, and no run of fast clocks puts the median further ahead than one  *)
(* block could go.  No unit of reward appears or is lost between epochs.   *)
RulesInv ==
  /\ Canonical(chainState.bits)
  /\ WindowComplete
  /\ RetargetBounded
  /\ EmissionExact
  /\ chainState.median <= now + MaxFuture
==============================================================================
