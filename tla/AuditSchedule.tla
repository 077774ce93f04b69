---------------------------- MODULE AuditSchedule ----------------------------
(***************************************************************************)
(* Who audits what (broker/audit-schedule.ts), from the bonds of the       *)
(* active chain (consensus/validator-bonds.ts), as blocks that carry audit *)
(* verdicts are validated (validateAuditVerdicts); and the stake-weighted  *)
(* proposer draw over the same bonds (consensus/proposer.ts).              *)
(*                                                                         *)
(* A block is known by the chain up to it, as its hash commits to all of   *)
(* that.  Requests travel: they are built on one branch, possibly forged,  *)
(* and judged by nodes that have grown further or reorganized meanwhile.   *)
(***************************************************************************)
EXTENDS Integers, FiniteSetsExt, Functions, SequencesExt

CONSTANTS
  Claimant, ValidatorId,  \* ids; a claimant may be a validator too
  Body,                 \* what a block may carry: [claims, bond, spend]
  Stake,                \* the value of a bond output
  WindowSize, BeaconDelay, CommitteeSize, MinimumBond,  \* AuditPolicy
  LeastCommittee,  \* what a request's shape asks for
  DigestOf(_, _, _),    \* a digest of a purpose, a beacon and an item: a number
  Sampled(_, _),        \* the extra draw of a beacon and a claim is below p
  MaxBlocks, MaxRequests, MaxForged  \* bounds: a forged request is among the
                                     \* first MaxForged

\* The ids of validators have an order, a window has blocks.
ScheduleHypothesis ==
  /\ ValidatorId \in SUBSET Nat /\ IsFiniteSet(ValidatorId)
  /\ Body \subseteq [claims : Seq(Claimant), bond : SUBSET ValidatorId, spend : SUBSET ValidatorId]
  /\ {Stake, BeaconDelay, CommitteeSize, MinimumBond, MaxBlocks} \subseteq Nat
  /\ WindowSize \in Nat \ {0}

VARIABLES
  blocks,   \* the active chain above genesis: a body and its verdicts
  requests  \* AuditAssignments that were built or forged anywhere

scheduleVars == <<blocks, requests>>

ScheduleInit == blocks = <<>> /\ requests = {}

Prefix(chain, h) == SubSeq(chain, 1, h)
------------------------------------------------------------------------------
(* Bonds *)

\* validatorStakeSnapshot: the unspent bond outputs; a spend takes them all.
Snapshot(chain) ==
  [v \in ValidatorId |-> Stake * Cardinality(
     {h \in DOMAIN chain : /\ v \in chain[h].bond
                           /\ \A g \in h + 1 .. Len(chain) : v \notin chain[g].spend})]

Roster(stakes) == {v \in ValidatorId : stakes[v] > 0}
------------------------------------------------------------------------------
(* The schedule *)

WindowOf(i) ==
  [start |-> i * WindowSize + 1, end |-> (i + 1) * WindowSize,
   beacon |-> (i + 1) * WindowSize + BeaconDelay]

\* The window's claims; a claim's id is its block and its place in it.
ClaimsOf(chain, w) ==
  UNION {{[block |-> Prefix(chain, h), index |-> k, claimant |-> chain[h].claims[k]] :
            k \in DOMAIN chain[h].claims} : h \in w.start .. Min({w.end, Len(chain)})}

\* Canonical order of what is drawn with equal digests.
Earlier(c, d) == \/ Len(c.block) < Len(d.block)
                 \/ Len(c.block) = Len(d.block) /\ c.index < d.index

\* rank: the first of a claimant's claims under the beacon.
Coverage(claims, claimant, beacon) ==
  LET own == {c \in claims : c.claimant = claimant}
      Key(c) == DigestOf("coverage", beacon, c)
  IN CHOOSE c \in own : \A d \in own \ {c} : Key(c) < Key(d) \/ (Key(c) = Key(d) /\ Earlier(c, d))

\* selectCommittee
Committee(claim, stakes, beacon) ==
  LET Key(v) == DigestOf("committee", beacon, <<claim, v>>)
      eligible == {v \in Roster(stakes) : stakes[v] >= MinimumBond /\ v # claim.claimant}
      ranked == CHOOSE s \in SetToSeqs(eligible) : \A i, j \in DOMAIN s : i < j =>
                  Key(s[i]) < Key(s[j]) \/ (Key(s[i]) = Key(s[j]) /\ s[i] < s[j])
  IN SubSeq(ranked, 1, Min({CommitteeSize, Len(ranked)}))

\* Mutant: only one claim of the window is covered.
CoverFirst(claims, beacon) ==
  LET first == {c \in claims : \A d \in claims \ {c} : Earlier(c, d)} IN
  {[claim |-> c, reason |-> "coverage"] : c \in first}
    \cup {[claim |-> c, reason |-> "random-sample"] : c \in {d \in claims \ first : Sampled(beacon, d)}}

\* One claim of every claimant, and the extra samples.
Selection(claims, beacon) ==
  LET floor == {Coverage(claims, n, beacon) : n \in {c.claimant : c \in claims}} IN
  {[claim |-> c, reason |-> "coverage"] : c \in floor}
    \cup {[claim |-> c, reason |-> "random-sample"] : c \in {d \in claims \ floor : Sampled(beacon, d)}}

\* buildAuditSchedule, with the state at the beacon.
Schedule(beacon, index, stakes) ==
  LET chosen == Selection(ClaimsOf(beacon, WindowOf(index)), beacon) IN
  {[window |-> index, claim |-> s.claim, beacon |-> beacon, reason |-> s.reason,
    committee |-> Committee(s.claim, stakes, beacon)] :
     s \in {x \in chosen : Len(Committee(x.claim, stakes, beacon)) = CommitteeSize}}

Uncovered(beacon, index, stakes) ==
  {s.claim.claimant : s \in {x \in Selection(ClaimsOf(beacon, WindowOf(index)), beacon) :
     x.reason = "coverage" /\ Len(Committee(x.claim, stakes, beacon)) < CommitteeSize}}
------------------------------------------------------------------------------
(* Verdicts in blocks *)

\* Mutant: the committee is checked against the bonds of today.
StakesOfTip(chain, beacon) == Snapshot(chain)
\* The UTXO set replayed to the beacon.
StakesAt(chain, beacon) == Snapshot(beacon)

\* validateRequestShape and validateAuditVerdictRecord, of the assignment.
WellFormed(a) ==
  /\ Len(a.committee) >= LeastCommittee /\ IsInjective(a.committee)
  /\ a.claim.claimant \notin ToSet(a.committee)
  /\ Len(a.claim.block) <= Len(a.beacon)

CommittedVerdicts(chain) == UNION {chain[h].verdicts : h \in DOMAIN chain}

\* Mutant: a request's own committee is believed.
ValidAnyCommittee(chain, a) ==
  LET w == WindowOf(a.window) IN
  /\ a \notin CommittedVerdicts(chain)
  /\ WellFormed(a)
  /\ Len(a.claim.block) \in w.start .. w.end /\ Len(a.beacon) = w.beacon
  /\ IsPrefix(a.beacon, chain) /\ IsPrefix(a.claim.block, chain)

\* The checks of validateAuditVerdicts for a block on top of chain.
Valid(chain, a) ==
  LET w == WindowOf(a.window) IN
  /\ a \notin CommittedVerdicts(chain)
  /\ WellFormed(a)
  /\ Len(a.claim.block) \in w.start .. w.end /\ Len(a.beacon) = w.beacon
  /\ IsPrefix(a.beacon, chain) /\ IsPrefix(a.claim.block, chain)
  /\ LET stakes == StakesAt(chain, a.beacon) IN
     Roster(stakes) # {} => a \in Schedule(a.beacon, a.window, stakes)
------------------------------------------------------------------------------
(* Steps *)

Extend(body) ==
  /\ Len(blocks) < MaxBlocks
  /\ \E verdicts \in SUBSET {r \in requests : Valid(blocks, r)} :
       blocks' = Append(blocks, [claims |-> body.claims, bond |-> body.bond,
                                 spend |-> body.spend, verdicts |-> verdicts])
  /\ UNCHANGED requests

Disconnect ==
  /\ \E h \in 0 .. Len(blocks) - 1 : blocks' = Prefix(blocks, h)
  /\ UNCHANGED requests

\* A node that has the beacon asks for an audit of its schedule.
Requested(index) ==
  LET b == WindowOf(index).beacon IN
  /\ Len(blocks) >= b /\ Cardinality(requests) < MaxRequests
  /\ \E a \in Schedule(Prefix(blocks, b), index, StakesAt(blocks, Prefix(blocks, b))) :
       requests' = requests \cup {a}
  /\ UNCHANGED blocks

\* Anyone names a committee of its choice for any claim.
Forge(index) ==
  LET b == WindowOf(index).beacon IN
  /\ Len(blocks) >= b /\ Cardinality(requests) < MaxForged
  /\ \E claim \in ClaimsOf(blocks, WindowOf(index)),
        members \in TupleOf(ValidatorId, CommitteeSize) :
       requests' = requests \cup
         {[window |-> index, claim |-> claim, beacon |-> Prefix(blocks, b),
           reason |-> "coverage", committee |-> members]}
  /\ UNCHANGED blocks

Windows == {i \in 0 .. MaxBlocks : WindowOf(i).beacon <= MaxBlocks}

ScheduleNext ==
  \/ \E body \in Body : Extend(body)
  \/ Disconnect
  \/ \E i \in Windows : Requested(i)
  \/ \E i \in Windows : Forge(i)

ScheduleSpec == ScheduleInit /\ [][ScheduleNext]_scheduleVars
------------------------------------------------------------------------------
(* The proposer draw *)

\* selectBlockProposer: the validator whose interval the draw falls in.
Proposer(stakes, draw) ==
  CHOOSE v \in Roster(stakes) :
    LET before == SumFunctionOnSet(stakes, {u \in Roster(stakes) : u < v}) IN
    before <= draw /\ draw < before + stakes[v]
------------------------------------------------------------------------------
(* Properties *)

\* What a chain has committed was decided by strangers with a bond: the
\* claimant never, no validator twice, and, once anyone had bonded, only
\* validators bonded at the beacon; a claim has one audit per beacon and
\* window, whoever asked for it and whatever was bonded or spent since
\* (validateAuditVerdicts).
CommitteesIndependent ==
  \A h \in DOMAIN blocks : \A a \in blocks[h].verdicts :
    LET stakes == Snapshot(a.beacon) IN
    /\ IsPrefix(a.beacon, blocks) /\ Len(a.beacon) < h /\ IsPrefix(a.claim.block, a.beacon)
    /\ a.claim.claimant \notin ToSet(a.committee) /\ IsInjective(a.committee)
    /\ Roster(stakes) # {} =>
         /\ \A i \in DOMAIN a.committee : stakes[a.committee[i]] >= MinimumBond
         /\ \A b \in CommittedVerdicts(blocks) : a.claim = b.claim => a = b

\* A scheduled audit stays committable while its beacon stays: no later bond,
\* spend or block takes it away until it is committed (validateAuditVerdicts
\* judges by the beacon's state, not by the tip's).
StaysValid ==
  \A a \in requests :
    Valid(blocks, a) /\ IsPrefix(a.beacon, blocks') =>
      Valid(blocks', a) \/ a \in CommittedVerdicts(blocks')

ScheduledStaysValid == [][StaysValid]_scheduleVars

\* Every claimant of a finished window has exactly one covered claim, or is
\* reported uncovered, never both (buildAuditSchedule); and over all draws
\* each validator proposes in exact proportion to its stake, whatever has
\* been bonded and spent (selectBlockProposer).
EveryoneCovered ==
  /\ \A i \in Windows : Len(blocks) >= WindowOf(i).beacon =>
       LET beacon == Prefix(blocks, WindowOf(i).beacon)
           stakes == Snapshot(beacon)
           covered == {a \in Schedule(beacon, i, stakes) : a.reason = "coverage"}
       IN \A n \in {c.claimant : c \in ClaimsOf(beacon, WindowOf(i))} :
            Cardinality({a \in covered : a.claim.claimant = n})
              = IF n \in Uncovered(beacon, i, stakes) THEN 0 ELSE 1
  /\ LET stakes == Snapshot(blocks)
         total == SumFunction(stakes)
     IN total > 0 => \A v \in ValidatorId :
          Cardinality({d \in 0 .. total - 1 : Proposer(stakes, d) = v}) = stakes[v]

\* Both: who decided what is committed, and who is covered and proposes
\* (audit-schedule.ts, validateAuditVerdicts, proposer.ts).
ScheduleInv == CommitteesIndependent /\ EveryoneCovered
==============================================================================
