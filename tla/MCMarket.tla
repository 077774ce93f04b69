------------------------------ MODULE MCMarket ------------------------------
(***************************************************************************)
(* The market for computation in one run: audits, the schedule that draws  *)
(* them, the broker that hands out work, the quorum that judges it, the    *)
(* token contracts that pay for it, and the data directory a node keeps.   *)
(* They share no state here, so each is explored by itself: the initial    *)
(* state chooses the part that moves.                                      *)
(***************************************************************************)
EXTENDS MCAuditLifecycle, AuditSchedule, Challenges, DataDirectory, TokenContracts, ComputeBroker

VARIABLE part

marketVars ==
  <<part, vars, scheduleVars, challengeVars, directoryVars, tokenVars, brokerVars>>

-----------------------------------------------------------------------------
(* Two nodes of sizes 1 and 2, a bid that outpays the fallback's and a JG   *)
(* task that only the second can run.                                       *)
Works == Bid \cup Task
MCCapacity == [n \in ComputeNode |-> n]
MCPrice == [b \in Bid |-> 1]
MCDemand == [w \in Works |-> IF w = "train" THEN 1 ELSE 2]
MCLeast == [w \in Works |-> 1]
MCExpiry == [b \in Bid |-> IF b = "dear" THEN 2 ELSE 3]
MCRandomBid(n) == "science"
MCSupports == (ComputeNode \X Works) \ {<<2, "train">>}

ASSUME BrokerConstants == BrokerHypothesis

\* Two bodies of blocks; the draws depend on every block up to the beacon.
ScheduleBodies == {[claims |-> <<1, 2>>, bond |-> {}, spend |-> {1}],
                   [claims |-> <<2>>, bond |-> {1, 2, 3}, spend |-> {}]}
Digest(chain) ==
  FoldSeq(LAMBDA b, n : Len(b.claims) + 2 * Cardinality(b.spend) + 3 * n, 1, chain)
Drawn(purpose, chain, x) ==
  IF purpose = "coverage" THEN (Digest(chain) * (x.index + 2 * Len(x.block))) % 7
  ELSE (Digest(chain) * (x[1].index + 3 * x[2])) % 5
Extra(chain, x) == (Digest(chain) + x.index) % 2 = 0

ASSUME ScheduleConstants == ScheduleHypothesis

\* Token contracts: rewards of a half per interval, two units of ether for one.
MCReward == <<1, 2>>
MCRate == <<1, 2>>
MCDeployments == {{"staking"}, {"market"}, {"faucet"}, {"batch"}}
MCBatch == {[u \in {"u"} |-> 1]}

-----------------------------------------------------------------------------
Parts == {"audits", "broker", "quorum", "schedule", "tokens", "directory"}

MarketInit ==
  /\ part \in Parts
  /\ Init /\ BrokerInit /\ ScheduleInit /\ ChallengeInit /\ DirectoryInit /\ TokenInit
  /\ part # "audits" => branch = "a"
  /\ part # "quorum" => \A p \in Party : installed[p] = 1
  /\ part # "directory" => dir = Directory
  /\ part # "tokens" => deployed = {"market"}

MarketNext ==
  \/ /\ part = "audits" /\ Next
     /\ UNCHANGED <<part, scheduleVars, challengeVars, directoryVars, tokenVars, brokerVars>>
  \/ /\ part = "broker" /\ BrokerNext
     /\ UNCHANGED <<part, vars, scheduleVars, challengeVars, directoryVars, tokenVars>>
  \/ /\ part = "quorum" /\ ChallengeNext
     /\ UNCHANGED <<part, vars, scheduleVars, directoryVars, tokenVars, brokerVars>>
  \/ /\ part = "schedule" /\ ScheduleNext
     /\ UNCHANGED <<part, vars, challengeVars, directoryVars, tokenVars, brokerVars>>
  \/ /\ part = "tokens" /\ TokenNext
     /\ UNCHANGED <<part, vars, scheduleVars, challengeVars, directoryVars, brokerVars>>
  \/ /\ part = "directory" /\ DirectoryNext
     /\ UNCHANGED <<part, vars, scheduleVars, challengeVars, tokenVars, brokerVars>>

MarketSpec == MarketInit /\ [][MarketNext]_marketVars
=============================================================================
