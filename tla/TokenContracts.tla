---------------------------- MODULE TokenContracts ----------------------------
(***************************************************************************)
(* The JGT contracts (contracts/) on one chain: the token with its capped  *)
(* supply, staking, the market, the daily claim dispenser and the batch    *)
(* dispenser; and the relayer that submits signed claims                   *)
(* (scripts/relayer/submit_jgt_claim.mjs).                                 *)
(*                                                                         *)
(* An action is a transaction: it takes effect as a whole or, where a      *)
(* check reverts, not at all.  The relayer's checks and its transaction    *)
(* are two steps.  Time is in claim intervals; amounts are whole units.    *)
(***************************************************************************)
EXTENDS Integers, FiniteSetsExt, Functions

CONSTANTS
  User, Deployer,  \* accounts; the first owner of every contract
  Deployments,     \* sets of contracts that may be deployed together
  Amount,          \* amounts a call may name
  InitialMint, MaxSupply, MinStake, LockPeriod, ClaimAmount,
  RewardPerYear,   \* REWARD_RATE of a stake, as <<numerator, denominator>> per interval
  Rate,            \* JGT_PER_ETH * 1e-18 per unit of ether, as a fraction too
  Ether, MinPurchase, MaxPurchase,  \* msg.value: the values sent, the limits
  Batch,           \* batches: a function from users to amounts
  MaxTime, MaxRaised, MaxDirect, MaxSigned
     \* bounds: the clock, ether sent, units minted or burned directly, authorizations

Contract == {"staking", "market", "faucet", "batch"}
Holder == User \cup Contract

ASSUME TokenAssumption ==
  /\ IsFiniteSet(User) /\ Deployer \in User /\ User \cap Contract = {}
  /\ \A d \in Deployments : d \subseteq Contract
  /\ Amount \subseteq Nat /\ Ether \subseteq Nat
  /\ InitialMint \in Nat /\ MaxSupply \in Nat /\ InitialMint <= MaxSupply
  /\ ClaimAmount \in Nat \ {0}
  /\ \A fraction \in {RewardPerYear, Rate} : fraction \in Nat \X (Nat \ {0})
  /\ \A batch \in Batch : DOMAIN batch \subseteq User /\ \A u \in DOMAIN batch : batch[u] \in Nat

VARIABLES
  deployed,  \* which contracts exist
  token,     \* [owner, supply, balance, allowance, minters]
  staking,   \* [stakes, totalStaked, rewardPool]
  market,    \* [sold, raised, kept]: totalSold, totalEthRaised, ether it holds
  faucet,    \* [minted, lastClaimAt, nonces] of JGTClaimDispenser
  batches,   \* processed batches of JGTBatchDispenser
  relay,     \* [signed, sent]: authorizations, and those the relayer has checked
  now,       \* block.timestamp, from 1
  flows      \* history: direct mints, burns, rewards, per user first claim and
             \* claimed total, authorizations settled

tokenVars == <<deployed, token, staking, market, faucet, batches, relay, now, flows>>

Cap == MaxSupply - InitialMint

TokenInit ==
  /\ deployed \in Deployments
  /\ token = [owner |-> Deployer, supply |-> InitialMint,
              balance |-> [h \in Holder |-> IF h = Deployer THEN InitialMint ELSE 0],
              allowance |-> [u \in User |-> 0],
              minters |-> {}]
  /\ staking = [stakes |-> [u \in User |-> [amount |-> 0, at |-> 0, debt |-> 0, active |-> FALSE]],
                totalStaked |-> 0, rewardPool |-> 0]
  /\ market = [sold |-> 0, raised |-> 0, kept |-> 0]
  /\ faucet = [minted |-> 0, lastClaimAt |-> [u \in User |-> 0], nonces |-> [u \in User |-> 0]]
  /\ batches = {}
  /\ relay = [signed |-> {}, sent |-> {}]
  /\ now = 1
  /\ flows = [direct |-> 0, burned |-> 0, rewards |-> 0,
              first |-> [u \in User |-> 0], claimed |-> [u \in User |-> 0], settled |-> {}]

Total(batch) == SumFunction(batch)
------------------------------------------------------------------------------
(* JGTToken *)

Move(balance, from, to, amount) ==
  [h \in Holder |-> balance[h] + (IF h = to THEN amount ELSE 0) - (IF h = from THEN amount ELSE 0)]

\* Mutant: the cap is not checked.
MayMintUncapped(caller, amount) == caller = token.owner \/ caller \in token.minters
\* mint's and _mint's checks.
MayMint(caller, amount) ==
  /\ caller = token.owner \/ caller \in token.minters
  /\ token.supply + amount <= MaxSupply

Minted(t, to, amount) ==
  [t EXCEPT !.supply = @ + amount, !.balance[to] = @ + amount]

Transfer(from, to, amount) ==
  /\ token.balance[from] >= amount
  /\ token' = [token EXCEPT !.balance = Move(token.balance, from, to, amount)]
  /\ UNCHANGED <<deployed, staking, market, faucet, batches, relay, now, flows>>

\* approve, for the one spender there is: the staking contract.
Approve(u, amount) ==
  /\ "staking" \in deployed
  /\ token' = [token EXCEPT !.allowance[u] = amount]
  /\ UNCHANGED <<deployed, staking, market, faucet, batches, relay, now, flows>>

\* transferFrom(u, staking, amount), called by the staking contract.
PullAllowed(u, amount) == token.balance[u] >= amount /\ token.allowance[u] >= amount
Pulled(t, u, amount) ==
  [t EXCEPT !.balance = Move(t.balance, u, "staking", amount), !.allowance[u] = @ - amount]

AuthorizeMinter(c) ==
  /\ \E authorized \in BOOLEAN :
       token' = [token EXCEPT !.minters = IF authorized THEN @ \cup {c} ELSE @ \ {c}]
  /\ UNCHANGED <<deployed, staking, market, faucet, batches, relay, now, flows>>

Mint(to, amount) ==
  /\ MayMint(token.owner, amount) /\ flows.direct + flows.burned + amount <= MaxDirect
  /\ token' = Minted(token, to, amount)
  /\ flows' = [flows EXCEPT !.direct = @ + amount]
  /\ UNCHANGED <<deployed, staking, market, faucet, batches, relay, now>>

Paid(balance, batch) ==
  [h \in Holder |-> balance[h] + (IF h \in DOMAIN batch THEN batch[h] ELSE 0)]

\* batchMint checks the total before it mints each.
BatchMint(batch) ==
  /\ MayMint(token.owner, Total(batch)) /\ flows.direct + flows.burned + Total(batch) <= MaxDirect
  /\ token' = [token EXCEPT !.supply = @ + Total(batch),
                                !.balance = Paid(token.balance, batch)]
  /\ flows' = [flows EXCEPT !.direct = @ + Total(batch)]
  /\ UNCHANGED <<deployed, staking, market, faucet, batches, relay, now>>

Burn(u, amount) ==
  /\ token.balance[u] >= amount /\ flows.direct + flows.burned + amount <= MaxDirect
  /\ token' = [token EXCEPT !.balance[u] = @ - amount, !.supply = @ - amount]
  /\ flows' = [flows EXCEPT !.burned = @ + amount]
  /\ UNCHANGED <<deployed, staking, market, faucet, batches, relay, now>>

TransferOwnership(u) ==
  /\ token' = [token EXCEPT !.owner = u]
  /\ UNCHANGED <<deployed, staking, market, faucet, batches, relay, now, flows>>
------------------------------------------------------------------------------
(* JGTStaking *)

CalculateReward(s) ==
  IF s.active THEN (s.amount * RewardPerYear[1] * (now - s.at)) \div RewardPerYear[2] ELSE 0

\* A reward is minted; if it cannot be, the whole call reverts.
Payable(reward) == reward > 0 => MayMint("staking", reward)
Rewarded(t, u, reward) == IF reward > 0 THEN Minted(t, u, reward) ELSE t

StakeTokens(u, amount) ==
  /\ "staking" \in deployed
  /\ amount >= MinStake /\ PullAllowed(u, amount)
  /\ token' = Pulled(token, u, amount)
  /\ staking' = [staking EXCEPT
       !.stakes[u] = [amount |-> @.amount + amount, at |-> now, active |-> TRUE,
                      debt |-> @.debt + CalculateReward(@)],
       !.totalStaked = @ + amount]
  /\ UNCHANGED <<deployed, market, faucet, batches, relay, now, flows>>

\* Mutant: the stake is paid out and stays recorded.
EndedWithAmount(s) == [amount |-> s.amount, at |-> s.at, debt |-> 0, active |-> FALSE]
Ended(s) == [amount |-> 0, at |-> s.at, debt |-> 0, active |-> FALSE]

Unstake(u) ==
  LET s == staking.stakes[u]
      reward == CalculateReward(s) + s.debt
  IN /\ "staking" \in deployed
     /\ s.active /\ now >= s.at + LockPeriod
     /\ token.balance["staking"] >= s.amount /\ Payable(reward)
     /\ token' = Rewarded([token EXCEPT !.balance = Move(token.balance, "staking", u, s.amount)],
                          u, reward)
     /\ staking' = [staking EXCEPT !.stakes[u] = Ended(s), !.totalStaked = @ - s.amount]
     /\ flows' = [flows EXCEPT !.rewards = @ + reward]
     /\ UNCHANGED <<deployed, market, faucet, batches, relay, now>>

\* The reward's clock starts again, and with it the lock.
ClaimReward(u) ==
  LET s == staking.stakes[u]
      reward == CalculateReward(s) + s.debt
  IN /\ "staking" \in deployed
     /\ s.active /\ reward > 0 /\ MayMint("staking", reward)
     /\ token' = Minted(token, u, reward)
     /\ staking' = [staking EXCEPT !.stakes[u] = [@ EXCEPT !.debt = 0, !.at = now]]
     /\ flows' = [flows EXCEPT !.rewards = @ + reward]
     /\ UNCHANGED <<deployed, market, faucet, batches, relay, now>>

FundRewardPool(amount) ==
  /\ "staking" \in deployed /\ PullAllowed(Deployer, amount)
  /\ token' = Pulled(token, Deployer, amount)
  /\ staking' = [staking EXCEPT !.rewardPool = @ + amount]
  /\ UNCHANGED <<deployed, market, faucet, batches, relay, now, flows>>
------------------------------------------------------------------------------
(* JGTMarket *)

Bought(value) == (value * Rate[1]) \div Rate[2]
Sell(u, value) ==
  /\ token' = [token EXCEPT !.balance = Move(token.balance, "market", u, Bought(value))]
  /\ market' = [market EXCEPT !.sold = @ + Bought(value), !.raised = @ + value]
  /\ UNCHANGED <<deployed, staking, faucet, batches, relay, now, flows>>

Buy(u, value) ==
  /\ "market" \in deployed /\ market.raised + market.kept + value <= MaxRaised
  /\ value \in MinPurchase .. MaxPurchase
  /\ token.balance["market"] >= Bought(value)
  /\ Sell(u, value)

\* receive: no upper limit, and what buys nothing is kept without a refund.
Receive(u, value) ==
  /\ "market" \in deployed /\ market.raised + market.kept + value <= MaxRaised
  /\ IF value >= MinPurchase /\ token.balance["market"] >= Bought(value) THEN Sell(u, value)
     ELSE /\ market' = [market EXCEPT !.kept = @ + value]
          /\ UNCHANGED <<deployed, token, staking, faucet, batches, relay, now, flows>>

\* withdrawJgt, by the market's owner.
WithdrawJgt(amount) == "market" \in deployed /\ Transfer("market", Deployer, amount)
------------------------------------------------------------------------------
(* JGTClaimDispenser *)

Periods(u) == IF faucet.lastClaimAt[u] = 0 THEN 1 ELSE now - faucet.lastClaimAt[u]
Accrued(u) == Periods(u) * ClaimAmount
RemainingFaucetSupply == Min({Cap - faucet.minted, MaxSupply - token.supply})
Available == (RemainingFaucetSupply \div ClaimAmount) * ClaimAmount
Claimable(u) == Min({Accrued(u), Available})

\* Mutant: a late claim starts the clock anew, or an early one moves it ahead.
SettledAtHalf(u, amount) ==
  IF faucet.lastClaimAt[u] = 0 THEN now ELSE faucet.lastClaimAt[u] + amount \div (2 * ClaimAmount)
\* The accrual clock moves by the periods paid.
SettledAt(u, amount) ==
  IF faucet.lastClaimAt[u] = 0 THEN now ELSE faucet.lastClaimAt[u] + amount \div ClaimAmount

\* _settle; a refused mint reverts it all.
Settle(u, amount, authorizations) ==
  /\ amount > 0 /\ amount % ClaimAmount = 0
  /\ amount <= Accrued(u) /\ amount <= RemainingFaucetSupply
  /\ MayMint("faucet", amount)
  /\ token' = Minted(token, u, amount)
  /\ faucet' = [faucet EXCEPT !.minted = @ + amount, !.nonces[u] = @ + 1,
                              !.lastClaimAt[u] = SettledAt(u, amount)]
  /\ flows' = [flows EXCEPT
       !.first[u] = IF @ = 0 THEN now ELSE @, !.claimed[u] = @ + amount,
       !.settled = @ \cup {[a EXCEPT !.nonce = <<a.nonce, faucet.nonces[u]>>] : a \in authorizations}]

ClaimTokens(u) ==
  /\ "faucet" \in deployed
  /\ Settle(u, Claimable(u), {})
  /\ UNCHANGED <<deployed, staking, market, batches, relay, now>>

\* A wallet signs an authorization, for any amount and some later nonce too.
Sign(u, amount, ahead) ==
  /\ "faucet" \in deployed /\ Cardinality(relay.signed) < MaxSigned
  /\ relay' = [relay EXCEPT !.signed = @ \cup
       {[account |-> u, amount |-> amount, nonce |-> faucet.nonces[u] + ahead, deadline |-> now + 1]}]
  /\ UNCHANGED <<deployed, token, staking, market, faucet, batches, now, flows>>

\* Mutant: the signature does not cover the nonce.
NonceAny(a) == TRUE
\* The digest that must be signed names the account's next nonce.
NonceMatches(a) == a.nonce = faucet.nonces[a.account]

\* The relayer's checks of a request, against the chain as it is now.
RelayCheck(a) ==
  /\ a.deadline > now /\ NonceMatches(a)
  /\ token.owner = Deployer /\ "faucet" \in token.minters
  /\ a.amount <= Accrued(a.account) /\ a.amount <= Claimable(a.account)
  /\ relay' = [relay EXCEPT !.sent = @ \cup {a}]
  /\ UNCHANGED <<deployed, token, staking, market, faucet, batches, now, flows>>

\* claimWithSig, from the relayer's transaction or from anyone who has the
\* signature; a transaction that reverts leaves it usable.
ClaimWithSig(a) ==
  /\ now <= a.deadline /\ NonceMatches(a)
  /\ Settle(a.account, a.amount, {a})
  /\ relay' = [relay EXCEPT !.sent = @ \ {a}]
  /\ UNCHANGED <<deployed, staking, market, batches, now>>

Revert(a) ==
  /\ ~ (now <= a.deadline /\ NonceMatches(a) /\ a.amount <= Accrued(a.account)
        /\ a.amount <= RemainingFaucetSupply /\ MayMint("faucet", a.amount))
  /\ relay' = [relay EXCEPT !.sent = @ \ {a}]
  /\ UNCHANGED <<deployed, token, staking, market, faucet, batches, now, flows>>
------------------------------------------------------------------------------
(* JGTBatchDispenser *)

\* Mutant: a batch can be processed again.
FreshAlways(batch) == TRUE
Fresh(batch) == batch \notin batches

\* Each recipient's mint succeeds, or the call reverts.
ProcessBatch(batch) ==
  /\ "batch" \in deployed /\ Fresh(batch)
  /\ MayMint("batch", Total(batch))
  /\ token' = [token EXCEPT !.supply = @ + Total(batch), !.balance = Paid(token.balance, batch)]
  /\ batches' = batches \cup {batch}
  /\ UNCHANGED <<deployed, staking, market, faucet, relay, now, flows>>

TokenTick ==
  /\ now < MaxTime /\ now' = now + 1
  /\ UNCHANGED <<deployed, token, staking, market, faucet, batches, relay, flows>>

TokenNext ==
  \/ \E u \in User, h \in User \cup deployed, n \in Amount : Transfer(u, h, n)
  \/ \E u \in User, n \in Amount : Approve(u, n) \/ StakeTokens(u, n) \/ Burn(u, n)
  \/ \E c \in deployed : AuthorizeMinter(c)
  \/ \E u \in User, n \in Amount : Mint(u, n)
  \/ \E batch \in Batch : BatchMint(batch) \/ ProcessBatch(batch)
  \/ \E u \in User : TransferOwnership(u) \/ Unstake(u) \/ ClaimReward(u) \/ ClaimTokens(u)
  \/ \E n \in Amount : FundRewardPool(n) \/ WithdrawJgt(n)
  \/ \E u \in User, v \in Ether : Buy(u, v) \/ Receive(u, v)
  \/ \E u \in User, n \in Amount, ahead \in {0, 1} : Sign(u, n, ahead)
  \/ \E a \in relay.signed : RelayCheck(a) \/ ClaimWithSig(a)
  \/ \E a \in relay.sent : Revert(a)
  \/ TokenTick

TokenSpec == TokenInit /\ [][TokenNext]_tokenVars
------------------------------------------------------------------------------
(* Properties *)

\* Every unit is somewhere and came from somewhere: balances add up to the
\* supply, within the cap, and the supply to the mints of all contracts less
\* what was burned, with a batch counted once; the staking contract holds at
\* least what it owes for stakes and what was put in its pool.
BooksBalance ==
  /\ SumFunction(token.balance) = token.supply /\ token.supply <= MaxSupply
  /\ \A h \in Holder : token.balance[h] >= 0
  /\ token.supply + flows.burned
       = InitialMint + flows.direct + flows.rewards + faucet.minted
         + SumFunction([batch \in batches |-> Total(batch)])
  /\ staking.totalStaked = SumFunction([u \in User |-> staking.stakes[u].amount])
  /\ token.balance["staking"] >= staking.totalStaked + staking.rewardPool

\* Nobody draws more from the dispenser than its time allows, a unit claim at
\* once and one per interval since, by calls of its own and signed ones in any
\* order; the allotment holds; and a signed authorization settles only at the
\* nonce it was signed for, so once (claim, claimWithSig).
AllotmentsHold ==
  /\ faucet.minted = SumFunction(flows.claimed) /\ faucet.minted <= Cap
  /\ \A u \in User : flows.first[u] > 0 =>
       flows.claimed[u] <= ClaimAmount * (1 + now - flows.first[u])
  /\ \A a \in flows.settled : a.nonce[1] = a.nonce[2]

\* The tokens of five contracts and a relayer, under any interleaving of calls.
TokenInv == BooksBalance /\ AllotmentsHold
==============================================================================
