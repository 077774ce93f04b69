------------------------------ MODULE Challenges ------------------------------
(***************************************************************************)
(* Claims of local inference and their challenges: a node runs a task and  *)
(* publishes a claim (broker/junctioning.ts, verification.ts), single      *)
(* challengers and drawn quorums replay it (challenge.ts, quorum.ts), and  *)
(* a failed replay takes stake (StakeLedger).                              *)
(*                                                                         *)
(* A run reads the execution profile and, after an await, calls the model; *)
(* the installed model may change in between, and the profile is cached    *)
(* for good.  An output is the version of the model that made it, or Fake. *)
(***************************************************************************)
EXTENDS Integers, FiniteSetsExt, Functions, SequencesExt

CONSTANTS
  Node, Challenger,  \* claimants and replaying challengers
  Faulty,            \* challengers that answer what they like
  Unscoped,          \* parties whose backend reports no execution profile
  Version,           \* model versions, later ones greater
  SlashAmount, RewardBps,    \* slashAmount, challengerRewardBps
  Num, Den,                  \* agreementThreshold as a fraction
  MinQuorum,                 \* minQuorum
  MaxBond, MaxChecks, MaxClaims  \* bounds: stake bonded, resolutions, claims

Party == Node \cup Challenger
Fake == -1
NoProfile == 0
Output == Version \cup {Fake}

ASSUME ChallengeAssumption ==
  /\ Version \subseteq Nat \ {0}
  /\ IsFiniteSet(Challenger)
  /\ RewardBps \in 0 .. 10000
  /\ SlashAmount \in Int
  /\ Num \in Nat /\ Den \in Nat /\ Den < 2 * Num /\ Num <= Den   \* more than half
  /\ MinQuorum \in Nat

VARIABLES
  installed,    \* per party, the installed model
  cached,       \* per party, profileCache
  running,      \* per node, the profile a run under way has read, or NoProfile
  claims,       \* published JunctioningClaims
  checks,       \* resolutions started: claim, challengers, what each did
  ledger,       \* per node, [stake, bonded, taken] of StakeLedger; slashed
  convictions   \* history: [claim, votes] of every slash

challengeVars == <<installed, cached, running, claims, checks, ledger, convictions>>

ChallengeInit ==
  /\ installed \in [Party -> Version]
  /\ cached = [p \in Party |-> NoProfile]
  /\ running = [n \in Node |-> NoProfile]
  /\ claims = {} /\ checks = <<>> /\ convictions = {}
  /\ ledger = [n \in Node |-> [stake |-> 0, bonded |-> 0, taken |-> 0, slashed |-> FALSE]]
------------------------------------------------------------------------------
(* The backend *)

\* executionProfile: cached, or read from the server and cached.
Profile(p) ==
  IF cached[p] # NoProfile THEN cached[p]
  ELSE IF p \in Unscoped THEN NoProfile ELSE installed[p]

ReadProfile(p) == cached' = [cached EXCEPT ![p] = Profile(p)]

Upgrade(p) ==
  /\ \E v \in Version : v > installed[p] /\ installed' = [installed EXCEPT ![p] = v]
  /\ UNCHANGED <<cached, running, claims, checks, ledger, convictions>>

\* runJunctioning, up to the model's run.
StartRun(n) ==
  /\ running[n] = NoProfile /\ Profile(n) # NoProfile
  /\ ReadProfile(n)
  /\ running' = [running EXCEPT ![n] = Profile(n)]
  /\ UNCHANGED <<installed, claims, checks, ledger, convictions>>

\* run and makeClaim; a node may publish an output it did not compute.
FinishRun(n) ==
  /\ running[n] # NoProfile
  /\ \E output \in {installed[n], Fake} :
       claims' = claims \cup {[node |-> n, profile |-> running[n], ran |-> installed[n],
                               output |-> output]}
  /\ Cardinality(claims') <= MaxClaims
  /\ running' = [running EXCEPT ![n] = NoProfile]
  /\ UNCHANGED <<installed, cached, checks, ledger, convictions>>

\* The model fails or runs out of tokens without an answer.
FailRun(n) ==
  /\ running[n] # NoProfile
  /\ running' = [running EXCEPT ![n] = NoProfile]
  /\ UNCHANGED <<installed, cached, claims, checks, ledger, convictions>>
------------------------------------------------------------------------------
(* Stake *)

Bond(n) ==
  /\ ledger[n].bonded < MaxBond
  /\ ledger' = [ledger EXCEPT ![n].stake = @ + 1, ![n].bonded = @ + 1]
  /\ UNCHANGED <<installed, cached, running, claims, checks, convictions>>

\* Mutant: the whole penalty is removed, whatever is left.
SlashAll(n, amount) == amount
\* slash returns what it removed.
Removed(n, amount) == Min({ledger[n].stake, Max({0, amount})})

\* challengerReward, in 1/10000 of a unit.
Reward(amount) == amount * RewardBps
------------------------------------------------------------------------------
(* Resolutions *)

\* What a challenger has done: the profile it read, the model it ran, the
\* output it found.
Unanswered == [step |-> "open", profile |-> NoProfile, ran |-> NoProfile, output |-> NoProfile]

\* ChallengeCoordinator.resolve replays a sampled claim on its one backend.
Challenge(claim) ==
  /\ Len(checks) < MaxChecks
  /\ \E c \in Challenger :
       checks' = Append(checks, [claim |-> claim, quorum |-> FALSE, votes |-> [d \in {c} |-> Unanswered]])
  /\ UNCHANGED <<installed, cached, running, claims, ledger, convictions>>

\* QuorumChallengeCoordinator.resolve: too few drawn replay nothing.
Draw(claim) ==
  /\ Len(checks) < MaxChecks
  /\ \E drawn \in SUBSET Challenger :
       /\ drawn # {} /\ Cardinality(drawn) >= MinQuorum
       /\ checks' = Append(checks, [claim |-> claim, quorum |-> TRUE, votes |-> [d \in drawn |-> Unanswered]])
  /\ UNCHANGED <<installed, cached, running, claims, ledger, convictions>>

\* Mutant: a verifier with another profile replays all the same.
AnyProfile(claim, p) == p # NoProfile
\* sameProfile, with the checks around it in verifyReplay.
Compatible(claim, p) == p # NoProfile /\ p = claim.profile

\* verifyReplay up to the run: compare profiles.
Compare(i, c) ==
  /\ checks[i].votes[c].step = "open"
  /\ LET p == IF c \in Faulty THEN checks[i].claim.profile ELSE Profile(c) IN
     checks' = [checks EXCEPT ![i].votes[c] = [@ EXCEPT !.profile = p, !.step =
                 IF Compatible(checks[i].claim, p) THEN "compatible" ELSE "incompatible"]]
  /\ ReadProfile(c)
  /\ UNCHANGED <<installed, running, claims, ledger, convictions>>

\* The challenger's run and the commitment it finds.
Rerun(i, c) ==
  /\ checks[i].votes[c].step = "compatible"
  /\ \E output \in IF c \in Faulty THEN Output ELSE {installed[c]} :
       checks' = [checks EXCEPT ![i].votes[c] =
                  [@ EXCEPT !.step = "voted", !.ran = installed[c], !.output = output]]
  /\ UNCHANGED <<installed, cached, running, claims, ledger, convictions>>

\* A challenger's run throws: so does resolve.
Abandon(i, c) ==
  /\ checks[i].votes[c].step = "compatible"
  /\ checks' = [checks EXCEPT ![i].votes = <<>>]
  /\ UNCHANGED <<installed, cached, running, claims, ledger, convictions>>

Done(check) == \A c \in DOMAIN check.votes : check.votes[c].step \in {"voted", "incompatible"}

\* collectVotes keeps the compatible ones.
Votes(check) ==
  Restrict(check.votes, {c \in DOMAIN check.votes : check.votes[c].step = "voted"})

\* tallyQuorum: the converged output; with more than half no tie can matter.
Agreeing(votes, output) == {c \in DOMAIN votes : votes[c].output = output}
Share(some, votes) == Cardinality(some) * Den >= Cardinality(DOMAIN votes) * Num
Converged(votes) ==
  {o \in Output : /\ Cardinality(DOMAIN votes) >= Max({1, MinQuorum})
                  /\ Share(Agreeing(votes, o), votes)}

\* Mutant: the largest group decides, without convergence.
TopDecides(check) ==
  \E o \in Output \ {check.claim.output} : Agreeing(Votes(check), o) # {} /\
    \A p \in Output : Cardinality(Agreeing(Votes(check), o)) >= Cardinality(Agreeing(Votes(check), p))

\* A single replay decides alone, a quorum by convergence.
Convicts(check) ==
  IF check.quorum THEN Converged(Votes(check)) \ {check.claim.output} # {}
  ELSE \E c \in DOMAIN Votes(check) : Votes(check)[c].output # check.claim.output

Conclude(i) ==
  LET check == checks[i]
      n == check.claim.node
  IN /\ check.votes # <<>> /\ Done(check)
     /\ checks' = [checks EXCEPT ![i].votes = <<>>]
     /\ IF Convicts(check)
        THEN /\ ledger' = [ledger EXCEPT ![n].stake = @ - Removed(n, SlashAmount),
                    ![n].taken = @ + Removed(n, SlashAmount), ![n].slashed = TRUE]
             /\ convictions' = convictions \cup
                  {[claim |-> check.claim, votes |-> Votes(check)]}
        ELSE UNCHANGED <<ledger, convictions>>
     /\ UNCHANGED <<installed, cached, running, claims>>

ChallengeNext ==
  \/ \E p \in Party : Upgrade(p)
  \/ \E n \in Node : StartRun(n) \/ FinishRun(n) \/ FailRun(n) \/ Bond(n)
  \/ \E claim \in claims : Challenge(claim) \/ Draw(claim)
  \/ \E i \in DOMAIN checks : \E c \in DOMAIN checks[i].votes :
       Compare(i, c) \/ Rerun(i, c) \/ Abandon(i, c)
  \/ \E i \in DOMAIN checks : Conclude(i)

ChallengeSpec == ChallengeInit /\ [][ChallengeNext]_challengeVars
------------------------------------------------------------------------------
(* Properties *)

\* A slash takes stake that is there, once: what a node bonded is what is left
\* and what was taken, the rewards come out of what was taken, and a node is
\* marked exactly when it was convicted, however many resolutions of however
\* many claims overlap (StakeLedger.slash, challengerReward).
StakeConserved ==
  \A n \in Node :
    /\ ledger[n].stake >= 0 /\ ledger[n].stake + ledger[n].taken = ledger[n].bonded
    /\ Reward(ledger[n].taken) <= 10000 * ledger[n].taken
    /\ ledger[n].slashed <=> \E v \in convictions : v.claim.node = n

\* A claim whose output its profile really gives convicts its node only if the
\* deciding share of the replays was faulty or did not run what the profile
\* read before it said: honest nodes with different models are never enough
\* (verifyReplay's profiles, tallyQuorum).
Misled(votes) == {c \in DOMAIN votes : c \in Faulty \/ votes[c].ran # votes[c].profile}
HonestKeepStake ==
  \A v \in convictions :
    v.claim.output = v.claim.profile => Share(Misled(v.votes), v.votes)

\* Stake is taken once, and from honest nodes only by misled replays.
StakeInv == StakeConserved /\ HonestKeepStake
==============================================================================
