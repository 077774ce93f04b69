----------------------------- MODULE Market_proofs -----------------------------
(***************************************************************************)
(* Three parts of the market run.  For any nodes, challengers and models:  *)
(* stake is conserved and honest nodes keep theirs (Challenges).  For any  *)
(* releases and resets: a node runs on its own chain's files only and no   *)
(* content is lost (DataDirectory).  For any accounts, amounts and         *)
(* batches: the tokens add up and allotments hold (TokenContracts).        *)
(***************************************************************************)
EXTENDS Challenges, DataDirectory, TokenContracts, FiniteSetTheorems, SequenceTheorems, Sums, TLAPS

Answer ==
  [step : {"open", "compatible", "incompatible", "voted"}, profile : Version \cup {NoProfile},
   ran : Version \cup {NoProfile}, output : Output \cup {NoProfile}]
Claim == [node : Node, profile : Version, ran : Version, output : Output]
Check == [claim : Claim, quorum : BOOLEAN,
          votes : UNION {[drawn -> Answer] : drawn \in SUBSET Challenger}]
Account == [stake : Nat, bonded : Nat, taken : Nat, slashed : BOOLEAN]

\* Whoever replays has the claim's profile, and who is not faulty reports what it ran.
Truthful(claim, c, vote) ==
  /\ vote.step \in {"compatible", "voted"} => vote.profile = claim.profile
  /\ vote.step = "voted" /\ c \notin Faulty => vote.output = vote.ran

Sound(check) ==
  /\ \A c \in DOMAIN check.votes : Truthful(check.claim, c, check.votes[c])
  /\ ~ check.quorum => \A c, d \in DOMAIN check.votes : c = d

ChallengeTypes ==
  /\ installed \in [Party -> Version]
  /\ cached \in [Party -> Version \cup {NoProfile}]
  /\ running \in [Node -> Version \cup {NoProfile}]
  /\ claims \subseteq Claim
  /\ checks \in Seq(Check)
  /\ ledger \in [Node -> Account]
  /\ \A v \in convictions : v.claim \in Claim

ChallengeIInv ==
  /\ ChallengeTypes
  /\ \A i \in DOMAIN checks : Sound(checks[i])
  /\ StakeInv
------------------------------------------------------------------------------
(* Resolutions *)

LEMMA ProfileType ==
  ASSUME ChallengeTypes, NEW p \in Party
  PROVE  Profile(p) \in Version \cup {NoProfile}
BY DEF ChallengeTypes, Profile

\* A resolution that changes keeps the others.
LEMMA CheckChanges ==
  ASSUME ChallengeTypes, \A i \in DOMAIN checks : Sound(checks[i]),
         NEW i \in DOMAIN checks, NEW check \in Check, Sound(check),
         checks' = [checks EXCEPT ![i] = check]
  PROVE  checks' \in Seq(Check) /\ \A j \in DOMAIN checks' : Sound(checks'[j])
<1>1. checks \in Seq(Check) /\ i \in 1 .. Len(checks) /\ DOMAIN checks = 1 .. Len(checks)
  BY LenProperties DEF ChallengeTypes
<1>2. checks' \in Seq(Check)
  BY <1>1, ExceptSeq
<1>3. DOMAIN checks' = DOMAIN checks /\ checks'[i] = check
      /\ \A j \in DOMAIN checks \ {i} : checks'[j] = checks[j]
  OBVIOUS
<1> QED BY <1>2, <1>3

LEMMA AnswerChanges ==
  ASSUME ChallengeTypes, \A i \in DOMAIN checks : Sound(checks[i]),
         NEW i \in DOMAIN checks, NEW c \in DOMAIN checks[i].votes,
         NEW vote \in Answer, Truthful(checks[i].claim, c, vote),
         checks' = [checks EXCEPT ![i].votes[c] = vote]
  PROVE  checks' \in Seq(Check) /\ \A j \in DOMAIN checks' : Sound(checks'[j])
<1> DEFINE old == checks[i]
           votes == [old.votes EXCEPT ![c] = vote]
           check == [old EXCEPT !.votes = votes]
<1>1. old \in Check /\ Sound(old)
  BY LenProperties DEF ChallengeTypes
<1>2. PICK drawn \in SUBSET Challenger : old.votes \in [drawn -> Answer]
  BY <1>1 DEF Check
<1>3. votes \in [drawn -> Answer] /\ votes[c] = vote /\ \A d \in drawn \ {c} : votes[d] = old.votes[d]
  BY <1>2
<1> HIDE DEF votes
<1>4. check = [claim |-> old.claim, quorum |-> old.quorum, votes |-> votes]
  BY <1>1 DEF Check
<1>5. check \in Check
  BY <1>1, <1>3, <1>4 DEF Check
<1>6. check.claim = old.claim /\ check.quorum = old.quorum /\ check.votes = votes
  BY <1>4
<1>7. Sound(check)
  BY <1>1, <1>2, <1>3, <1>6 DEF Sound
<1>8. checks' = [checks EXCEPT ![i] = check]
  BY DEF votes
<1> HIDE DEF check
<1> QED BY <1>5, <1>7, <1>8, CheckChanges

\* A resolution that ended or failed has no votes left.
LEMMA CheckEnds ==
  ASSUME ChallengeTypes, \A i \in DOMAIN checks : Sound(checks[i]), NEW i \in DOMAIN checks,
         checks' = [checks EXCEPT ![i].votes = <<>>]
  PROVE  checks' \in Seq(Check) /\ \A j \in DOMAIN checks' : Sound(checks'[j])
<1> DEFINE old == checks[i]
           check == [old EXCEPT !.votes = <<>>]
<1>1. old \in Check
  <2>1. checks \in Seq(Check)
    BY DEF ChallengeTypes
  <2> QED BY <2>1, ElementOfSeq, LenProperties
<1>2. <<>> \in [{} -> Answer] /\ DOMAIN <<>> = {}
  OBVIOUS
<1>3. check = [claim |-> old.claim, quorum |-> old.quorum, votes |-> <<>>]
  BY <1>1 DEF Check
<1>4. check \in Check
  <2>1. <<>> \in UNION {[drawn -> Answer] : drawn \in SUBSET Challenger}
    BY <1>2
  <2>2. old.claim \in Claim /\ old.quorum \in BOOLEAN
    BY <1>1 DEF Check
  <2> HIDE DEF old
  <2> QED BY <1>3, <2>1, <2>2 DEF Check
<1>5. Sound(check)
  BY <1>2, <1>3 DEF Sound
<1>6. checks' = [checks EXCEPT ![i] = check]
  OBVIOUS
<1> HIDE DEF check
<1> QED BY <1>4, <1>5, <1>6, CheckChanges

LEMMA CheckStarts ==
  ASSUME ChallengeTypes, \A i \in DOMAIN checks : Sound(checks[i]),
         NEW claim \in claims, NEW quorum \in BOOLEAN, NEW drawn \in SUBSET Challenger,
         ~ quorum => \A c, d \in drawn : c = d,
         checks' = Append(checks, [claim |-> claim, quorum |-> quorum,
                                   votes |-> [d \in drawn |-> Unanswered]])
  PROVE  checks' \in Seq(Check) /\ \A j \in DOMAIN checks' : Sound(checks'[j])
<1> DEFINE votes == [d \in drawn |-> Unanswered]
           check == [claim |-> claim, quorum |-> quorum, votes |-> votes]
<1>1. Unanswered \in Answer /\ Unanswered.step = "open"
  BY DEF Unanswered, Answer
<1>2. votes \in [drawn -> Answer] /\ DOMAIN votes = drawn /\ \A c \in drawn : votes[c].step = "open"
  BY <1>1
<1> HIDE DEF votes
<1>3. check \in Check
  BY <1>2 DEF Check, ChallengeTypes
<1>4. Sound(check)
  BY <1>2 DEF Sound, Truthful
<1>5. checks \in Seq(Check) /\ checks' = Append(checks, check)
  BY DEF ChallengeTypes, votes
<1> HIDE DEF check
<1>6. /\ checks' \in Seq(Check) /\ DOMAIN checks' = 1 .. Len(checks) + 1
      /\ \A j \in 1 .. Len(checks) : checks'[j] = checks[j]
      /\ checks'[Len(checks) + 1] = check /\ DOMAIN checks = 1 .. Len(checks) /\ Len(checks) \in Nat
  BY <1>3, <1>5, AppendProperties, LenProperties
<1>7. \A j \in DOMAIN checks' : j = Len(checks) + 1 \/ j \in DOMAIN checks
  BY <1>6
<1> QED BY <1>4, <1>6, <1>7
------------------------------------------------------------------------------
(* Slashing *)

LEMMA ProductGrows ==
  ASSUME NEW a \in Nat, NEW b \in Nat, NEW d \in Nat, a <= b
  PROVE  a * d <= b * d
<1>1. PICK k \in Nat : b = a + k
  <2>1. b - a \in Nat /\ b = a + (b - a)
    OBVIOUS
  <2> QED BY <2>1
<1>2. b * d = a * d + k * d
  BY <1>1
<1>3. k * d \in Nat /\ a * d \in Nat
  OBVIOUS
<1> QED BY <1>2, <1>3

LEMMA RemovedIsThere ==
  ASSUME ChallengeTypes, NEW n \in Node, NEW amount \in Int
  PROVE  Removed(n, amount) \in 0 .. ledger[n].stake /\ ledger[n].stake \in Nat
<1>1. ledger[n].stake \in Nat
  BY DEF ChallengeTypes, Account
<1> DEFINE stake == ledger[n].stake
           most == Max({0, amount})
<1>2. most \in Nat
  <2>1. \E x \in {0, amount} : \A y \in {0, amount} : x >= y
    BY DEF Max
  <2> QED BY <2>1 DEF Max
<1> HIDE DEF most, stake
<1>3. stake \in Nat
  BY <1>1 DEF stake
<1>4. \E x \in {stake, most} : \A y \in {stake, most} : x <= y
  BY <1>2, <1>3
<1>5. Min({stake, most}) \in 0 .. stake
  BY <1>2, <1>3, <1>4 DEF Min
<1> QED BY <1>1, <1>5 DEF Removed, stake, most

\* Whoever votes for another output than an honest claim's is misled.
LEMMA ConvictedByMisled ==
  ASSUME NEW check \in Check, Sound(check), Convicts(check),
         check.claim.output = check.claim.profile
  PROVE  Share(Misled(Votes(check)), Votes(check))
<1> DEFINE votes == Votes(check)
<1>1. PICK drawn \in SUBSET Challenger : check.votes \in [drawn -> Answer]
  BY DEF Check
<1>2. /\ DOMAIN votes = {c \in DOMAIN check.votes : check.votes[c].step = "voted"}
      /\ \A c \in DOMAIN votes : votes[c] = check.votes[c]
  BY DEF Votes, Restrict
<1> HIDE DEF votes
<1>3. IsFiniteSet(DOMAIN votes) /\ Cardinality(DOMAIN votes) \in Nat
  <2>1. DOMAIN votes \subseteq Challenger
    BY <1>1, <1>2
  <2>2. IsFiniteSet(DOMAIN votes)
    BY <2>1, ChallengeAssumption, FS_Subset
  <2> QED BY <2>2, FS_CardinalityType
<1>4. ASSUME NEW c \in DOMAIN votes, votes[c].output # check.claim.output
      PROVE  c \in Misled(votes)
  BY <1>2, <1>4 DEF Sound, Truthful, Misled
<1>5. IsFiniteSet(Misled(votes)) /\ Misled(votes) \subseteq DOMAIN votes
  BY <1>3, FS_Subset DEF Misled
<1>6. ASSUME NEW o \in Output, o # check.claim.output, Share(Agreeing(votes, o), votes)
      PROVE  Share(Misled(votes), votes)
  <2> DEFINE some == Agreeing(votes, o)
  <2>1. some \subseteq Misled(votes)
    BY <1>4, <1>6 DEF Agreeing
  <2>2. IsFiniteSet(some) /\ Cardinality(some) <= Cardinality(Misled(votes))
    BY <1>5, <2>1, FS_Subset
  <2>3. Cardinality(some) \in Nat /\ Cardinality(Misled(votes)) \in Nat
    BY <1>5, <2>2, FS_CardinalityType
  <2>4. Cardinality(some) * Den >= Cardinality(DOMAIN votes) * Num
    BY <1>6 DEF Share
  <2> HIDE DEF some
  <2>5. Cardinality(some) * Den <= Cardinality(Misled(votes)) * Den
    BY <2>2, <2>3, ProductGrows, ChallengeAssumption
  <2> DEFINE x == Cardinality(some) * Den
             y == Cardinality(Misled(votes)) * Den
             z == Cardinality(DOMAIN votes) * Num
  <2>6. x \in Int /\ y \in Int /\ z \in Int
    BY <1>3, <2>3, ChallengeAssumption
  <2>7. x >= z /\ x <= y
    BY <2>4, <2>5
  <2> HIDE DEF x, y, z
  <2>8. y >= z
    BY <2>6, <2>7
  <2> QED BY <2>8 DEF Share, y, z
<1>7. CASE check.quorum
  <2>1. PICK o \in Converged(votes) : o # check.claim.output
    BY <1>7 DEF Convicts, votes
  <2>2. o \in Output /\ Share(Agreeing(votes, o), votes)
    BY <2>1 DEF Converged
  <2> QED BY <1>6, <2>1, <2>2 DEF votes
<1>8. CASE ~ check.quorum
  <2>1. PICK c \in DOMAIN votes : votes[c].output # check.claim.output
    BY <1>8 DEF Convicts, votes
  <2>2. \A d \in DOMAIN votes : d = c
    BY <1>2, <1>8, <2>1 DEF Sound
  <2>3. DOMAIN votes = {c} /\ Misled(votes) = {c}
    BY <1>4, <1>5, <2>1, <2>2
  <2>4. Cardinality({c}) = 1
    BY FS_Singleton
  <2>5. Share(Misled(votes), votes)
    BY <2>3, <2>4, ChallengeAssumption DEF Share
  <2> QED BY <2>5 DEF votes
<1> QED BY <1>7, <1>8
------------------------------------------------------------------------------
(* Steps *)

\* A step that leaves the stake alone.
LEMMA StakeUnmoved ==
  ASSUME StakeInv, UNCHANGED <<ledger, convictions>>
  PROVE  StakeInv'
BY DEF StakeInv, StakeConserved, HonestKeepStake, Reward, Share, Misled

LEMMA AccountField ==
  ASSUME NEW r \in Account, NEW x
  PROVE  /\ [r EXCEPT !.stake = x] = [stake |-> x, bonded |-> r.bonded, taken |-> r.taken,
                                     slashed |-> r.slashed]
         /\ [r EXCEPT !.taken = x] = [stake |-> r.stake, bonded |-> r.bonded, taken |-> x,
                                     slashed |-> r.slashed]
         /\ [r EXCEPT !.slashed = x] = [stake |-> r.stake, bonded |-> r.bonded,
                                       taken |-> r.taken, slashed |-> x]
<1>1. [r EXCEPT !.stake = x] = [stake |-> x, bonded |-> r.bonded, taken |-> r.taken,
                                     slashed |-> r.slashed]
  BY DEF Account
<1>2. [r EXCEPT !.taken = x] = [stake |-> r.stake, bonded |-> r.bonded, taken |-> x,
                                     slashed |-> r.slashed]
  BY DEF Account
<1>3. [r EXCEPT !.slashed = x] = [stake |-> r.stake, bonded |-> r.bonded,
                                       taken |-> r.taken, slashed |-> x]
  BY DEF Account
<1> QED BY <1>1, <1>2, <1>3

LEMMA AccountChanges ==
  ASSUME NEW old \in Account, NEW stake \in Nat, NEW taken \in Nat
  PROVE  [[[old EXCEPT !.stake = stake] EXCEPT !.taken = taken] EXCEPT !.slashed = TRUE] =
           [stake |-> stake, bonded |-> old.bonded, taken |-> taken, slashed |-> TRUE]
<1> DEFINE first == [stake |-> stake, bonded |-> old.bonded, taken |-> old.taken,
                     slashed |-> old.slashed]
           second == [stake |-> stake, bonded |-> old.bonded, taken |-> taken,
                      slashed |-> old.slashed]
<1>1. first = [old EXCEPT !.stake = stake]
  BY AccountField
<1>2. first \in Account /\ second \in Account
  BY DEF Account
<1>3. second = [first EXCEPT !.taken = taken]
  BY <1>2, AccountField
<1>4. [second EXCEPT !.slashed = TRUE] =
        [stake |-> stake, bonded |-> old.bonded, taken |-> taken, slashed |-> TRUE]
  BY <1>2, AccountField
<1> QED BY <1>1, <1>3, <1>4

LEMMA RunKeeps ==
  ASSUME ChallengeIInv, NEW n \in Node, StartRun(n) \/ FinishRun(n) \/ FailRun(n)
  PROVE  ChallengeIInv'
<1>1. ChallengeTypes /\ Profile(n) \in Version \cup {NoProfile}
  BY ProfileType DEF ChallengeIInv, Party
<1>2. UNCHANGED <<installed, checks, ledger, convictions>>
  BY DEF StartRun, FinishRun, FailRun
<1>3. StakeInv'
  BY <1>2, StakeUnmoved DEF ChallengeIInv
<1>4. CASE StartRun(n)
  <2>1. /\ cached' \in [Party -> Version \cup {NoProfile}] /\ claims' = claims
        /\ running' \in [Node -> Version \cup {NoProfile}]
    BY <1>1, <1>4 DEF StartRun, ReadProfile, ChallengeTypes, Party
  <2> QED BY <1>1, <1>2, <1>3, <2>1 DEF ChallengeIInv, ChallengeTypes
<1>5. CASE FinishRun(n)
  <2>1. PICK output \in {installed[n], Fake} :
          claims' = claims \cup {[node |-> n, profile |-> running[n], ran |-> installed[n],
                                  output |-> output]}
    BY <1>5 DEF FinishRun
  <2>2. installed[n] \in Version /\ running[n] \in Version
    BY <1>1, <1>5 DEF FinishRun, ChallengeTypes, Party
  <2>3. claims' \subseteq Claim
    BY <1>1, <2>1, <2>2 DEF ChallengeTypes, Claim, Output
  <2>4. running' \in [Node -> Version \cup {NoProfile}] /\ cached' = cached
    BY <1>1, <1>5 DEF FinishRun, ChallengeTypes
  <2> QED BY <1>1, <1>2, <1>3, <2>3, <2>4 DEF ChallengeIInv, ChallengeTypes
<1>6. CASE FailRun(n)
  <2>1. /\ running' \in [Node -> Version \cup {NoProfile}]
        /\ cached' = cached /\ claims' = claims
    BY <1>1, <1>6 DEF FailRun, ChallengeTypes
  <2> QED BY <1>1, <1>2, <1>3, <2>1 DEF ChallengeIInv, ChallengeTypes
<1> QED BY <1>4, <1>5, <1>6

LEMMA BondKeeps ==
  ASSUME ChallengeIInv, NEW n \in Node, Bond(n)
  PROVE  ChallengeIInv'
<1> DEFINE old == ledger[n]
           account == [stake |-> old.stake + 1, bonded |-> old.bonded + 1, taken |-> old.taken,
                       slashed |-> old.slashed]
<1>1. /\ ledger' = [ledger EXCEPT ![n] = account] /\ ledger \in [Node -> Account]
      /\ UNCHANGED <<installed, cached, running, claims, checks, convictions>>
  <2>1. /\ ledger' = [ledger EXCEPT ![n].stake = @ + 1, ![n].bonded = @ + 1]
        /\ ledger \in [Node -> Account]
        /\ UNCHANGED <<installed, cached, running, claims, checks, convictions>>
    BY DEF Bond, ChallengeIInv, ChallengeTypes
  <2> QED BY <2>1 DEF Account
<1>2. /\ account \in Account /\ account.stake = old.stake + 1 /\ account.bonded = old.bonded + 1
      /\ account.taken = old.taken /\ account.slashed = old.slashed
  BY <1>1 DEF Account
<1> HIDE DEF account
<1>3. /\ ledger' \in [Node -> Account] /\ ledger'[n] = account
      /\ \A m \in Node \ {n} : ledger'[m] = ledger[m]
  BY <1>1, <1>2
<1>4. \A m \in Node : ledger[m].stake \in Nat /\ ledger[m].bonded \in Nat /\ ledger[m].taken \in Nat
  BY <1>1 DEF Account
<1>5. StakeConserved'
  <2> SUFFICES ASSUME NEW m \in Node
               PROVE  /\ ledger'[m].stake >= 0
                      /\ ledger'[m].stake + ledger'[m].taken = ledger'[m].bonded
                      /\ Reward(ledger'[m].taken) <= 10000 * ledger'[m].taken
                      /\ ledger'[m].slashed <=> \E v \in convictions : v.claim.node = m
    BY <1>1 DEF StakeConserved, Reward
  <2>1. /\ ledger[m].stake >= 0 /\ ledger[m].stake + ledger[m].taken = ledger[m].bonded
        /\ Reward(ledger[m].taken) <= 10000 * ledger[m].taken
        /\ ledger[m].slashed <=> \E v \in convictions : v.claim.node = m
    BY DEF ChallengeIInv, StakeInv, StakeConserved
  <2>2. CASE m = n
    BY <1>2, <1>3, <1>4, <2>1, <2>2
  <2>3. CASE m # n
    BY <1>3, <2>1, <2>3
  <2> QED BY <2>2, <2>3
<1>6. HonestKeepStake'
  BY <1>1 DEF ChallengeIInv, StakeInv, HonestKeepStake, Share, Misled
<1> QED BY <1>1, <1>3, <1>5, <1>6 DEF ChallengeIInv, ChallengeTypes, StakeInv

LEMMA ConcludeKeeps ==
  ASSUME ChallengeIInv, NEW i \in DOMAIN checks, Conclude(i)
  PROVE  ChallengeIInv'
<1> DEFINE check == checks[i]
           n == check.claim.node
           removed == Removed(n, SlashAmount)
           old == ledger[n]
           account == [stake |-> old.stake - removed, bonded |-> old.bonded,
                       taken |-> old.taken + removed, slashed |-> TRUE]
           conviction == [claim |-> check.claim, votes |-> Votes(check)]
<1>1. /\ ChallengeTypes /\ StakeInv /\ \A j \in DOMAIN checks : Sound(checks[j])
      /\ UNCHANGED <<installed, cached, running, claims>>
      /\ checks' = [checks EXCEPT ![i].votes = <<>>]
  BY DEF Conclude, ChallengeIInv
<1>2. checks' \in Seq(Check) /\ \A j \in DOMAIN checks' : Sound(checks'[j])
  BY <1>1, CheckEnds
<1>3. check \in Check /\ check.claim \in Claim /\ n \in Node
  <2>1. check \in Check
    BY <1>1, LenProperties DEF ChallengeTypes
  <2> QED BY <2>1 DEF Check, Claim
<1>4. CASE ~ Convicts(check)
  <2>1. UNCHANGED <<ledger, convictions>>
    BY <1>4 DEF Conclude
  <2> QED BY <1>1, <1>2, <2>1, StakeUnmoved DEF ChallengeIInv, ChallengeTypes
<1>5. CASE Convicts(check)
  <2>1. /\ ledger' = [ledger EXCEPT ![n].stake = @ - removed, ![n].taken = @ + removed,
                                   ![n].slashed = TRUE]
        /\ convictions' = convictions \cup {conviction}
    BY <1>5 DEF Conclude
  <2>2. removed \in 0 .. old.stake /\ old \in Account /\ ledger \in [Node -> Account]
    BY <1>1, <1>3, RemovedIsThere, ChallengeAssumption DEF ChallengeTypes
  <2> HIDE DEF removed
  <2>8. ledger' = [ledger EXCEPT ![n] = account]
    <3>1. /\ ledger' = [[[ledger EXCEPT ![n].stake = old.stake - removed]
                           EXCEPT ![n].taken = old.taken + removed] EXCEPT ![n].slashed = TRUE]
      BY <1>3, <2>1, <2>2 DEF Account
    <3>2. [[[old EXCEPT !.stake = old.stake - removed] EXCEPT !.taken = old.taken + removed]
             EXCEPT !.slashed = TRUE] = account
      <4>1. old.stake - removed \in Nat /\ old.taken + removed \in Nat
        BY <2>2 DEF Account
      <4> QED BY <2>2, <4>1, AccountChanges
    <3>3. ledger' = [ledger EXCEPT ![n] =
              [[[old EXCEPT !.stake = old.stake - removed] EXCEPT !.taken = old.taken + removed]
                 EXCEPT !.slashed = TRUE]]
      BY <1>3, <2>2, <3>1 DEF Account
    <3> QED BY <3>2, <3>3
  <2>3. /\ account \in Account /\ account.stake = old.stake - removed
        /\ account.taken = old.taken + removed /\ account.bonded = old.bonded /\ account.slashed
    BY <2>2 DEF Account
  <2> HIDE DEF account
  <2>4. /\ ledger' \in [Node -> Account] /\ ledger'[n] = account
        /\ \A m \in Node \ {n} : ledger'[m] = ledger[m]
    BY <1>3, <2>2, <2>3, <2>8
  <2>5. \A v \in convictions' : v.claim \in Claim
    BY <1>1, <1>3, <2>1 DEF ChallengeTypes
  <2>6. StakeConserved'
    <3> SUFFICES ASSUME NEW m \in Node
                 PROVE  /\ ledger'[m].stake >= 0
                        /\ ledger'[m].stake + ledger'[m].taken = ledger'[m].bonded
                        /\ Reward(ledger'[m].taken) <= 10000 * ledger'[m].taken
                        /\ ledger'[m].slashed <=> \E v \in convictions' : v.claim.node = m
      BY DEF StakeConserved, Reward
    <3>1. /\ ledger[m].stake >= 0 /\ ledger[m].stake + ledger[m].taken = ledger[m].bonded
          /\ Reward(ledger[m].taken) <= 10000 * ledger[m].taken
          /\ ledger[m].slashed <=> \E v \in convictions : v.claim.node = m
      BY <1>1 DEF StakeInv, StakeConserved
    <3>2. CASE m # n
      <4>1. conviction.claim.node # m
        BY <3>2
      <4>2. ledger'[m] = ledger[m]
        BY <2>4, <3>2
      <4>3. (\E v \in convictions' : v.claim.node = m) <=> \E v \in convictions : v.claim.node = m
        BY <2>1, <4>1
      <4> QED BY <3>1, <4>2, <4>3 DEF Reward
    <3>3. CASE m = n
      <4>1. conviction.claim.node = m
        BY <3>3
      <4>2. \E v \in convictions' : v.claim.node = m
        BY <2>1, <4>1
      <4>3. ledger'[m].stake >= 0 /\ ledger'[m].stake + ledger'[m].taken = ledger'[m].bonded
        BY <2>2, <2>3, <2>4, <3>1, <3>3 DEF Account
      <4>4. ledger'[m].taken \in Nat
        BY <2>4 DEF Account
      <4>5. ledger'[m].taken * RewardBps <= 10000 * ledger'[m].taken
        <5> DEFINE t == ledger'[m].taken
        <5>1. t \in Nat
          BY <4>4
        <5> HIDE DEF t
        <5>2. RewardBps * t <= 10000 * t
          BY <5>1, ProductGrows, ChallengeAssumption
        <5>3. RewardBps * t = t * RewardBps
          BY <5>1, ChallengeAssumption
        <5>4. t * RewardBps <= 10000 * t
          BY <5>2, <5>3
        <5> QED BY <5>4 DEF t
      <4> QED BY <2>3, <2>4, <3>3, <4>2, <4>3, <4>5 DEF Reward
    <3> QED BY <3>2, <3>3
  <2>7. HonestKeepStake'
    <3>1. ASSUME check.claim.output = check.claim.profile
          PROVE  Share(Misled(Votes(check)), Votes(check))
      BY <1>1, <1>3, <1>5, <3>1, ConvictedByMisled
    <3>2. conviction.claim = check.claim /\ conviction.votes = Votes(check)
      OBVIOUS
    <3> HIDE DEF conviction
    <3>3. \A v \in convictions : v.claim.output = v.claim.profile => Share(Misled(v.votes), v.votes)
      BY <1>1 DEF StakeInv, HonestKeepStake
    <3>4. \A v \in convictions' : v.claim.output = v.claim.profile => Share(Misled(v.votes), v.votes)
      BY <2>1, <3>1, <3>2, <3>3
    <3> QED BY <3>4 DEF HonestKeepStake, Share, Misled
  <2> QED BY <1>1, <1>2, <2>4, <2>5, <2>6, <2>7 DEF ChallengeIInv, ChallengeTypes, StakeInv
<1> QED BY <1>4, <1>5

LEMMA ReplayKeeps ==
  ASSUME ChallengeIInv, NEW i \in DOMAIN checks, NEW c \in DOMAIN checks[i].votes,
         Compare(i, c) \/ Rerun(i, c) \/ Abandon(i, c)
  PROVE  ChallengeIInv'
<1> DEFINE old == checks[i]
<1>1. /\ ChallengeTypes /\ \A j \in DOMAIN checks : Sound(checks[j])
      /\ UNCHANGED <<installed, running, claims, ledger, convictions>>
  BY DEF Compare, Rerun, Abandon, ChallengeIInv
<1>2. StakeInv'
  BY <1>1, StakeUnmoved DEF ChallengeIInv
<1>3. old \in Check /\ Sound(old) /\ old.claim \in Claim
  <2>1. old \in Check
    BY <1>1, LenProperties DEF ChallengeTypes
  <2> QED BY <1>1, <2>1 DEF Check
<1>4. PICK drawn \in SUBSET Challenger : old.votes \in [drawn -> Answer]
  BY <1>3 DEF Check
<1>5. c \in Challenger /\ c \in Party /\ old.votes[c] \in Answer /\ Truthful(old.claim, c, old.votes[c])
  BY <1>3, <1>4 DEF Party, Sound
<1>6. CASE Compare(i, c)
  <2> DEFINE p == IF c \in Faulty THEN old.claim.profile ELSE Profile(c)
             vote == [old.votes[c] EXCEPT !.profile = p, !.step =
                        IF Compatible(old.claim, p) THEN "compatible" ELSE "incompatible"]
  <2>1. /\ checks' = [checks EXCEPT ![i].votes[c] = vote]
        /\ cached' = [cached EXCEPT ![c] = Profile(c)]
    BY <1>6 DEF Compare, ReadProfile
  <2>2. Profile(c) \in Version \cup {NoProfile} /\ p \in Version \cup {NoProfile}
    BY <1>1, <1>3, <1>5, ProfileType DEF Claim
  <2>3. vote \in Answer /\ Truthful(old.claim, c, vote)
    <3> HIDE DEF p
    <3> QED BY <1>5, <2>2 DEF Answer, Truthful, Compatible
  <2> HIDE DEF vote
  <2>4. checks' \in Seq(Check) /\ \A j \in DOMAIN checks' : Sound(checks'[j])
    BY <1>1, <2>1, <2>3, AnswerChanges
  <2>5. cached' \in [Party -> Version \cup {NoProfile}]
    BY <1>1, <2>1, <2>2 DEF ChallengeTypes
  <2> QED BY <1>1, <1>2, <2>4, <2>5 DEF ChallengeIInv, ChallengeTypes
<1>7. CASE Rerun(i, c)
  <2>1. PICK output \in IF c \in Faulty THEN Output ELSE {installed[c]} :
          checks' = [checks EXCEPT ![i].votes[c] =
                       [@ EXCEPT !.step = "voted", !.ran = installed[c], !.output = output]]
    BY <1>7 DEF Rerun
  <2> DEFINE vote == [old.votes[c] EXCEPT !.step = "voted", !.ran = installed[c], !.output = output]
  <2>2. installed[c] \in Version /\ output \in Output /\ (c \notin Faulty => output = installed[c])
    BY <1>1, <1>5, <2>1 DEF ChallengeTypes, Output
  <2>3. old.votes[c].step = "compatible" /\ cached' = cached
    BY <1>7 DEF Rerun
  <2>4. vote \in Answer /\ Truthful(old.claim, c, vote)
    BY <1>5, <2>2, <2>3 DEF Answer, Truthful
  <2>5. checks' = [checks EXCEPT ![i].votes[c] = vote]
    BY <2>1
  <2> HIDE DEF vote
  <2>6. checks' \in Seq(Check) /\ \A j \in DOMAIN checks' : Sound(checks'[j])
    BY <1>1, <2>4, <2>5, AnswerChanges
  <2> QED BY <1>1, <1>2, <2>3, <2>6 DEF ChallengeIInv, ChallengeTypes
<1>8. CASE Abandon(i, c)
  <2>1. checks' = [checks EXCEPT ![i].votes = <<>>] /\ cached' = cached
    BY <1>8 DEF Abandon
  <2>2. checks' \in Seq(Check) /\ \A j \in DOMAIN checks' : Sound(checks'[j])
    BY <1>1, <2>1, CheckEnds
  <2> QED BY <1>1, <1>2, <2>1, <2>2 DEF ChallengeIInv, ChallengeTypes
<1> QED BY <1>6, <1>7, <1>8

LEMMA DrawKeeps ==
  ASSUME ChallengeIInv, NEW claim \in claims, Challenge(claim) \/ Draw(claim)
  PROVE  ChallengeIInv'
<1>1. /\ ChallengeTypes /\ \A j \in DOMAIN checks : Sound(checks[j])
      /\ UNCHANGED <<installed, cached, running, claims, ledger, convictions>>
  BY DEF Challenge, Draw, ChallengeIInv
<1>2. StakeInv'
  BY <1>1, StakeUnmoved DEF ChallengeIInv
<1>3. checks' \in Seq(Check) /\ \A j \in DOMAIN checks' : Sound(checks'[j])
  <2>1. CASE Challenge(claim)
    <3>1. PICK c \in Challenger :
            checks' = Append(checks, [claim |-> claim, quorum |-> FALSE,
                                      votes |-> [d \in {c} |-> Unanswered]])
      BY <2>1 DEF Challenge
    <3>2. {c} \in SUBSET Challenger /\ \A d, e \in {c} : d = e
      OBVIOUS
    <3> QED BY <1>1, <3>1, <3>2, CheckStarts
  <2>2. CASE Draw(claim)
    <3>1. PICK drawn \in SUBSET Challenger :
            checks' = Append(checks, [claim |-> claim, quorum |-> TRUE,
                                      votes |-> [d \in drawn |-> Unanswered]])
      BY <2>2 DEF Draw
    <3> QED BY <1>1, <3>1, CheckStarts
  <2> QED BY <2>1, <2>2
<1> QED BY <1>1, <1>2, <1>3 DEF ChallengeIInv, ChallengeTypes

LEMMA InitChallenge == ChallengeInit => ChallengeIInv
<1> SUFFICES ASSUME ChallengeInit PROVE ChallengeIInv
  OBVIOUS
<1>1. ChallengeTypes
  BY DEF ChallengeInit, ChallengeTypes, Account
<1>2. DOMAIN checks = {}
  BY DEF ChallengeInit
<1>3. StakeInv
  BY ChallengeAssumption DEF ChallengeInit, StakeInv, StakeConserved, HonestKeepStake, Reward
<1> QED BY <1>1, <1>2, <1>3 DEF ChallengeIInv

LEMMA NextChallenge == ChallengeIInv /\ [ChallengeNext]_challengeVars => ChallengeIInv'
<1> SUFFICES ASSUME ChallengeIInv, [ChallengeNext]_challengeVars PROVE ChallengeIInv'
  OBVIOUS
<1>1. ASSUME NEW p \in Party, Upgrade(p) PROVE ChallengeIInv'
  <2>1. UNCHANGED <<cached, running, claims, checks, ledger, convictions>>
    BY <1>1 DEF Upgrade
  <2>2. installed' \in [Party -> Version]
    BY <1>1 DEF Upgrade, ChallengeIInv, ChallengeTypes
  <2>3. StakeInv'
    BY <2>1, StakeUnmoved DEF ChallengeIInv
  <2> QED BY <2>1, <2>2, <2>3 DEF ChallengeIInv, ChallengeTypes
<1>2. ASSUME UNCHANGED challengeVars PROVE ChallengeIInv'
  <2>1. StakeInv'
    BY <1>2, StakeUnmoved DEF ChallengeIInv, challengeVars
  <2> QED BY <1>2, <2>1 DEF ChallengeIInv, ChallengeTypes, challengeVars
<1> QED BY <1>1, <1>2, RunKeeps, BondKeeps, DrawKeeps, ReplayKeeps, ConcludeKeeps DEF ChallengeNext

\* However resolutions, upgrades and bonds overlap: stake is conserved and taken once,
\* and an honest claim is convicted only by a deciding share of misled replays.
THEOREM HonestStakeIsSafe == ChallengeSpec => []StakeInv
<1>1. ChallengeIInv => StakeInv
  BY DEF ChallengeIInv
<1> QED BY InitChallenge, NextChallenge, <1>1, PTL DEF ChallengeSpec
------------------------------------------------------------------------------
(* The data directory *)

Manifest == "storage-manifest.json"

Chain == Genesis \cup {Legacy, Nothing.chain}
File == [chain : Chain, stamp : Nat]
Mode == {"down", "running", "resetting"}

DirectoryTypes ==
  /\ dir \in [Name -> File]
  /\ archive \in [DOMAIN archive -> [Name -> File]]
  /\ node \in [phase : Mode, genesis : Chain, todo : SUBSET Name,
               label : {node.label}, mark : {node.mark}]
  /\ writes \in Nat

\* What is in the directory belongs to the manifest's chain; without a manifest
\* it is what the last format left.
ManifestBinds ==
  /\ Has(Manifest) => \A n \in Name : Has(n) => dir[n].chain = dir[Manifest].chain
  /\ ~ Has(Manifest) => \A n \in Name : Has(n) => n \in StateFile /\ dir[n].chain = Legacy
  /\ node.phase = "running" => Has(Manifest) /\ dir[Manifest].chain = node.genesis

\* A reset has the whole directory still to move, to places that are free.
ResetClaims ==
  node.phase = "resetting" =>
    /\ node.todo = Todo
    /\ node.genesis \in Genesis
    /\ Unclaimed(node.label)

Kept == Contents(dir) \cup UNION {Contents(archive[l]) : l \in DOMAIN archive}

DirectoryIInv == DirectoryTypes /\ ManifestBinds /\ ResetClaims /\ live \subseteq Kept

\* The names in their order, the manifest's the last.
LEMMA SortedNames ==
  /\ DOMAIN Sorted = 1 .. 6 /\ Sorted[6] = Manifest
  /\ StateFile \subseteq Name /\ Manifest \in Name
  /\ \A n \in Name : \E i \in 1 .. 6 : Sorted[i] = n
  /\ "blocks.torn" \in Name /\ "chainstate.corrupt" \in Name /\ "chainstate.snapshot" \in Name
  /\ Manifest \notin StateFile /\ "blocks.dat" \in StateFile
<1>1. DOMAIN Sorted = 1 .. 6
  BY DEF Sorted
<1>2. /\ Sorted[1] = "audits.json" /\ Sorted[2] = "blocks.dat" /\ Sorted[3] = "blocks.torn"
      /\ Sorted[4] = "chainstate.corrupt" /\ Sorted[5] = "chainstate.snapshot"
      /\ Sorted[6] = Manifest
  BY DEF Sorted, Manifest
<1>3. Name = {Sorted[i] : i \in 1 .. 6}
  BY <1>1 DEF Name
<1> HIDE DEF Sorted
<1>4. StateFile \subseteq Name /\ Manifest \in Name
  BY <1>2, <1>3 DEF StateFile
<1>5. "blocks.torn" \in Name /\ "chainstate.corrupt" \in Name /\ "chainstate.snapshot" \in Name
  BY <1>2, <1>3
<1>6. Manifest \notin StateFile /\ "blocks.dat" \in StateFile
  BY DEF Manifest, StateFile
<1> QED BY <1>1, <1>2, <1>3, <1>4, <1>5, <1>6

\* A reset moves the manifest when nothing else is left.
LEMMA FirstIsThere ==
  ASSUME NEW names \in SUBSET Name, names # {}
  PROVE  First(names) \in names /\ (First(names) = Manifest => names = {Manifest})
<1> DEFINE places == {i \in DOMAIN Sorted : Sorted[i] \in names}
<1>1. places \subseteq 1 .. 6 /\ places # {}
  BY SortedNames
<1>2. Min(places) \in places /\ \A i \in places : Min(places) <= i
  <2>1. \E i \in places : \A j \in places : i <= j
    BY <1>1
  <2> QED BY <2>1 DEF Min
<1>3. First(names) = Sorted[Min(places)]
  BY DEF First
<1>4. First(names) \in names
  BY <1>2, <1>3
<1>5. ASSUME First(names) = Manifest PROVE names = {Manifest}
  <2>1. \A i \in 1 .. 6 : Sorted[i] = Manifest => i = 6
    BY DEF Sorted, Manifest
  <2>2. Min(places) = 6
    BY <1>1, <1>2, <1>3, <1>5, <2>1
  <2>3. \A i \in places : i = 6
    BY <1>1, <1>2, <2>2
  <2>4. \A n \in names : n = Manifest
    BY <2>3, SortedNames
  <2> QED BY <2>4, <1>4, <1>5
<1> QED BY <1>4, <1>5

LEMMA WriteKeeps ==
  ASSUME DirectoryTypes, live \subseteq Kept, NEW name \in Name, NEW g \in Chain, Write(name, g),
         archive' = archive
  PROVE  /\ dir' \in [Name -> File] /\ writes' \in Nat /\ live' \subseteq Kept'
         /\ Has(name)' /\ dir'[name].chain = g
         /\ \A n \in Name \ {name} : dir'[n] = dir[n]
<1> DEFINE new == [chain |-> g, stamp |-> writes + 1]
<1>1. /\ dir \in [Name -> File] /\ writes \in Nat /\ writes' = writes + 1
      /\ dir' = [dir EXCEPT ![name] = new] /\ live' = (live \ {dir[name]}) \cup {new}
  BY DEF DirectoryTypes, Write
<1>2. new \in File /\ new.chain = g
  BY <1>1 DEF File
<1>3. new # Nothing
  <2>1. new.stamp = writes + 1 /\ Nothing.stamp = 0
    BY DEF Nothing
  <2>2. writes + 1 # 0
    BY <1>1
  <2> QED BY <2>1, <2>2
<1> HIDE DEF new
<1>4. dir' \in [Name -> File] /\ dir'[name] = new /\ \A n \in Name \ {name} : dir'[n] = dir[n]
  BY <1>1, <1>2
<1>5. live' \subseteq Kept'
  <2> SUFFICES ASSUME NEW x \in live' PROVE x \in Kept'
    OBVIOUS
  <2>1. CASE x = new
    BY <1>4, <2>1 DEF Kept, Contents
  <2>2. CASE x # new
    <3>1. x \in live /\ x # dir[name]
      BY <1>1, <2>2
    <3>2. CASE x \in Contents(dir)
      BY <1>4, <3>1, <3>2 DEF Kept, Contents
    <3>3. CASE x \in UNION {Contents(archive[l]) : l \in DOMAIN archive}
      BY <3>3 DEF Kept, Contents
    <3> QED BY <3>1, <3>2, <3>3 DEF Kept
  <2> QED BY <2>1, <2>2
<1> QED BY <1>1, <1>2, <1>3, <1>4, <1>5 DEF Has

\* A directory that opens holds the files of its own release and no others.
LEMMA OpenKeeps ==
  ASSUME DirectoryTypes, ManifestBinds, live \subseteq Kept, NEW g \in Genesis, Open(g),
         archive' = archive
  PROVE  DirectoryIInv'
<1>1. /\ dir \in [Name -> File] /\ g \in Chain /\ writes \in Nat
      /\ archive \in [DOMAIN archive -> [Name -> File]]
  BY DEF DirectoryTypes, Chain
<1>2. node' = [phase |-> "running", genesis |-> g, todo |-> {}, label |-> <<>>, mark |-> <<>>]
  BY DEF Open, Down
<1>3. /\ node' \in [phase : Mode, genesis : Chain, todo : SUBSET Name,
                     label : {node'.label}, mark : {node'.mark}]
      /\ node'.phase = "running" /\ node'.genesis = g
  BY <1>1, <1>2 DEF Mode
<1>4. CASE ~ Has(Manifest)
  <2>1. Write(Manifest, g)
    BY <1>4 DEF Open, Manifest
  <2>2. \A n \in Name : ~ Has(n)
    <3>1. \A n \in Name : Has(n) => n \in StateFile /\ dir[n].chain = Legacy
      BY <1>4 DEF ManifestBinds
    <3>2. (\A n \in StateFile : ~ Has(n)) \/ (Has("blocks.dat") /\ dir["blocks.dat"].chain # Legacy)
      BY <1>4 DEF Open, Opens, Adoptable, Manifest
    <3> QED BY <3>1, <3>2, SortedNames
  <2>3. /\ dir' \in [Name -> File] /\ writes' \in Nat /\ live' \subseteq Kept'
        /\ Has(Manifest)' /\ dir'[Manifest].chain = g
        /\ \A n \in Name \ {Manifest} : dir'[n] = dir[n]
    BY <1>1, <2>1, WriteKeeps, SortedNames
  <2>4. ManifestBinds'
    BY <1>3, <2>2, <2>3 DEF ManifestBinds, Has
  <2> QED BY <1>1, <1>3, <2>3, <2>4 DEF DirectoryIInv, DirectoryTypes, ResetClaims
<1>5. CASE Has(Manifest) /\ torn
  <2>1. Write("blocks.torn", g) /\ dir[Manifest].chain = g
    BY <1>5 DEF Open, Opens, Manifest
  <2>2. \A n \in Name : Has(n) => dir[n].chain = g
    BY <1>5, <2>1 DEF ManifestBinds
  <2>3. /\ dir' \in [Name -> File] /\ writes' \in Nat /\ live' \subseteq Kept'
        /\ dir'["blocks.torn"].chain = g
        /\ \A n \in Name \ {"blocks.torn"} : dir'[n] = dir[n]
    BY <1>1, <2>1, WriteKeeps, SortedNames
  <2>4. dir'[Manifest] = dir[Manifest]
    BY <2>3, SortedNames DEF Manifest
  <2>5. ManifestBinds'
    BY <1>3, <1>5, <2>1, <2>2, <2>3, <2>4 DEF ManifestBinds, Has
  <2> QED BY <1>1, <1>3, <2>3, <2>5 DEF DirectoryIInv, DirectoryTypes, ResetClaims
<1>6. CASE Has(Manifest) /\ ~ torn
  <2>1. UNCHANGED <<dir, live, writes>> /\ dir[Manifest].chain = g
    BY <1>6 DEF Open, Opens, Manifest
  <2>2. ManifestBinds'
    BY <1>3, <1>6, <2>1 DEF ManifestBinds, Has
  <2>3. live' \subseteq Kept'
    BY <2>1 DEF Kept, Contents
  <2> QED BY <1>1, <1>3, <2>1, <2>2, <2>3 DEF DirectoryIInv, DirectoryTypes, ResetClaims
<1> QED BY <1>4, <1>5, <1>6

\* While a reset runs, what has been moved is in the archive, over nothing.
LEMMA MoveKeeps == DirectoryIInv /\ MoveNext => DirectoryIInv'
<1> SUFFICES ASSUME DirectoryIInv, MoveNext PROVE DirectoryIInv'
  OBVIOUS
<1> DEFINE name == First(node.todo)
           files == [Archived(node.label) EXCEPT ![name] = dir[name]]
<1>1. /\ dir \in [Name -> File] /\ archive \in [DOMAIN archive -> [Name -> File]]
      /\ node \in [phase : Mode, genesis : Chain, todo : SUBSET Name,
                   label : {node.label}, mark : {node.mark}]
      /\ writes \in Nat
  BY DEF DirectoryIInv, DirectoryTypes
<1>2. /\ node.todo = Todo /\ node.todo # {} /\ node.phase = "resetting" /\ Unclaimed(node.label)
      /\ node.genesis \in Genesis
      /\ archive' = [l \in DOMAIN archive \cup {node.label} |->
                       IF l = node.label THEN files ELSE archive[l]]
      /\ dir' = [dir EXCEPT ![name] = Nothing]
      /\ node' = [node EXCEPT !.todo = @ \ {First(@)}]
      /\ UNCHANGED <<done, live, writes>>
  BY DEF DirectoryIInv, ResetClaims, MoveNext
<1>3. name \in Name /\ name \in Todo /\ (name = Manifest => Todo = {Manifest})
  BY <1>2, FirstIsThere DEF Todo
<1>4. Nothing \in File
  BY DEF Nothing, File, Chain
<1>5. Archived(node.label) \in [Name -> File] /\ Archived(node.label)[name] = Nothing
  <2>1. Directory \in [Name -> File]
    BY <1>4 DEF Directory
  <2> QED BY <1>1, <1>2, <1>3, <2>1 DEF Archived, Unclaimed
<1> HIDE DEF name
<1>6. files \in [Name -> File] /\ files[name] = dir[name]
      /\ \A n \in Name \ {name} : files[n] = Archived(node.label)[n]
  BY <1>1, <1>3, <1>5
<1> HIDE DEF files
<1>7. /\ dir' \in [Name -> File] /\ dir'[name] = Nothing /\ \A n \in Name \ {name} : dir'[n] = dir[n]
  BY <1>1, <1>2, <1>3, <1>4
<1>8. /\ archive' \in [DOMAIN archive' -> [Name -> File]] /\ Archived(node.label)' = files
      /\ \A l \in DOMAIN archive : l # node.label => l \in DOMAIN archive' /\ archive'[l] = archive[l]
      /\ node.label \in DOMAIN archive' /\ archive'[node.label] = files
  BY <1>1, <1>2, <1>6 DEF Archived
<1>9. /\ node' \in [phase : Mode, genesis : Chain, todo : SUBSET Name,
                     label : {node'.label}, mark : {node'.mark}]
      /\ node'.phase = "resetting" /\ node'.genesis = node.genesis /\ node'.label = node.label
      /\ node'.todo = node.todo \ {name}
  BY <1>1, <1>2 DEF name
<1>10. Todo' = Todo \ {name}
  BY <1>3, <1>7 DEF Todo, Has
<1>11. Unclaimed(node.label)'
  BY <1>2, <1>6, <1>8, <1>9, <1>10 DEF Unclaimed, Todo
<1>12. ManifestBinds'
  <2>1. CASE name = Manifest
    <3>1. \A n \in Name : ~ Has(n)'
      BY <1>3, <1>7, <1>10, <2>1 DEF Todo, Has
    <3> QED BY <1>9, <3>1, SortedNames DEF ManifestBinds
  <2>2. CASE name # Manifest
    BY <1>7, <1>9, <2>2, SortedNames DEF ManifestBinds, Has, DirectoryIInv
  <2> QED BY <2>1, <2>2
<1>13. live' \subseteq Kept'
  <2> SUFFICES ASSUME NEW x \in live PROVE x \in Kept'
    BY <1>2
  <2>1. x \in Kept
    BY DEF DirectoryIInv
  <2>2. CASE x \in Contents(dir)
    <3>1. PICK n \in Name : x = dir[n]
      BY <2>2 DEF Contents
    <3>2. CASE n = name
      BY <1>3, <1>6, <1>8, <3>1, <3>2 DEF Kept, Contents
    <3>3. CASE n # name
      BY <1>7, <3>1, <3>3 DEF Kept, Contents
    <3> QED BY <3>2, <3>3
  <2>3. ASSUME NEW l \in DOMAIN archive, x \in Contents(archive[l]) PROVE x \in Kept'
    <3>1. PICK n \in Name : x = archive[l][n]
      BY <2>3 DEF Contents
    <3>2. CASE l # node.label
      BY <1>8, <3>1, <3>2 DEF Kept, Contents
    <3>3. CASE l = node.label /\ n # name
      BY <1>6, <1>8, <3>1, <3>3 DEF Kept, Contents, Archived
    <3>4. CASE l = node.label /\ n = name
      <4>1. x = Nothing
        BY <1>5, <3>1, <3>4 DEF Archived
      <4> QED BY <1>3, <1>7, <4>1 DEF Kept, Contents
    <3> QED BY <3>2, <3>3, <3>4
  <2> QED BY <2>1, <2>2, <2>3 DEF Kept
<1> QED BY <1>1, <1>2, <1>7, <1>8, <1>9, <1>10, <1>11, <1>12, <1>13
        DEF DirectoryIInv, DirectoryTypes, ResetClaims

LEMMA ResetKeeps ==
  ASSUME DirectoryIInv, NEW g \in Genesis, NEW id \in ResetId, StartReset(g, id)
  PROVE  DirectoryIInv'
<1>1. /\ node' = [phase |-> "resetting", genesis |-> g, todo |-> Todo,
                  label |-> ArchiveLabel(id, g), mark |-> <<id, g>>]
      /\ UNCHANGED <<dir, archive, live, writes>> /\ Unclaimed(ArchiveLabel(id, g))
  BY DEF StartReset
<1>2. DirectoryTypes'
  <2>1. Todo \in SUBSET Name /\ g \in Chain
    BY DEF Todo, Chain
  <2> QED BY <1>1, <2>1 DEF DirectoryIInv, DirectoryTypes, Mode
<1>3. ManifestBinds'
  BY <1>1 DEF DirectoryIInv, ManifestBinds, Has
<1>4. ResetClaims'
  BY <1>1 DEF ResetClaims, Todo, Has, Unclaimed, Archived
<1>5. live' \subseteq Kept'
  BY <1>1 DEF DirectoryIInv, Kept, Contents
<1> QED BY <1>2, <1>3, <1>4, <1>5 DEF DirectoryIInv

LEMMA SaveKeeps ==
  ASSUME DirectoryIInv, NEW name \in StateFile, Save(name)
  PROVE  DirectoryIInv'
<1>1. /\ DirectoryTypes /\ ManifestBinds /\ live \subseteq Kept /\ node.phase = "running"
      /\ Write(name, node.genesis) /\ UNCHANGED <<archive, node>>
      /\ node.genesis \in Chain /\ name \in Name /\ name # Manifest
  BY SortedNames DEF DirectoryIInv, DirectoryTypes, Save
<1>2. /\ dir' \in [Name -> File] /\ writes' \in Nat /\ live' \subseteq Kept'
      /\ dir'[name].chain = node.genesis
      /\ \A n \in Name \ {name} : dir'[n] = dir[n]
  BY <1>1, WriteKeeps
<1>3. Has(Manifest) /\ dir[Manifest].chain = node.genesis /\ dir'[Manifest] = dir[Manifest]
  BY <1>1, <1>2, SortedNames DEF ManifestBinds
<1>4. ManifestBinds'
  BY <1>1, <1>2, <1>3 DEF ManifestBinds, Has
<1> QED BY <1>1, <1>2, <1>4 DEF DirectoryIInv, DirectoryTypes, ResetClaims

LEMMA ClearKeeps == DirectoryIInv /\ ClearSnapshot => DirectoryIInv'
<1> SUFFICES ASSUME DirectoryIInv, ClearSnapshot PROVE DirectoryIInv'
  OBVIOUS
<1> DEFINE name == "chainstate.snapshot"
<1>1. /\ DirectoryTypes /\ ManifestBinds /\ live \subseteq Kept /\ node.phase = "running"
      /\ dir' = [dir EXCEPT ![name] = Nothing] /\ live' = live \ {dir[name]}
      /\ UNCHANGED <<archive, node, writes>>
  BY DEF DirectoryIInv, ClearSnapshot
<1>2. name \in Name /\ name # Manifest /\ Nothing \in File
  BY SortedNames DEF Manifest, Nothing, File, Chain
<1>3. /\ dir' \in [Name -> File] /\ dir'[name] = Nothing
      /\ \A n \in Name \ {name} : dir'[n] = dir[n]
  BY <1>1, <1>2 DEF DirectoryTypes
<1>4. ManifestBinds'
  BY <1>1, <1>2, <1>3, SortedNames DEF ManifestBinds, Has
<1>5. live' \subseteq Kept'
  BY <1>1, <1>3 DEF Kept, Contents
<1> QED BY <1>1, <1>3, <1>4, <1>5 DEF DirectoryIInv, DirectoryTypes, ResetClaims

LEMMA QuarantineKeeps == DirectoryIInv /\ Quarantine => DirectoryIInv'
<1> SUFFICES ASSUME DirectoryIInv, Quarantine PROVE DirectoryIInv'
  OBVIOUS
<1> DEFINE from == "chainstate.snapshot"
           to == "chainstate.corrupt"
<1>1. /\ DirectoryTypes /\ ManifestBinds /\ live \subseteq Kept /\ node.phase = "running"
      /\ Has(from) /\ ~ Has(to) /\ dir' = [dir EXCEPT ![to] = dir[from], ![from] = Nothing]
      /\ UNCHANGED <<archive, node, writes, live>>
  BY DEF DirectoryIInv, Quarantine, Rename
<1>2. /\ from \in Name /\ to \in Name /\ from # to /\ from # Manifest /\ to # Manifest
      /\ Nothing \in File
  BY SortedNames DEF Manifest, Nothing, File, Chain
<1> HIDE DEF from, to
<1>3. /\ dir' \in [Name -> File] /\ dir'[from] = Nothing /\ dir'[to] = dir[from]
      /\ \A n \in Name \ {from, to} : dir'[n] = dir[n]
  BY <1>1, <1>2 DEF DirectoryTypes
<1>4. ManifestBinds'
  <2>1. \A n \in Name : Has(n)' => \E m \in Name : Has(m) /\ dir'[n] = dir[m]
    BY <1>1, <1>2, <1>3 DEF Has
  <2>2. Has(Manifest) /\ dir'[Manifest] = dir[Manifest] /\ dir[Manifest].chain = node.genesis
    BY <1>1, <1>2, <1>3, SortedNames DEF ManifestBinds
  <2> QED BY <1>1, <2>1, <2>2 DEF ManifestBinds, Has
<1>5. live' \subseteq Kept'
  <2> SUFFICES ASSUME NEW x \in live PROVE x \in Kept'
    BY <1>1
  <2>1. CASE x \in Contents(dir)
    <3>1. PICK n \in Name : x = dir[n]
      BY <2>1 DEF Contents
    <3>2. \E m \in Name : x = dir'[m]
      <4>1. CASE n = from
        BY <1>2, <1>3, <3>1, <4>1
      <4>2. CASE n = to
        BY <1>1, <1>2, <1>3, <3>1, <4>2 DEF Has
      <4>3. CASE n \in Name \ {from, to}
        BY <1>3, <3>1, <4>3
      <4> QED BY <4>1, <4>2, <4>3
    <3> QED BY <3>2 DEF Kept, Contents
  <2>2. CASE x \notin Contents(dir)
    BY <1>1, <2>2 DEF Kept, Contents
  <2> QED BY <2>1, <2>2
<1> QED BY <1>1, <1>3, <1>4, <1>5 DEF DirectoryIInv, DirectoryTypes, ResetClaims

LEMMA DiesKeeps == DirectoryIInv /\ Dies => DirectoryIInv'
<1> SUFFICES ASSUME DirectoryIInv, Dies PROVE DirectoryIInv'
  OBVIOUS
<1>1. UNCHANGED <<dir, archive, live, writes>>
  BY DEF Dies
<1>2. node' = [phase |-> "down", genesis |-> Nothing.chain, todo |-> {}, label |-> <<>>, mark |-> <<>>]
  BY DEF Dies, Down
<1>3. /\ node' \in [phase : Mode, genesis : Chain, todo : SUBSET Name,
                     label : {node'.label}, mark : {node'.mark}]
      /\ node'.phase = "down"
  BY <1>2 DEF Mode, Chain
<1>4. DirectoryTypes' /\ ManifestBinds' /\ ResetClaims'
  BY <1>1, <1>3 DEF DirectoryIInv, DirectoryTypes, ManifestBinds, ResetClaims, Has
<1>5. live' \subseteq Kept'
  BY <1>1 DEF DirectoryIInv, Kept, Contents
<1> QED BY <1>4, <1>5 DEF DirectoryIInv

LEMMA InitDirectory == DirectoryInit => DirectoryIInv
<1> SUFFICES ASSUME DirectoryInit PROVE DirectoryIInv
  OBVIOUS
<1>1. Nothing \in File /\ [chain |-> Legacy, stamp |-> 1] \in File
      /\ [chain |-> Legacy, stamp |-> 2] \in File
  BY DEF Nothing, File, Chain
<1>2. Directory \in [Name -> File] /\ \A n \in Name : Directory[n] = Nothing
  BY <1>1 DEF Directory
<1>3. LegacyFiles \in [Name -> File] /\ \A n \in Name : LegacyFiles[n] # Nothing =>
        n \in StateFile /\ LegacyFiles[n].chain = Legacy
  BY <1>1, <1>2 DEF LegacyFiles, StateFile
<1>4. /\ dir \in [Name -> File]
      /\ \A n \in Name : Has(n) => n \in StateFile /\ dir[n].chain = Legacy
  BY <1>2, <1>3 DEF DirectoryInit, Has
<1>5. node = [phase |-> "down", genesis |-> Nothing.chain, todo |-> {}, label |-> <<>>, mark |-> <<>>]
  BY DEF DirectoryInit, Down
<1>6. /\ node \in [phase : Mode, genesis : Chain, todo : SUBSET Name,
                     label : {node.label}, mark : {node.mark}]
      /\ node.phase = "down"
  BY <1>5 DEF Mode, Chain
<1>7. archive \in [DOMAIN archive -> [Name -> File]] /\ writes \in Nat
  BY DEF DirectoryInit
<1>8. ManifestBinds
  BY <1>4, <1>6, SortedNames DEF ManifestBinds
<1>9. live \subseteq Kept
  BY DEF DirectoryInit, Kept, Contents
<1> QED BY <1>4, <1>6, <1>7, <1>8, <1>9 DEF DirectoryIInv, DirectoryTypes, ResetClaims

LEMMA NextDirectory == DirectoryIInv /\ [DirectoryNext]_directoryVars => DirectoryIInv'
<1> SUFFICES ASSUME DirectoryIInv, [DirectoryNext]_directoryVars PROVE DirectoryIInv'
  OBVIOUS
<1>1. ASSUME NEW g \in Genesis, NEW id \in ResetId, Start(g, id) PROVE DirectoryIInv'
  <2>1. Open(g) /\ archive' = archive
    BY <1>1 DEF Start
  <2> QED BY <2>1, OpenKeeps DEF DirectoryIInv
<1>2. ASSUME FinishReset PROVE DirectoryIInv'
  <2>1. Open(node.genesis) /\ archive' = archive /\ node.genesis \in Genesis
    BY <1>2 DEF FinishReset, DirectoryIInv, ResetClaims
  <2> QED BY <2>1, OpenKeeps DEF DirectoryIInv
<1>3. ASSUME UNCHANGED directoryVars PROVE DirectoryIInv'
  <2>1. UNCHANGED <<dir, archive, node, live, writes>>
    BY <1>3 DEF directoryVars
  <2>2. DirectoryTypes' /\ ManifestBinds' /\ live' \subseteq Kept'
    BY <2>1 DEF DirectoryIInv, DirectoryTypes, ManifestBinds, Has, Kept, Contents
  <2>3. ResetClaims'
    BY <2>1 DEF DirectoryIInv, ResetClaims, Todo, Has, Unclaimed, Archived
  <2> QED BY <2>2, <2>3 DEF DirectoryIInv
<1> QED BY <1>1, <1>2, <1>3, ResetKeeps, MoveKeeps, SaveKeeps, ClearKeeps, QuarantineKeeps, DiesKeeps
        DEF DirectoryNext

\* Whatever releases are started and whatever resets are cut short: a node that runs
\* finds its own chain's files alone, and no content that was not replaced is gone.
THEOREM DirectoryIsOneChains == DirectorySpec => []DirectoryInv
<1>1. DirectoryIInv => DirectoryInv
  <2> SUFFICES ASSUME DirectoryIInv PROVE DirectoryInv
    OBVIOUS
  <2>1. live \subseteq Kept
    BY DEF DirectoryIInv
  <2>2. node.phase = "running" => \A n \in Name : Has(n) => dir[n].chain = node.genesis
    BY DEF DirectoryIInv, ManifestBinds
  <2> QED BY <2>1, <2>2 DEF DirectoryInv, Kept
<1> QED BY InitDirectory, NextDirectory, <1>1, PTL DEF DirectorySpec
------------------------------------------------------------------------------
(* Token contracts *)

Coin == [owner : User, supply : Int, balance : [Holder -> Int], allowance : [User -> Int],
         minters : SUBSET Contract]
StakeOf == [amount : Nat, at : Nat, debt : Nat, active : BOOLEAN]
Authorization == [account : User, amount : Nat, nonce : Int, deadline : Int]
Settlement == [account : User, amount : Nat, nonce : Int \X Int, deadline : Int]

\* The balances of a token add up to its supply, within the cap.
CoinSums(t) ==
  /\ t \in Coin
  /\ Sum(t.balance, Holder) = t.supply /\ t.supply <= MaxSupply
  /\ \A h \in Holder : t.balance[h] >= 0

BatchSums == [batch \in batches |-> Total(batch)]
StakeSums == [u \in User |-> staking.stakes[u].amount]

TokenTypes ==
  /\ deployed \subseteq Contract
  /\ market \in [sold : Int, raised : Int, kept : Int]
  /\ IsFiniteSet(batches) /\ batches \subseteq Batch
  /\ relay \in [signed : SUBSET Authorization, sent : SUBSET Authorization]
  /\ now \in Nat \ {0}
  /\ flows \in [direct : Int, burned : Int, rewards : Int, first : [User -> Nat],
                claimed : [User -> Nat], settled : SUBSET Settlement]

Supplied ==
  token.supply + flows.burned
    = InitialMint + flows.direct + flows.rewards + faucet.minted + Sum(BatchSums, batches)

Staked ==
  /\ staking \in [stakes : [User -> StakeOf], totalStaked : Int, rewardPool : Int]
  /\ staking.totalStaked = Sum(StakeSums, User)
  /\ \A u \in User : staking.stakes[u].at <= now

\* A user's clock stands where its claims have moved it.
Accrues ==
  /\ faucet \in [minted : Int, lastClaimAt : [User -> Nat], nonces : [User -> Int]]
  /\ faucet.minted = Sum(flows.claimed, User) /\ faucet.minted <= Cap
  /\ \A u \in User :
       /\ faucet.lastClaimAt[u] <= now
       /\ flows.first[u] = 0 => faucet.lastClaimAt[u] = 0 /\ flows.claimed[u] = 0
       /\ flows.first[u] > 0 =>
            /\ flows.first[u] <= faucet.lastClaimAt[u]
            /\ flows.claimed[u] = ClaimAmount * (1 + faucet.lastClaimAt[u] - flows.first[u])
  /\ \A a \in flows.settled : a.nonce[1] = a.nonce[2]

TokenIInv ==
  /\ TokenTypes /\ CoinSums(token) /\ Supplied /\ Staked /\ Accrues
  /\ token.balance["staking"] >= staking.totalStaked + staking.rewardPool

LEMMA Holders ==
  ASSUME TokenAssumption
  PROVE  /\ IsFiniteSet(User) /\ IsFiniteSet(Holder) /\ User \subseteq Holder
         /\ Contract \subseteq Holder
         /\ \A u \in User : u # "staking" /\ u # "market"
         /\ "market" # "staking" /\ "market" \in Holder /\ "staking" \in Holder
<1>1. IsFiniteSet({"staking"} \cup {"market"} \cup {"faucet"} \cup {"batch"})
  BY FS_Union, FS_Singleton
<1>2. {"staking"} \cup {"market"} \cup {"faucet"} \cup {"batch"} = Contract
  BY DEF Contract
<1>3. IsFiniteSet(Contract)
  BY <1>1, <1>2
<1>4. IsFiniteSet(User) /\ User \cap Contract = {}
  BY DEF TokenAssumption
<1>5. IsFiniteSet(Holder)
  BY <1>3, <1>4, FS_Union DEF Holder
<1> QED BY <1>4, <1>5 DEF Holder, Contract

\* The balances f and g are those of all but a.
Differs(f, g, a) ==
  \A h \in Holder : f[h] \in Int /\ g[h] \in Int /\ (h # a => g[h] = f[h])

\* Changing a balance changes the sum by as much.
LEMMA BalanceChanges ==
  ASSUME TokenAssumption, NEW f, NEW g, NEW a \in Holder, Differs(f, g, a)
  PROVE  /\ Sum(g, Holder) = Sum(f, Holder) + g[a] - f[a]
         /\ Sum(f, Holder) \in Int /\ f[a] \in Int /\ g[a] \in Int
BY Holders, SumChange DEF Differs

\* A transfer keeps the sum, and nobody below nothing who had enough.
LEMMA BalancesMove ==
  ASSUME TokenAssumption, NEW f \in [Holder -> Int], NEW from \in Holder, NEW to \in Holder,
         NEW n \in Nat, f[from] >= n, \A h \in Holder : f[h] >= 0
  PROVE  LET g == Move(f, from, to, n) IN
         /\ g \in [Holder -> Int] /\ Sum(g, Holder) = Sum(f, Holder)
         /\ \A h \in Holder : g[h] >= 0 /\ (h # from => g[h] >= f[h])
         /\ from # to => g[from] = f[from] - n /\ g[to] = f[to] + n
<1> DEFINE g == Move(f, from, to, n)
           m == [h \in Holder |-> IF h = from THEN f[h] - n ELSE f[h]]
<1>1. g \in [Holder -> Int] /\ m \in [Holder -> Int]
  BY DEF Move
<1>2. \A h \in Holder : g[h] >= 0 /\ (h # from => g[h] >= f[h])
  BY DEF Move
<1>3. from # to => g[from] = f[from] - n /\ g[to] = f[to] + n
  BY DEF Move
<1>4. Sum(g, Holder) = Sum(f, Holder)
  <2>1. CASE from = to
    <3>1. \A h \in Holder : g[h] = f[h]
      BY <2>1 DEF Move
    <3> HIDE DEF g
    <3> QED BY <3>1, Holders, SumSame
  <2>2. CASE from # to
    <3>1. m[from] = f[from] - n /\ m[to] = f[to] /\ g[to] = f[to] + n
      BY <2>2 DEF Move
    <3>2. Differs(f, m, from) /\ Differs(m, g, to)
      BY <1>1, <2>2 DEF Move, Differs
    <3> HIDE DEF g, m
    <3>3. /\ Sum(m, Holder) = Sum(f, Holder) + m[from] - f[from]
          /\ Sum(g, Holder) = Sum(m, Holder) + g[to] - m[to]
          /\ Sum(f, Holder) \in Int /\ Sum(m, Holder) \in Int
      BY <3>2, BalanceChanges
    <3> QED BY <3>1, <3>3
  <2> QED BY <2>1, <2>2
<1> QED BY <1>1, <1>2, <1>3, <1>4

LEMMA MintedSums ==
  ASSUME TokenAssumption, NEW t, CoinSums(t), NEW to \in Holder, NEW n \in Nat,
         t.supply + n <= MaxSupply
  PROVE  LET r == Minted(t, to, n) IN
         /\ CoinSums(r) /\ r.supply = t.supply + n
         /\ \A h \in Holder : r.balance[h] >= t.balance[h]
<1> DEFINE r == Minted(t, to, n)
           f == t.balance
           g == [f EXCEPT ![to] = @ + n]
<1>1. /\ r.balance = g /\ r.supply = t.supply + n /\ r \in Coin
      /\ f \in [Holder -> Int] /\ g \in [Holder -> Int] /\ t.supply \in Int
  <2>1. f \in [Holder -> Int] /\ t.supply \in Int /\ t \in Coin
    BY DEF CoinSums, Coin
  <2>2. g \in [Holder -> Int]
    BY <2>1
  <2>3. r = [owner |-> t.owner, supply |-> t.supply + n, balance |-> g,
             allowance |-> t.allowance, minters |-> t.minters]
    <3>1. t = [owner |-> t.owner, supply |-> t.supply, balance |-> f,
               allowance |-> t.allowance, minters |-> t.minters]
      BY <2>1 DEF Coin
    <3>2. r = [t EXCEPT !.supply = t.supply + n, !.balance = g]
      BY <2>1 DEF Minted, Coin
    <3> HIDE DEF f, g, r
    <3> QED BY <3>1, <3>2
  <2> HIDE DEF g, r
  <2>4. r.balance = g /\ r.supply = t.supply + n /\ r \in Coin
    BY <2>1, <2>2, <2>3 DEF Coin
  <2> QED BY <2>1, <2>2, <2>4
<1>2. /\ g[to] = f[to] + n /\ Differs(f, g, to)
      /\ \A h \in Holder : f[h] >= 0 /\ f[h] \in Int /\ g[h] \in Int /\ g[h] >= f[h]
  BY <1>1 DEF CoinSums, Differs
<1>3. Sum(f, Holder) = t.supply
  BY DEF CoinSums
<1> HIDE DEF f, g, r
<1>4. Sum(g, Holder) = Sum(f, Holder) + g[to] - f[to] /\ f[to] \in Int
  BY <1>2, BalanceChanges
<1>5. Sum(g, Holder) = t.supply + n
  BY <1>1, <1>2, <1>3, <1>4
<1>6. \A h \in Holder : g[h] >= f[h] /\ g[h] >= 0
  BY <1>2
<1>7. CoinSums(r)
  BY <1>1, <1>5, <1>6 DEF CoinSums
<1> QED BY <1>1, <1>6, <1>7 DEF r, f

\* What a batch adds to the balances.
LEMMA PaidSums ==
  ASSUME TokenAssumption, NEW f \in [Holder -> Int], NEW batch \in Batch
  PROVE  /\ Total(batch) \in Nat /\ Paid(f, batch) \in [Holder -> Int]
         /\ Sum(Paid(f, batch), Holder) = Sum(f, Holder) + Total(batch)
         /\ \A h \in Holder : Paid(f, batch)[h] >= f[h]
<1> DEFINE D == DOMAIN batch
           g == Paid(f, batch)
           rest == Holder \ D
           at(s) == [h \in Holder |-> f[h] + (IF h \in s THEN batch[h] ELSE 0)]
           F == {s \in SUBSET D : Sum(at(s), Holder) = Sum(f, Holder) + Sum(batch, s)}
<1>1. D \subseteq User /\ \A u \in D : batch[u] \in Nat
  BY DEF TokenAssumption
<1>2. IsFiniteSet(D) /\ D \subseteq Holder
  BY <1>1, Holders, FS_Subset
<1>3. Total(batch) = Sum(batch, D)
  BY SumIs DEF Total
<1>4. Total(batch) \in Nat
  <2> HIDE DEF D
  <2> QED BY <1>1, <1>2, <1>3, SumNatural
<1>5. g \in [Holder -> Int] /\ \A h \in Holder : g[h] >= f[h]
  BY <1>1 DEF Paid
<1>6. {} \in F
  <2>1. \A h \in Holder : at({})[h] = f[h] /\ f[h] \in Int
    OBVIOUS
  <2>2. Sum(batch, {}) = 0
    BY SumEmpty
  <2> DEFINE z == at({})
  <2>3. \A h \in Holder : z[h] = f[h] /\ f[h] \in Int
    BY <2>1
  <2> HIDE DEF z
  <2>4. Sum(z, Holder) = Sum(f, Holder) /\ Sum(f, Holder) \in Int
    BY <2>3, Holders, SumSame, SumType
  <2>5. Sum(at({}), Holder) = Sum(f, Holder) + Sum(batch, {})
    BY <2>2, <2>4 DEF z
  <2> QED BY <2>5
<1>7. ASSUME NEW s \in SUBSET D, NEW x \in D \ s, s \in F PROVE s \cup {x} \in F
  <2> DEFINE b == at(s)
             c == at(s \cup {x})
  <2>1. x \in Holder /\ batch[x] \in Nat
    BY <1>1, <1>2
  <2>2. c[x] = b[x] + batch[x]
    BY <1>1, <2>1
  <2>3. Differs(b, c, x)
    BY <1>1, <2>1 DEF Differs
  <2>4. Sum(b, Holder) = Sum(f, Holder) + Sum(batch, s)
    BY <1>7
  <2> HIDE DEF b, c
  <2>5. Sum(c, Holder) = Sum(b, Holder) + c[x] - b[x] /\ b[x] \in Int
    BY <2>1, <2>3, BalanceChanges
  <2>6. IsFiniteSet(s) /\ (\A h \in s : batch[h] \in Int) /\ x \notin s
    BY <1>1, <1>2, FS_Subset
  <2>7. Sum(batch, s \cup {x}) = batch[x] + Sum(batch, s) /\ Sum(batch, s) \in Int
    BY <2>1, <2>6, SumAdd, SumType
  <2>8. Sum(f, Holder) \in Int
    BY Holders, SumType
  <2>9. Sum(c, Holder) = Sum(f, Holder) + Sum(batch, s \cup {x})
    BY <2>1, <2>2, <2>4, <2>5, <2>7, <2>8
  <2> QED BY <2>9 DEF c
<1>8. D \in F
  <2> HIDE DEF D, F
  <2> QED BY <1>2, <1>6, <1>7, FiniteInduction
<1>9. g = at(D)
  BY DEF Paid
<1>10. Sum(g, Holder) = Sum(f, Holder) + Sum(batch, D)
  BY <1>8, <1>9
<1> QED BY <1>3, <1>4, <1>5, <1>10

LEMMA CoinIs ==
  ASSUME NEW t \in Coin
  PROVE  /\ t = [owner |-> t.owner, supply |-> t.supply, balance |-> t.balance,
                 allowance |-> t.allowance, minters |-> t.minters]
         /\ t.owner \in User /\ t.supply \in Int /\ t.balance \in [Holder -> Int]
         /\ t.allowance \in [User -> Int] /\ t.minters \in SUBSET Contract
BY DEF Coin

LEMMA BalanceSet ==
  ASSUME NEW t \in Coin, NEW b \in [Holder -> Int], NEW r, r = [t EXCEPT !.balance = b]
  PROVE  r \in Coin /\ r.supply = t.supply /\ r.balance = b
<1>1. t = [owner |-> t.owner, supply |-> t.supply, balance |-> t.balance,
           allowance |-> t.allowance, minters |-> t.minters]
  BY CoinIs
<1>2. r = [owner |-> t.owner, supply |-> t.supply, balance |-> b,
           allowance |-> t.allowance, minters |-> t.minters]
  BY <1>1
<1> QED BY <1>2, CoinIs DEF Coin

LEMMA AllowanceSet ==
  ASSUME NEW t \in Coin, NEW b \in [Holder -> Int], NEW a \in [User -> Int],
         NEW r, r = [t EXCEPT !.balance = b, !.allowance = a]
  PROVE  r \in Coin /\ r.supply = t.supply /\ r.balance = b
<1>1. t = [owner |-> t.owner, supply |-> t.supply, balance |-> t.balance,
           allowance |-> t.allowance, minters |-> t.minters]
  BY CoinIs
<1>2. r = [owner |-> t.owner, supply |-> t.supply, balance |-> b,
           allowance |-> a, minters |-> t.minters]
  BY <1>1
<1> QED BY <1>2, CoinIs DEF Coin

\* A coin moved, whatever happens to allowances.
LEMMA MovedSums ==
  ASSUME TokenAssumption, NEW t, CoinSums(t), NEW from \in Holder, NEW to \in Holder,
         NEW n \in Nat, t.balance[from] >= n,
         NEW r \in Coin, r.supply = t.supply, r.balance = Move(t.balance, from, to, n)
  PROVE  /\ CoinSums(r)
         /\ \A h \in Holder \ {from} : r.balance[h] >= t.balance[h]
         /\ from # to => r.balance[from] = t.balance[from] - n /\ r.balance[to] = t.balance[to] + n
<1>1. t.balance \in [Holder -> Int] /\ \A h \in Holder : t.balance[h] >= 0
  BY DEF CoinSums, Coin
<1>2. /\ Sum(r.balance, Holder) = Sum(t.balance, Holder)
      /\ \A h \in Holder : r.balance[h] >= 0 /\ (h # from => r.balance[h] >= t.balance[h])
      /\ from # to => r.balance[from] = t.balance[from] - n /\ r.balance[to] = t.balance[to] + n
  BY <1>1, BalancesMove
<1> QED BY <1>2 DEF CoinSums

\* Only who holds what, ether or requests change.
LEMMA TokenMoves ==
  ASSUME TokenAssumption, TokenIInv, CoinSums(token'), token'.supply = token.supply,
         token'.balance["staking"] >= token.balance["staking"],
         market' \in [sold : Int, raised : Int, kept : Int],
         relay' \in [signed : SUBSET Authorization, sent : SUBSET Authorization],
         UNCHANGED <<deployed, staking, faucet, batches, now, flows>>
  PROVE  TokenIInv'
<1>1. TokenTypes'
  BY DEF TokenIInv, TokenTypes
<1>2. Supplied' /\ Staked' /\ Accrues'
  <2>1. BatchSums' = BatchSums /\ StakeSums' = StakeSums
    BY DEF BatchSums, StakeSums
  <2> QED BY <2>1 DEF TokenIInv, Supplied, Staked, Accrues
<1>3. token'.balance["staking"] >= staking'.totalStaked + staking'.rewardPool
  <2>1. /\ token.balance["staking"] \in Int /\ token'.balance["staking"] \in Int
        /\ staking.totalStaked \in Int /\ staking.rewardPool \in Int
    BY Holders DEF TokenIInv, CoinSums, Coin, Staked
  <2> QED BY <2>1 DEF TokenIInv
<1> QED BY <1>1, <1>2, <1>3 DEF TokenIInv

\* Units are made or destroyed, outside of stakes and the dispenser.
LEMMA TokenIssues ==
  ASSUME TokenAssumption, TokenIInv, CoinSums(token'), Supplied',
         token'.balance["staking"] >= token.balance["staking"],
         IsFiniteSet(batches'), batches' \subseteq Batch,
         \E d, b \in Int : flows' = [flows EXCEPT !.direct = d, !.burned = b],
         UNCHANGED <<deployed, staking, market, faucet, relay, now>>
  PROVE  TokenIInv'
<1>1. /\ flows' \in [direct : Int, burned : Int, rewards : Int, first : [User -> Nat],
                     claimed : [User -> Nat], settled : SUBSET Settlement]
      /\ flows'.first = flows.first /\ flows'.claimed = flows.claimed
      /\ flows'.settled = flows.settled
  <2>1. PICK d \in Int, b \in Int : flows' = [flows EXCEPT !.direct = d, !.burned = b]
    OBVIOUS
  <2>2. flows \in [direct : Int, burned : Int, rewards : Int, first : [User -> Nat],
                   claimed : [User -> Nat], settled : SUBSET Settlement]
    BY DEF TokenIInv, TokenTypes
  <2>3. flows' = [direct |-> d, burned |-> b, rewards |-> flows.rewards, first |-> flows.first,
                  claimed |-> flows.claimed, settled |-> flows.settled]
    BY <2>1, <2>2
  <2> QED BY <2>2, <2>3
<1>2. TokenTypes'
  BY <1>1 DEF TokenIInv, TokenTypes
<1>3. Staked' /\ Accrues'
  <2>1. StakeSums' = StakeSums
    BY DEF StakeSums
  <2> QED BY <1>1, <2>1 DEF TokenIInv, Staked, Accrues
<1>4. token'.balance["staking"] >= staking'.totalStaked + staking'.rewardPool
  <2>1. /\ token.balance["staking"] \in Int /\ token'.balance["staking"] \in Int
        /\ staking.totalStaked \in Int /\ staking.rewardPool \in Int
    BY Holders DEF TokenIInv, CoinSums, Coin, Staked
  <2> QED BY <2>1 DEF TokenIInv
<1> QED BY <1>2, <1>3, <1>4 DEF TokenIInv
------------------------------------------------------------------------------

LEMMA TransferKeeps ==
  ASSUME TokenAssumption, TokenIInv, NEW from \in Holder, from # "staking", NEW to \in Holder,
         NEW n \in Nat, token.balance[from] >= n,
         token' = [token EXCEPT !.balance = Move(token.balance, from, to, n)]
  PROVE  /\ CoinSums(token') /\ token'.supply = token.supply
         /\ token'.balance["staking"] >= token.balance["staking"]
<1>1. token \in Coin /\ CoinSums(token) /\ token.balance \in [Holder -> Int]
  BY DEF TokenIInv, CoinSums, Coin
<1>2. Move(token.balance, from, to, n) \in [Holder -> Int]
  BY <1>1 DEF Move
<1> DEFINE b == Move(token.balance, from, to, n)
<1>3. token' \in Coin /\ token'.supply = token.supply /\ token'.balance = b
  <2> DEFINE r == token'
  <2>1. r = [token EXCEPT !.balance = b] /\ b \in [Holder -> Int]
    BY <1>2
  <2> HIDE DEF b, r
  <2>2. r \in Coin /\ r.supply = token.supply /\ r.balance = b
    BY <1>1, <2>1, BalanceSet
  <2> QED BY <2>2 DEF r
<1> DEFINE r == token'
<1>4. r \in Coin /\ r.supply = token.supply /\ r.balance = Move(token.balance, from, to, n)
  BY <1>3
<1> HIDE DEF r, b
<1>5. CoinSums(r) /\ \A h \in Holder \ {from} : r.balance[h] >= token.balance[h]
  BY <1>1, <1>4, MovedSums
<1> QED BY <1>3, <1>5, Holders DEF r

\* Owner, minters and allowances have no part in the sums.
LEMMA RightsKeep ==
  ASSUME TokenAssumption, TokenIInv, NEW r \in Coin, r.balance = token.balance,
         r.supply = token.supply
  PROVE  CoinSums(r) /\ r.balance["staking"] >= token.balance["staking"]
<1>1. token.balance["staking"] \in Int
  BY Holders DEF TokenIInv, CoinSums, Coin
<1> QED BY <1>1 DEF TokenIInv, CoinSums

LEMMA RightsSet ==
  ASSUME TokenAssumption, TokenIInv,
         \/ \E u \in User, n \in Int : token' = [token EXCEPT !.allowance[u] = n]
         \/ \E u \in User : token' = [token EXCEPT !.owner = u]
         \/ \E m \in SUBSET Contract : token' = [token EXCEPT !.minters = m]
         \/ token' = token
  PROVE  /\ CoinSums(token') /\ token'.supply = token.supply
         /\ token'.balance["staking"] >= token.balance["staking"]
<1>1. token \in Coin
  BY DEF TokenIInv, CoinSums
<1>2. /\ token = [owner |-> token.owner, supply |-> token.supply, balance |-> token.balance,
                  allowance |-> token.allowance, minters |-> token.minters]
      /\ token.owner \in User /\ token.supply \in Int /\ token.balance \in [Holder -> Int]
      /\ token.allowance \in [User -> Int] /\ token.minters \in SUBSET Contract
  BY <1>1, CoinIs
<1> DEFINE r == token'
<1>3. r \in Coin /\ r.balance = token.balance /\ r.supply = token.supply
  <2>1. CASE \E u \in User, n \in Int : token' = [token EXCEPT !.allowance[u] = n]
    <3>1. PICK u \in User, n \in Int : token' = [token EXCEPT !.allowance[u] = n]
      BY <2>1
    <3> DEFINE a == [token.allowance EXCEPT ![u] = n]
    <3>2. a \in [User -> Int]
      BY <1>2
    <3>3. r = [token EXCEPT !.allowance = a]
      BY <3>1
    <3> HIDE DEF a, r
    <3>4. r = [owner |-> token.owner, supply |-> token.supply, balance |-> token.balance,
               allowance |-> a, minters |-> token.minters]
      BY <1>2, <3>3
    <3> QED BY <1>2, <3>2, <3>4 DEF Coin
  <2>2. CASE \E u \in User : token' = [token EXCEPT !.owner = u]
    <3>1. PICK u \in User : r = [token EXCEPT !.owner = u]
      BY <2>2
    <3> HIDE DEF r
    <3>2. r = [owner |-> u, supply |-> token.supply, balance |-> token.balance,
               allowance |-> token.allowance, minters |-> token.minters]
      BY <1>2, <3>1
    <3> QED BY <1>2, <3>2 DEF Coin
  <2>3. CASE \E m \in SUBSET Contract : token' = [token EXCEPT !.minters = m]
    <3>1. PICK m \in SUBSET Contract : r = [token EXCEPT !.minters = m]
      BY <2>3
    <3> HIDE DEF r
    <3>2. r = [owner |-> token.owner, supply |-> token.supply, balance |-> token.balance,
               allowance |-> token.allowance, minters |-> m]
      BY <1>2, <3>1
    <3> QED BY <1>2, <3>2 DEF Coin
  <2>4. CASE token' = token
    BY <1>1, <2>4
  <2> QED BY <2>1, <2>2, <2>3, <2>4
<1> HIDE DEF r
<1>4. CoinSums(r) /\ r.balance["staking"] >= token.balance["staking"]
  BY <1>3, RightsKeep
<1> QED BY <1>3, <1>4 DEF r

LEMMA BoughtUnits == ASSUME TokenAssumption, NEW value \in Nat PROVE Bought(value) \in Nat
<1>1. Rate \in Nat \X (Nat \ {0})
  BY DEF TokenAssumption
<1>2. Rate[1] \in Nat /\ Rate[2] \in Nat \ {0}
  BY <1>1
<1>3. value * Rate[1] \in Nat
  BY <1>2
<1> QED BY <1>2, <1>3 DEF Bought

\* Calls that hand tokens on, set rights, sell or handle requests.
LEMMA HandingKeeps ==
  ASSUME TokenAssumption, TokenIInv,
         \/ \E u \in User, h \in User \cup deployed, n \in Amount : Transfer(u, h, n)
         \/ \E u \in User, n \in Amount : Approve(u, n)
         \/ \E c \in deployed : AuthorizeMinter(c)
         \/ \E u \in User : TransferOwnership(u)
         \/ \E n \in Amount : WithdrawJgt(n)
  PROVE  TokenIInv'
<1>1. /\ deployed \subseteq Contract /\ Amount \subseteq Nat /\ Deployer \in User
      /\ deployed \subseteq Holder /\ User \subseteq Holder
      /\ market \in [sold : Int, raised : Int, kept : Int]
      /\ relay \in [signed : SUBSET Authorization, sent : SUBSET Authorization]
  BY Holders DEF TokenIInv, TokenTypes, TokenAssumption
<1>2. SUFFICES /\ CoinSums(token') /\ token'.supply = token.supply
               /\ token'.balance["staking"] >= token.balance["staking"]
               /\ UNCHANGED <<deployed, staking, market, faucet, batches, relay, now, flows>>
  BY <1>1, TokenMoves
<1>3. UNCHANGED <<deployed, staking, market, faucet, batches, relay, now, flows>>
  BY DEF Transfer, Approve, AuthorizeMinter, TransferOwnership, WithdrawJgt
<1>4. CASE \/ \E u \in User, h \in User \cup deployed, n \in Amount : Transfer(u, h, n)
           \/ \E n \in Amount : WithdrawJgt(n)
  <2>1. PICK from \in Holder, to \in Holder, n \in Nat :
          from # "staking" /\ token.balance[from] >= n
          /\ token' = [token EXCEPT !.balance = Move(token.balance, from, to, n)]
    BY <1>1, <1>4, Holders DEF Transfer, WithdrawJgt
  <2> QED BY <1>3, <2>1, TransferKeeps
<1>5. CASE \/ \E u \in User, n \in Amount : Approve(u, n)
           \/ \E c \in deployed : AuthorizeMinter(c)
           \/ \E u \in User : TransferOwnership(u)
  <2>1. \/ \E u \in User, n \in Int : token' = [token EXCEPT !.allowance[u] = n]
        \/ \E u \in User : token' = [token EXCEPT !.owner = u]
        \/ \E m \in SUBSET Contract : token' = [token EXCEPT !.minters = m]
    <3>1. CASE \E u \in User, n \in Amount : Approve(u, n)
      <4>1. PICK u \in User, n \in Amount : token' = [token EXCEPT !.allowance[u] = n]
        BY <3>1 DEF Approve
      <4>2. n \in Int
        BY <1>1
      <4> QED BY <4>1, <4>2
    <3>2. CASE \E c \in deployed : AuthorizeMinter(c)
      <4>1. PICK c \in deployed, authorized \in BOOLEAN :
              token' = [token EXCEPT !.minters = IF authorized THEN @ \cup {c} ELSE @ \ {c}]
        BY <3>2 DEF AuthorizeMinter
      <4>2. token.minters \in SUBSET Contract
        BY DEF TokenIInv, CoinSums, Coin
      <4> DEFINE m == IF authorized THEN token.minters \cup {c} ELSE token.minters \ {c}
      <4>3. m \in SUBSET Contract /\ token' = [token EXCEPT !.minters = m]
        BY <1>1, <4>1, <4>2
      <4> QED BY <4>3
    <3>3. CASE \E u \in User : TransferOwnership(u)
      BY <3>3 DEF TransferOwnership
    <3> QED BY <1>5, <3>1, <3>2, <3>3
  <2> QED BY <1>3, <2>1, RightsSet
<1> QED BY <1>4, <1>5

LEMMA SellingKeeps ==
  ASSUME TokenAssumption, TokenIInv, NEW u \in User, NEW v \in Ether, Buy(u, v) \/ Receive(u, v)
  PROVE  TokenIInv'
<1>1. /\ v \in Nat /\ market \in [sold : Int, raised : Int, kept : Int]
      /\ relay \in [signed : SUBSET Authorization, sent : SUBSET Authorization]
  BY DEF TokenIInv, TokenTypes, TokenAssumption
<1>2. Bought(v) \in Nat
  BY <1>1, BoughtUnits
<1>3. /\ UNCHANGED <<deployed, staking, faucet, batches, relay, now, flows>>
      /\ market' \in [sold : Int, raised : Int, kept : Int]
  <2>1. UNCHANGED <<deployed, staking, faucet, batches, relay, now, flows>>
    BY DEF Buy, Receive, Sell
  <2>2. \/ market' = [market EXCEPT !.sold = market.sold + Bought(v), !.raised = market.raised + v]
        \/ market' = [market EXCEPT !.kept = market.kept + v]
    BY DEF Buy, Receive, Sell
  <2>3. market.sold + Bought(v) \in Int /\ market.raised + v \in Int /\ market.kept + v \in Int
    BY <1>1, <1>2
  <2> QED BY <1>1, <2>1, <2>2, <2>3
<1>4. /\ CoinSums(token') /\ token'.supply = token.supply
      /\ token'.balance["staking"] >= token.balance["staking"]
  <2>1. CASE /\ token.balance["market"] >= Bought(v)
             /\ token' = [token EXCEPT !.balance = Move(token.balance, "market", u, Bought(v))]
    BY <1>2, <2>1, Holders, TransferKeeps
  <2>2. CASE token' = token
    BY <2>2, RightsSet
  <2> QED BY <2>1, <2>2 DEF Buy, Receive, Sell
<1> QED BY <1>1, <1>3, <1>4, TokenMoves

LEMMA RequestsKeep ==
  ASSUME TokenAssumption, TokenIInv,
         \/ \E u \in User, n \in Amount, ahead \in {0, 1} : Sign(u, n, ahead)
         \/ \E a \in relay.signed : RelayCheck(a)
         \/ \E a \in relay.sent : Revert(a)
  PROVE  TokenIInv'
<1>1. /\ market \in [sold : Int, raised : Int, kept : Int] /\ now \in Int
      /\ relay \in [signed : SUBSET Authorization, sent : SUBSET Authorization]
      /\ faucet.nonces \in [User -> Int] /\ Amount \subseteq Nat
  BY DEF TokenIInv, TokenTypes, TokenAssumption, Accrues
<1>2. UNCHANGED <<deployed, token, staking, market, faucet, batches, now, flows>>
  BY DEF Sign, RelayCheck, Revert
<1>3. relay' \in [signed : SUBSET Authorization, sent : SUBSET Authorization]
  <2>1. CASE \E u \in User, n \in Amount, ahead \in {0, 1} : Sign(u, n, ahead)
    <3>1. PICK u \in User, n \in Amount, ahead \in {0, 1} : Sign(u, n, ahead)
      BY <2>1
    <3> DEFINE a == [account |-> u, amount |-> n, nonce |-> faucet.nonces[u] + ahead,
                     deadline |-> now + 1]
    <3>2. a \in Authorization
      BY <1>1 DEF Authorization
    <3>3. relay' = [relay EXCEPT !.signed = @ \cup {a}]
      BY <3>1 DEF Sign
    <3> HIDE DEF a
    <3> QED BY <1>1, <3>2, <3>3
  <2>2. CASE \E a \in relay.signed : RelayCheck(a)
    BY <1>1, <2>2 DEF RelayCheck
  <2>3. CASE \E a \in relay.sent : Revert(a)
    BY <1>1, <2>3 DEF Revert
  <2> QED BY <2>1, <2>2, <2>3
<1>4. /\ CoinSums(token') /\ token'.supply = token.supply
      /\ token'.balance["staking"] >= token.balance["staking"]
  BY <1>2, RightsSet
<1> QED BY <1>1, <1>2, <1>3, <1>4, TokenMoves

LEMMA PaidCoin ==
  ASSUME TokenAssumption, TokenIInv, NEW batch \in Batch,
         token.supply + Total(batch) <= MaxSupply,
         token' = [token EXCEPT !.supply = @ + Total(batch), !.balance = Paid(token.balance, batch)]
  PROVE  /\ Total(batch) \in Nat /\ CoinSums(token') /\ token'.supply = token.supply + Total(batch)
         /\ token'.balance["staking"] >= token.balance["staking"]
<1> DEFINE b == Paid(token.balance, batch)
           s == token.supply + Total(batch)
           r == token'
<1>1. /\ token \in Coin /\ token.balance \in [Holder -> Int] /\ token.supply \in Int
      /\ Sum(token.balance, Holder) = token.supply
      /\ \A h \in Holder : token.balance[h] >= 0
  BY DEF TokenIInv, CoinSums, Coin
<1>2. /\ Total(batch) \in Nat /\ b \in [Holder -> Int]
      /\ Sum(b, Holder) = Sum(token.balance, Holder) + Total(batch)
      /\ \A h \in Holder : b[h] >= token.balance[h]
  BY <1>1, PaidSums
<1>3. r = [token EXCEPT !.supply = s, !.balance = b] /\ s \in Int
  BY <1>1, <1>2
<1> HIDE DEF b, s, r
<1>4. r \in Coin /\ r.supply = s /\ r.balance = b
  <2>1. token \in Coin /\ b \in [Holder -> Int] /\ s \in Int
    BY <1>1, <1>2, <1>3
  <2>2. r = [token EXCEPT !.supply = s, !.balance = b]
    BY <1>3
  <2>3. token = [owner |-> token.owner, supply |-> token.supply, balance |-> token.balance,
                 allowance |-> token.allowance, minters |-> token.minters]
    BY <2>1, CoinIs
  <2>4. r = [owner |-> token.owner, supply |-> s, balance |-> b,
             allowance |-> token.allowance, minters |-> token.minters]
    BY <2>2, <2>3
  <2>5. token.owner \in User /\ token.allowance \in [User -> Int] /\ token.minters \in SUBSET Contract
    BY <2>1, CoinIs
  <2> QED BY <2>1, <2>4, <2>5 DEF Coin
<1>5. \A h \in Holder : r.balance[h] >= 0
  BY <1>1, <1>2, <1>4
<1>6. CoinSums(r)
  BY <1>1, <1>2, <1>4, <1>5 DEF CoinSums, s
<1> QED BY <1>2, <1>4, <1>6, Holders DEF r, s

\* What was issued so far is a sum of integers.
LEMMA Flows ==
  ASSUME TokenAssumption, TokenIInv
  PROVE  /\ flows.direct \in Int /\ flows.burned \in Int /\ flows.rewards \in Int
         /\ token.supply \in Int /\ faucet.minted \in Int /\ InitialMint \in Int
         /\ MaxSupply \in Int
         /\ IsFiniteSet(batches) /\ \A batch \in batches : BatchSums[batch] \in Nat
         /\ Sum(BatchSums, batches) \in Int
<1>1. /\ flows.direct \in Int /\ flows.burned \in Int /\ flows.rewards \in Int
      /\ token.supply \in Int /\ faucet.minted \in Int /\ InitialMint \in Int /\ MaxSupply \in Int
      /\ IsFiniteSet(batches) /\ batches \subseteq Batch
  BY DEF TokenIInv, TokenTypes, CoinSums, Coin, Accrues, TokenAssumption
<1>2. [h \in Holder |-> 0] \in [Holder -> Int]
  OBVIOUS
<1>3. \A batch \in batches : BatchSums[batch] \in Nat
  BY <1>1, <1>2, PaidSums DEF BatchSums
<1>4. Sum(BatchSums, batches) \in Int
  BY <1>1, <1>3, SumType
<1> QED BY <1>1, <1>3, <1>4

LEMMA MintKeeps ==
  ASSUME TokenAssumption, TokenIInv, NEW to \in User, NEW n \in Amount, Mint(to, n)
  PROVE  TokenIInv'
<1>1. /\ token.supply + n <= MaxSupply /\ token' = Minted(token, to, n)
      /\ flows' = [flows EXCEPT !.direct = @ + n]
      /\ UNCHANGED <<deployed, staking, market, faucet, batches, relay, now>>
  BY DEF Mint, MayMint
<1>2. n \in Nat /\ to \in Holder /\ CoinSums(token)
  BY Holders DEF TokenAssumption, TokenIInv
<1>3. /\ CoinSums(token') /\ token'.supply = token.supply + n
      /\ token'.balance["staking"] >= token.balance["staking"]
  BY <1>1, <1>2, Holders, MintedSums
<1>4. /\ flows'.direct = flows.direct + n /\ flows'.burned = flows.burned
      /\ flows'.rewards = flows.rewards
      /\ flows' = [flows EXCEPT !.direct = flows.direct + n, !.burned = flows.burned]
  BY <1>1 DEF TokenIInv, TokenTypes
<1>5. Supplied'
  <2>1. BatchSums' = BatchSums
    BY <1>1 DEF BatchSums
  <2>2. Sum(BatchSums', batches') = Sum(BatchSums, batches)
    BY <1>1, <2>1
  <2>3. Supplied
    BY DEF TokenIInv
  <2> QED BY <1>1, <1>2, <1>3, <1>4, <2>2, <2>3, Flows DEF Supplied
<1>6. flows.direct + n \in Int /\ flows.burned \in Int /\ IsFiniteSet(batches') /\ batches' \subseteq Batch
  BY <1>1, <1>2, Flows DEF TokenIInv, TokenTypes
<1> QED BY <1>1, <1>3, <1>4, <1>5, <1>6, TokenIssues

LEMMA BatchMintKeeps ==
  ASSUME TokenAssumption, TokenIInv, NEW batch \in Batch, BatchMint(batch)
  PROVE  TokenIInv'
<1> DEFINE n == Total(batch)
<1>1. /\ token.supply + n <= MaxSupply
      /\ token' = [token EXCEPT !.supply = @ + n, !.balance = Paid(token.balance, batch)]
      /\ flows' = [flows EXCEPT !.direct = @ + n]
      /\ UNCHANGED <<deployed, staking, market, faucet, batches, relay, now>>
  BY DEF BatchMint, MayMint
<1>2. /\ n \in Nat /\ CoinSums(token') /\ token'.supply = token.supply + n
      /\ token'.balance["staking"] >= token.balance["staking"]
  BY <1>1, PaidCoin
<1> HIDE DEF n
<1>3. /\ flows'.direct = flows.direct + n /\ flows'.burned = flows.burned
      /\ flows'.rewards = flows.rewards
      /\ flows' = [flows EXCEPT !.direct = flows.direct + n, !.burned = flows.burned]
  BY <1>1 DEF TokenIInv, TokenTypes
<1>4. Supplied'
  <2>1. BatchSums' = BatchSums
    BY <1>1 DEF BatchSums
  <2>2. Sum(BatchSums', batches') = Sum(BatchSums, batches)
    BY <1>1, <2>1
  <2>3. Supplied
    BY DEF TokenIInv
  <2> QED BY <1>1, <1>2, <1>3, <2>2, <2>3, Flows DEF Supplied
<1>5. flows.direct + n \in Int /\ flows.burned \in Int /\ IsFiniteSet(batches') /\ batches' \subseteq Batch
  BY <1>1, <1>2, Flows DEF TokenIInv, TokenTypes
<1> QED BY <1>1, <1>2, <1>3, <1>4, <1>5, TokenIssues

LEMMA ProcessBatchKeeps ==
  ASSUME TokenAssumption, TokenIInv, NEW batch \in Batch, ProcessBatch(batch)
  PROVE  TokenIInv'
<1> DEFINE n == Total(batch)
<1>1. /\ token.supply + n <= MaxSupply
      /\ token' = [token EXCEPT !.supply = @ + n, !.balance = Paid(token.balance, batch)]
      /\ batch \notin batches /\ batches' = batches \cup {batch}
      /\ UNCHANGED <<deployed, staking, market, faucet, relay, now, flows>>
  BY DEF ProcessBatch, MayMint, Fresh
<1>2. /\ n \in Nat /\ CoinSums(token') /\ token'.supply = token.supply + n
      /\ token'.balance["staking"] >= token.balance["staking"]
  BY <1>1, PaidCoin
<1>3. Sum(BatchSums', batches') = Sum(BatchSums, batches) + n
  <2> DEFINE f == BatchSums
             g == BatchSums'
  <2>1. /\ g[batch] = n /\ \A x \in batches : g[x] = f[x]
    BY <1>1 DEF BatchSums
  <2>2. IsFiniteSet(batches) /\ \A x \in batches : f[x] \in Int
    BY Flows
  <2> HIDE DEF f, g, n
  <2>3. \A x \in batches : g[x] \in Int
    BY <2>1, <2>2
  <2>4. Sum(g, batches \cup {batch}) = g[batch] + Sum(g, batches)
    BY <1>1, <1>2, <2>1, <2>2, <2>3, SumAdd
  <2>5. Sum(g, batches) = Sum(f, batches) /\ Sum(f, batches) \in Int
    BY <2>1, <2>2, SumSame, SumType
  <2>6. Sum(g, batches \cup {batch}) = Sum(f, batches) + n
    BY <1>2, <2>1, <2>4, <2>5
  <2> QED BY <1>1, <2>6 DEF f, g
<1> HIDE DEF n
<1>4. Supplied'
  <2>1. Supplied
    BY DEF TokenIInv
  <2> QED BY <1>1, <1>2, <1>3, <2>1, Flows DEF Supplied
<1>5. /\ flows.direct \in Int /\ flows.burned \in Int
      /\ IsFiniteSet(batches') /\ batches' \subseteq Batch
  BY <1>1, Flows, FS_AddElement DEF TokenIInv, TokenTypes
<1>6. flows' = [flows EXCEPT !.direct = flows.direct, !.burned = flows.burned]
  BY <1>1 DEF TokenIInv, TokenTypes
<1> QED BY <1>1, <1>2, <1>4, <1>5, <1>6, TokenIssues

LEMMA BurnKeeps ==
  ASSUME TokenAssumption, TokenIInv, NEW u \in User, NEW n \in Amount, Burn(u, n)
  PROVE  TokenIInv'
<1> DEFINE f == token.balance
           g == [f EXCEPT ![u] = @ - n]
           s == token.supply - n
           r == token'
<1>1. /\ f[u] >= n /\ r = [token EXCEPT !.supply = s, !.balance = g]
      /\ flows' = [flows EXCEPT !.burned = @ + n]
      /\ UNCHANGED <<deployed, staking, market, faucet, batches, relay, now>>
  <2>1. token' = [token EXCEPT !.balance[u] = @ - n, !.supply = @ - n]
    BY DEF Burn
  <2>2. token' = [token EXCEPT !.supply = s, !.balance = g]
    BY <2>1 DEF TokenIInv, CoinSums, Coin
  <2> QED BY <2>2 DEF Burn
<1>2. /\ n \in Nat /\ u \in Holder /\ u # "staking" /\ token \in Coin
      /\ f \in [Holder -> Int] /\ token.supply \in Int /\ Sum(f, Holder) = token.supply
      /\ \A h \in Holder : f[h] >= 0
      /\ token.supply <= MaxSupply
  BY Holders DEF TokenAssumption, TokenIInv, CoinSums, Coin
<1>3. /\ g \in [Holder -> Int] /\ g[u] = f[u] - n /\ Differs(f, g, u)
      /\ s \in Int
  BY <1>2 DEF Differs
<1> HIDE DEF f, g, r
<1>4. r \in Coin /\ r.supply = s /\ r.balance = g
  <2> HIDE DEF s
  <2>1. token \in Coin /\ g \in [Holder -> Int] /\ s \in Int
    BY <1>2, <1>3
  <2>2. r = [token EXCEPT !.supply = s, !.balance = g]
    BY <1>1
  <2>3. token = [owner |-> token.owner, supply |-> token.supply, balance |-> token.balance,
                 allowance |-> token.allowance, minters |-> token.minters]
    BY <2>1, CoinIs
  <2>4. r = [owner |-> token.owner, supply |-> s, balance |-> g,
             allowance |-> token.allowance, minters |-> token.minters]
    BY <2>2, <2>3
  <2>5. token.owner \in User /\ token.allowance \in [User -> Int] /\ token.minters \in SUBSET Contract
    BY <2>1, CoinIs
  <2> QED BY <2>1, <2>4, <2>5 DEF Coin
<1>5. Sum(g, Holder) = Sum(f, Holder) + g[u] - f[u] /\ f[u] \in Int
  BY <1>2, <1>3, BalanceChanges
<1>6. Sum(g, Holder) = s
  BY <1>2, <1>3, <1>5
<1>7. \A h \in Holder : g[h] >= 0
  BY <1>1, <1>2, <1>3, <1>5 DEF Differs
<1>8. CoinSums(r)
  <2>1. s <= MaxSupply
    BY <1>2 DEF TokenAssumption
  <2> QED BY <1>4, <1>6, <1>7, <2>1 DEF CoinSums
<1>9. r.balance["staking"] >= f["staking"]
  BY <1>2, <1>3, <1>4, Holders DEF Differs
<1>10. /\ flows'.direct = flows.direct /\ flows'.burned = flows.burned + n
       /\ flows'.rewards = flows.rewards
       /\ flows' = [flows EXCEPT !.direct = flows.direct, !.burned = flows.burned + n]
  BY <1>1 DEF TokenIInv, TokenTypes
<1>11. Supplied'
  <2>1. BatchSums' = BatchSums
    BY <1>1 DEF BatchSums
  <2>2. Sum(BatchSums', batches') = Sum(BatchSums, batches)
    BY <1>1, <2>1
  <2>3. Supplied
    BY DEF TokenIInv
  <2> QED BY <1>1, <1>2, <1>4, <1>10, <2>2, <2>3, Flows DEF Supplied, r
<1>12. /\ flows.direct \in Int /\ flows.burned + n \in Int
       /\ IsFiniteSet(batches') /\ batches' \subseteq Batch
  BY <1>1, <1>2, Flows DEF TokenIInv, TokenTypes
<1>13. CoinSums(token') /\ token'.balance["staking"] >= token.balance["staking"]
  BY <1>8, <1>9 DEF r, f
<1> QED BY <1>1, <1>10, <1>11, <1>12, <1>13, TokenIssues
------------------------------------------------------------------------------

LEMMA PulledKeeps ==
  ASSUME TokenAssumption, TokenIInv, NEW u \in User, NEW n \in Nat,
         PullAllowed(u, n), token' = Pulled(token, u, n)
  PROVE  /\ CoinSums(token') /\ token'.supply = token.supply
         /\ token'.balance["staking"] = token.balance["staking"] + n
         /\ token.balance["staking"] \in Int
<1> DEFINE b == Move(token.balance, u, "staking", n)
           a == [token.allowance EXCEPT ![u] = @ - n]
           r == token'
<1>1. token \in Coin /\ CoinSums(token)
  BY DEF TokenIInv, CoinSums
<1>2. /\ token = [owner |-> token.owner, supply |-> token.supply, balance |-> token.balance,
                  allowance |-> token.allowance, minters |-> token.minters]
      /\ token.owner \in User /\ token.supply \in Int /\ token.balance \in [Holder -> Int]
      /\ token.allowance \in [User -> Int] /\ token.minters \in SUBSET Contract
  BY <1>1, CoinIs
<1>3. b \in [Holder -> Int] /\ a \in [User -> Int]
  BY <1>2 DEF Move
<1>4. r = [token EXCEPT !.balance = b, !.allowance = a]
  BY <1>2 DEF Pulled
<1>5. /\ u \in Holder /\ "staking" \in Holder /\ u # "staking"
      /\ token.balance[u] >= n
  BY Holders DEF PullAllowed
<1> HIDE DEF a, b, r
<1>6. r = [owner |-> token.owner, supply |-> token.supply, balance |-> b,
           allowance |-> a, minters |-> token.minters]
  BY <1>2, <1>4
<1>7. r \in Coin /\ r.supply = token.supply /\ r.balance = b
  BY <1>2, <1>3, <1>6 DEF Coin
<1>8. r.balance = Move(token.balance, u, "staking", n)
  BY <1>7 DEF b
<1>9. CoinSums(r) /\ r.balance["staking"] = token.balance["staking"] + n
  BY <1>1, <1>5, <1>7, <1>8, MovedSums
<1> QED BY <1>2, <1>5, <1>7, <1>9 DEF r

LEMMA RewardedSums ==
  ASSUME TokenAssumption, NEW t, CoinSums(t), NEW u \in User, NEW n \in Nat,
         n > 0 => t.supply + n <= MaxSupply
  PROVE  LET r == Rewarded(t, u, n) IN
         /\ CoinSums(r) /\ r.supply = t.supply + n
         /\ r.balance["staking"] >= t.balance["staking"]
<1>1. u \in Holder /\ "staking" \in Holder /\ t.supply \in Int /\ t.balance["staking"] \in Int
  BY Holders DEF CoinSums, Coin
<1> DEFINE r == Rewarded(t, u, n)
<1>2. CASE n > 0
  <2>1. r = Minted(t, u, n)
    BY <1>2 DEF Rewarded
  <2> HIDE DEF r
  <2>2. CoinSums(r) /\ r.supply = t.supply + n /\ \A h \in Holder : r.balance[h] >= t.balance[h]
    BY <1>1, <1>2, <2>1, MintedSums
  <2>3. CoinSums(r) /\ r.supply = t.supply + n /\ r.balance["staking"] >= t.balance["staking"]
    BY <1>1, <2>2
  <2> QED BY <2>3 DEF r
<1>3. CASE ~ n > 0
  <2>1. r = t /\ n = 0
    BY <1>3 DEF Rewarded
  <2> HIDE DEF r
  <2>2. CoinSums(r) /\ r.supply = t.supply + n /\ r.balance["staking"] >= t.balance["staking"]
    BY <1>1, <2>1
  <2> QED BY <2>2 DEF r
<1> QED BY <1>2, <1>3

LEMMA RewardUnits ==
  ASSUME TokenAssumption, TokenIInv, NEW u \in User
  PROVE  LET s == staking.stakes[u] IN
         /\ s \in StakeOf /\ s.at <= now /\ CalculateReward(s) \in Nat
         /\ CalculateReward(s) + s.debt \in Nat
<1> DEFINE s == staking.stakes[u]
<1>1. s \in StakeOf /\ s.at <= now /\ now \in Nat
  BY DEF TokenIInv, Staked, TokenTypes
<1>2. RewardPerYear[1] \in Nat /\ RewardPerYear[2] \in Nat \ {0}
  <2>1. RewardPerYear \in Nat \X (Nat \ {0})
    BY DEF TokenAssumption
  <2> QED BY <2>1
<1> HIDE DEF s
<1>3. s.amount \in Nat /\ s.at \in Nat /\ s.debt \in Nat /\ now - s.at \in Nat
  BY <1>1 DEF StakeOf
<1>4. s.amount * RewardPerYear[1] \in Nat
  BY <1>2, <1>3
<1>5. (s.amount * RewardPerYear[1]) * (now - s.at) \in Nat
  BY <1>3, <1>4
<1>6. CalculateReward(s) \in Nat
  BY <1>2, <1>5 DEF CalculateReward
<1>7. CalculateReward(s) + s.debt \in Nat
  BY <1>3, <1>6
<1> QED BY <1>1, <1>6, <1>7 DEF s

\* One stake changes, and the total by as much.
LEMMA StakesKeep ==
  ASSUME TokenAssumption, TokenIInv, NEW u \in User, NEW s \in StakeOf, s.at <= now,
         staking' = [stakes |-> [staking.stakes EXCEPT ![u] = s],
                     totalStaked |-> staking.totalStaked + s.amount - staking.stakes[u].amount,
                     rewardPool |-> staking.rewardPool],
         now' = now
  PROVE  /\ Staked' /\ staking'.rewardPool = staking.rewardPool
         /\ staking'.totalStaked = staking.totalStaked + s.amount - staking.stakes[u].amount
         /\ staking.totalStaked \in Int /\ staking.rewardPool \in Int
         /\ staking.stakes[u].amount \in Nat /\ s.amount \in Nat
<1> DEFINE f == StakeSums
           g == StakeSums'
<1>1. /\ staking.stakes \in [User -> StakeOf] /\ staking.totalStaked \in Int
      /\ staking.rewardPool \in Int /\ staking.totalStaked = Sum(f, User)
      /\ \A v \in User : staking.stakes[v].at <= now
  BY DEF TokenIInv, Staked
<1>2. /\ staking'.stakes \in [User -> StakeOf]
      /\ staking'.stakes[u] = s /\ \A v \in User \ {u} : staking'.stakes[v] = staking.stakes[v]
  BY <1>1
<1>3. /\ g[u] = s.amount /\ f[u] = staking.stakes[u].amount
      /\ \A v \in User : f[v] \in Nat /\ g[v] \in Nat /\ (v # u => g[v] = f[v])
  BY <1>1, <1>2 DEF StakeSums, StakeOf
<1> HIDE DEF f, g
<1>4. Sum(g, User) = Sum(f, User) + g[u] - f[u]
  BY <1>3, Holders, SumChange
<1>5. staking'.totalStaked = Sum(g, User)
  BY <1>1, <1>3, <1>4
<1>6. \A v \in User : staking'.stakes[v].at <= now'
  BY <1>1, <1>2
<1>7. staking' \in [stakes : [User -> StakeOf], totalStaked : Int, rewardPool : Int]
  BY <1>1, <1>2, <1>3
<1> QED BY <1>1, <1>3, <1>5, <1>6, <1>7 DEF Staked, g

\* Stakes, the pool and what was paid in rewards change; nothing else does.
LEMMA StakingKeeps ==
  ASSUME TokenAssumption, TokenIInv, CoinSums(token'), Staked',
         token'.balance["staking"] >= staking'.totalStaked + staking'.rewardPool,
         NEW n \in Int, token'.supply = token.supply + n,
         flows' = [flows EXCEPT !.rewards = @ + n],
         UNCHANGED <<deployed, market, faucet, batches, relay, now>>
  PROVE  TokenIInv'
<1>1. /\ flows' \in [direct : Int, burned : Int, rewards : Int, first : [User -> Nat],
                     claimed : [User -> Nat], settled : SUBSET Settlement]
      /\ flows'.first = flows.first /\ flows'.claimed = flows.claimed
      /\ flows'.settled = flows.settled /\ flows'.rewards = flows.rewards + n
      /\ flows'.direct = flows.direct /\ flows'.burned = flows.burned
  BY DEF TokenIInv, TokenTypes
<1>2. TokenTypes'
  BY <1>1 DEF TokenIInv, TokenTypes
<1>3. Accrues'
  BY <1>1 DEF TokenIInv, Accrues
<1>4. Supplied'
  <2>1. BatchSums' = BatchSums
    BY DEF BatchSums
  <2>2. Sum(BatchSums', batches') = Sum(BatchSums, batches)
    BY <2>1
  <2>3. Supplied
    BY DEF TokenIInv
  <2> QED BY <1>1, <2>2, <2>3, Flows DEF Supplied
<1> QED BY <1>2, <1>3, <1>4 DEF TokenIInv

LEMMA StakingIs ==
  ASSUME TokenIInv
  PROVE  /\ staking = [stakes |-> staking.stakes, totalStaked |-> staking.totalStaked,
                       rewardPool |-> staking.rewardPool]
         /\ staking.stakes \in [User -> StakeOf]
         /\ staking.totalStaked \in Int /\ staking.rewardPool \in Int
         /\ flows.rewards \in Int /\ now \in Nat
         /\ flows = [flows EXCEPT !.rewards = @ + 0]
         /\ token.supply \in Int /\ token.supply = token.supply + 0
<1>1. staking \in [stakes : [User -> StakeOf], totalStaked : Int, rewardPool : Int]
  BY DEF TokenIInv, Staked
<1>2. flows.rewards \in Int /\ now \in Nat /\ token.supply \in Int
  BY DEF TokenIInv, TokenTypes, CoinSums, Coin
<1>3. flows = [flows EXCEPT !.rewards = @ + 0]
  BY DEF TokenIInv, TokenTypes
<1> QED BY <1>1, <1>2, <1>3

LEMMA StakeKeeps ==
  ASSUME TokenAssumption, TokenIInv, NEW u \in User, NEW n \in Amount, StakeTokens(u, n)
  PROVE  TokenIInv'
<1> DEFINE old == staking.stakes[u]
           s == [amount |-> old.amount + n, at |-> now, active |-> TRUE,
                 debt |-> old.debt + CalculateReward(old)]
<1>1. /\ PullAllowed(u, n) /\ token' = Pulled(token, u, n)
      /\ UNCHANGED <<deployed, market, faucet, batches, relay, now, flows>>
  BY DEF StakeTokens
<1>2. n \in Nat /\ old \in StakeOf /\ CalculateReward(old) \in Nat
  BY RewardUnits DEF TokenAssumption
<1>3. old.amount \in Nat /\ old.debt \in Nat
  BY <1>2 DEF StakeOf
<1>4. s \in StakeOf /\ s.at <= now /\ s.amount = old.amount + n
  BY <1>2, <1>3, StakingIs DEF StakeOf
<1>5. staking' = [stakes |-> [staking.stakes EXCEPT ![u] = s],
                  totalStaked |-> staking.totalStaked + n, rewardPool |-> staking.rewardPool]
  <2>1. staking' = [staking EXCEPT !.stakes = [staking.stakes EXCEPT ![u] = s],
                                   !.totalStaked = staking.totalStaked + n]
    BY StakingIs DEF StakeTokens
  <2> HIDE DEF s
  <2> QED BY <2>1, StakingIs
<1>6. staking.totalStaked + n = staking.totalStaked + s.amount - old.amount
  BY <1>2, <1>3, <1>4, StakingIs
<1> HIDE DEF s
<1>7. /\ Staked' /\ staking'.rewardPool = staking.rewardPool
      /\ staking'.totalStaked = staking.totalStaked + n
  BY <1>1, <1>4, <1>5, <1>6, StakesKeep
<1>8. /\ CoinSums(token') /\ token'.supply = token.supply
      /\ token'.balance["staking"] = token.balance["staking"] + n
      /\ token.balance["staking"] \in Int
  BY <1>1, <1>2, PulledKeeps
<1>9. token'.balance["staking"] >= staking'.totalStaked + staking'.rewardPool
  BY <1>2, <1>7, <1>8, StakingIs DEF TokenIInv
<1> DEFINE z == 0
<1>10. z \in Int /\ flows' = [flows EXCEPT !.rewards = @ + z] /\ token'.supply = token.supply + z
  BY <1>1, <1>8, StakingIs
<1> HIDE DEF z
<1> QED BY <1>1, <1>7, <1>8, <1>9, <1>10, StakingKeeps

LEMMA UnstakeKeeps ==
  ASSUME TokenAssumption, TokenIInv, NEW u \in User, Unstake(u)
  PROVE  TokenIInv'
<1> DEFINE old == staking.stakes[u]
           n == CalculateReward(old) + old.debt
           s == Ended(old)
           b == Move(token.balance, "staking", u, old.amount)
           mid == [token EXCEPT !.balance = b]
           r == token'
<1>1. /\ token.balance["staking"] >= old.amount /\ Payable(n)
      /\ r = Rewarded(mid, u, n)
      /\ staking' = [staking EXCEPT !.stakes[u] = s, !.totalStaked = @ - old.amount]
      /\ flows' = [flows EXCEPT !.rewards = @ + n]
      /\ UNCHANGED <<deployed, market, faucet, batches, relay, now>>
  BY DEF Unstake
<1>2. old \in StakeOf /\ old.at <= now /\ n \in Nat
  BY RewardUnits
<1>3. old.amount \in Nat /\ old.at \in Nat
  BY <1>2 DEF StakeOf
<1>4. s \in StakeOf /\ s.at <= now /\ s.amount = 0
  BY <1>2, <1>3 DEF StakeOf, Ended
<1>5. staking' = [stakes |-> [staking.stakes EXCEPT ![u] = s],
                  totalStaked |-> staking.totalStaked + s.amount - old.amount,
                  rewardPool |-> staking.rewardPool]
  <2>1. staking.totalStaked - old.amount = staking.totalStaked + s.amount - old.amount
    BY <1>3, <1>4, StakingIs
  <2>2. staking' = [staking EXCEPT !.stakes = [staking.stakes EXCEPT ![u] = s],
                                   !.totalStaked = staking.totalStaked + s.amount - old.amount]
    <3> HIDE DEF s, old
    <3> QED BY <1>1, <2>1, StakingIs
  <2> HIDE DEF s
  <2> QED BY <2>2, StakingIs
<1> HIDE DEF s
<1>6. /\ Staked' /\ staking'.rewardPool = staking.rewardPool
      /\ staking'.totalStaked = staking.totalStaked - old.amount
  <2>1. /\ Staked' /\ staking'.rewardPool = staking.rewardPool
        /\ staking'.totalStaked = staking.totalStaked + s.amount - old.amount
    BY <1>1, <1>4, <1>5, StakesKeep
  <2> QED BY <1>3, <1>4, <2>1, StakingIs
<1>7. /\ token \in Coin /\ CoinSums(token) /\ token.balance \in [Holder -> Int]
      /\ token.supply \in Int /\ token.balance["staking"] \in Int
      /\ "staking" \in Holder /\ u \in Holder /\ u # "staking"
  BY Holders DEF TokenIInv, CoinSums, Coin
<1>8. b \in [Holder -> Int]
  <2> HIDE DEF old
  <2> QED BY <1>3, <1>7 DEF Move
<1>9. /\ CoinSums(mid) /\ mid.supply = token.supply
      /\ mid.balance["staking"] = token.balance["staking"] - old.amount
  <2> DEFINE m == mid
  <2>1. m = [token EXCEPT !.balance = b]
    OBVIOUS
  <2> HIDE DEF b, mid, m
  <2>2. m \in Coin /\ m.supply = token.supply /\ m.balance = b
    BY <1>7, <1>8, <2>1, BalanceSet
  <2>3. m.balance = Move(token.balance, "staking", u, old.amount)
    BY <2>2 DEF b
  <2> HIDE DEF old
  <2>4. CoinSums(m) /\ m.balance["staking"] = token.balance["staking"] - old.amount
    BY <1>1, <1>3, <1>7, <2>2, <2>3, MovedSums
  <2> QED BY <2>2, <2>4 DEF m
<1> HIDE DEF b, mid, r, old, n
<1>10. n > 0 => mid.supply + n <= MaxSupply
  BY <1>1, <1>9 DEF Payable, MayMint
<1>11. /\ CoinSums(r) /\ r.supply = mid.supply + n
       /\ r.balance["staking"] >= mid.balance["staking"] /\ r.balance["staking"] \in Int
  <2>1. /\ CoinSums(r) /\ r.supply = mid.supply + n
        /\ r.balance["staking"] >= mid.balance["staking"]
    BY <1>1, <1>2, <1>9, <1>10, RewardedSums
  <2> QED BY <1>7, <2>1 DEF CoinSums, Coin
<1>12. r.balance["staking"] >= staking'.totalStaked + staking'.rewardPool
  BY <1>3, <1>6, <1>7, <1>9, <1>11, StakingIs DEF TokenIInv
<1>13. r.supply = token.supply + n
  BY <1>9, <1>11
<1> QED BY <1>1, <1>2, <1>6, <1>11, <1>12, <1>13, StakingKeeps DEF r

LEMMA ClaimRewardKeeps ==
  ASSUME TokenAssumption, TokenIInv, NEW u \in User, ClaimReward(u)
  PROVE  TokenIInv'
<1> DEFINE old == staking.stakes[u]
           n == CalculateReward(old) + old.debt
           s == [old EXCEPT !.debt = 0, !.at = now]
           r == token'
<1>1. /\ token.supply + n <= MaxSupply /\ r = Minted(token, u, n)
      /\ staking' = [staking EXCEPT !.stakes[u] = s]
      /\ flows' = [flows EXCEPT !.rewards = @ + n]
      /\ UNCHANGED <<deployed, market, faucet, batches, relay, now>>
  BY DEF ClaimReward, MayMint
<1>2. old \in StakeOf /\ n \in Nat
  BY RewardUnits
<1>3. old.amount \in Nat
  BY <1>2 DEF StakeOf
<1>4. s \in StakeOf /\ s.at <= now /\ s.amount = old.amount
  <2> HIDE DEF old
  <2>1. old = [amount |-> old.amount, at |-> old.at, debt |-> old.debt, active |-> old.active]
        /\ old.active \in BOOLEAN
    BY <1>2 DEF StakeOf
  <2>2. s = [old EXCEPT !.debt = 0, !.at = now]
    OBVIOUS
  <2> HIDE DEF s
  <2>3. s = [amount |-> old.amount, at |-> now, debt |-> 0, active |-> old.active]
    BY <2>1, <2>2
  <2> QED BY <1>3, <2>1, <2>3, StakingIs DEF StakeOf
<1>5. staking' = [stakes |-> [staking.stakes EXCEPT ![u] = s],
                  totalStaked |-> staking.totalStaked + s.amount - old.amount,
                  rewardPool |-> staking.rewardPool]
  <2>1. staking.totalStaked = staking.totalStaked + s.amount - old.amount
    BY <1>3, <1>4, StakingIs
  <2>2. staking' = [staking EXCEPT !.stakes = [staking.stakes EXCEPT ![u] = s]]
    <3> HIDE DEF s, old
    <3> QED BY <1>1, StakingIs
  <2> HIDE DEF s, old
  <2> QED BY <2>1, <2>2, StakingIs
<1> HIDE DEF s
<1>6. /\ Staked' /\ staking'.rewardPool = staking.rewardPool
      /\ staking'.totalStaked = staking.totalStaked
  <2>1. /\ Staked' /\ staking'.rewardPool = staking.rewardPool
        /\ staking'.totalStaked = staking.totalStaked + s.amount - old.amount
    BY <1>1, <1>4, <1>5, StakesKeep
  <2> QED BY <1>3, <1>4, <2>1, StakingIs
<1>7. /\ CoinSums(token) /\ token.supply \in Int /\ token.balance["staking"] \in Int
      /\ "staking" \in Holder /\ u \in Holder
  BY Holders DEF TokenIInv, CoinSums, Coin
<1> HIDE DEF r, old, n
<1>8. /\ CoinSums(r) /\ r.supply = token.supply + n
      /\ r.balance["staking"] >= token.balance["staking"] /\ r.balance["staking"] \in Int
  <2>1. /\ CoinSums(r) /\ r.supply = token.supply + n
        /\ \A h \in Holder : r.balance[h] >= token.balance[h]
    BY <1>1, <1>2, <1>7, MintedSums
  <2> QED BY <1>7, <2>1 DEF CoinSums, Coin
<1>9. r.balance["staking"] >= staking'.totalStaked + staking'.rewardPool
  BY <1>6, <1>7, <1>8, StakingIs DEF TokenIInv
<1> QED BY <1>1, <1>2, <1>6, <1>8, <1>9, StakingKeeps DEF r

LEMMA FundKeeps ==
  ASSUME TokenAssumption, TokenIInv, NEW n \in Amount, FundRewardPool(n)
  PROVE  TokenIInv'
<1>1. /\ PullAllowed(Deployer, n) /\ token' = Pulled(token, Deployer, n)
      /\ staking' = [staking EXCEPT !.rewardPool = @ + n]
      /\ UNCHANGED <<deployed, market, faucet, batches, relay, now, flows>>
  BY DEF FundRewardPool
<1>2. n \in Nat /\ Deployer \in User
  BY DEF TokenAssumption
<1>3. /\ CoinSums(token') /\ token'.supply = token.supply
      /\ token'.balance["staking"] = token.balance["staking"] + n
      /\ token.balance["staking"] \in Int
  BY <1>1, <1>2, PulledKeeps
<1>4. /\ staking' = [stakes |-> staking.stakes, totalStaked |-> staking.totalStaked,
                     rewardPool |-> staking.rewardPool + n]
      /\ staking'.stakes = staking.stakes /\ staking'.totalStaked = staking.totalStaked
      /\ staking'.rewardPool = staking.rewardPool + n
  BY <1>1, StakingIs
<1>5. Staked'
  <2>1. StakeSums' = StakeSums
    BY <1>4 DEF StakeSums
  <2>2. /\ Staked /\ staking.rewardPool + n \in Int
    BY <1>2, StakingIs DEF TokenIInv
  <2> QED BY <1>1, <1>4, <2>1, <2>2 DEF Staked
<1>6. token'.balance["staking"] >= staking'.totalStaked + staking'.rewardPool
  BY <1>2, <1>3, <1>4, StakingIs DEF TokenIInv
<1> DEFINE z == 0
<1>7. z \in Int /\ flows' = [flows EXCEPT !.rewards = @ + z] /\ token'.supply = token.supply + z
  BY <1>1, <1>3, StakingIs
<1> HIDE DEF z
<1> QED BY <1>1, <1>3, <1>5, <1>6, <1>7, StakingKeeps
------------------------------------------------------------------------------

LEMMA LeastOfTwo ==
  ASSUME NEW a \in Int, NEW b \in Int
  PROVE  Min({a, b}) \in Int /\ Min({a, b}) <= a /\ Min({a, b}) <= b
<1>1. \E x \in {a, b} : \A y \in {a, b} : x <= y
  <2>1. CASE a <= b
    BY <2>1
  <2>2. CASE b <= a
    BY <2>2
  <2> QED BY <2>1, <2>2
<1>2. Min({a, b}) \in {a, b} /\ \A y \in {a, b} : Min({a, b}) <= y
  BY <1>1 DEF Min
<1> QED BY <1>2

\* What the dispenser can still pay is within its allotment and the cap.
LEMMA FaucetUnits ==
  ASSUME TokenAssumption, TokenIInv, NEW u \in User
  PROVE  /\ RemainingFaucetSupply \in Int /\ RemainingFaucetSupply <= Cap - faucet.minted
         /\ Accrued(u) \in Int /\ Claimable(u) \in Int
         /\ Periods(u) \in Int /\ Cap \in Int /\ faucet.minted \in Int
<1>1. /\ Cap \in Int /\ faucet.minted \in Int /\ token.supply \in Int /\ MaxSupply \in Int
      /\ ClaimAmount \in Nat \ {0} /\ now \in Nat /\ faucet.lastClaimAt[u] \in Nat
  BY DEF Cap, TokenAssumption, TokenIInv, TokenTypes, CoinSums, Coin, Accrues
<1>2. RemainingFaucetSupply \in Int /\ RemainingFaucetSupply <= Cap - faucet.minted
  <2> DEFINE a == Cap - faucet.minted
             b == MaxSupply - token.supply
  <2>1. a \in Int /\ b \in Int
    BY <1>1
  <2>2. RemainingFaucetSupply = Min({a, b})
    BY DEF RemainingFaucetSupply
  <2> HIDE DEF a, b
  <2>3. RemainingFaucetSupply \in Int /\ RemainingFaucetSupply <= a
    BY <2>1, <2>2, LeastOfTwo
  <2> QED BY <2>3 DEF a
<1>3. Periods(u) \in Int /\ Accrued(u) \in Int
  BY <1>1 DEF Periods, Accrued
<1>4. Available \in Int
  <2> DEFINE k == RemainingFaucetSupply \div ClaimAmount
  <2>1. k \in Int
    BY <1>1, <1>2
  <2>2. k * ClaimAmount \in Int
    <3> HIDE DEF k
    <3> QED BY <1>1, <2>1
  <2> QED BY <2>2 DEF Available
<1>5. Claimable(u) \in Int
  BY <1>3, <1>4, LeastOfTwo DEF Claimable
<1> QED BY <1>1, <1>2, <1>3, <1>5

\* An amount paid is a number of periods, no more than have passed.
LEMMA PeriodsPaid ==
  ASSUME NEW c \in Nat \ {0}, NEW p \in Int, NEW n \in Nat, n > 0, n % c = 0, n <= p * c
  PROVE  n \div c \in Nat /\ n \div c >= 1 /\ n \div c <= p /\ n = c * (n \div c)
<1> DEFINE k == n \div c
<1>1. k \in Nat /\ n = c * k + (n % c)
  OBVIOUS
<1>2. n = c * k /\ k \in Nat
  BY <1>1
<1> HIDE DEF k
<1>3. k >= 1
  <2>1. k = 0 => c * k = 0
    OBVIOUS
  <2> QED BY <1>2, <2>1
<1>4. k <= p
  <2> SUFFICES ASSUME k > p PROVE FALSE
    BY <1>2
  <2>1. k >= p + 1
    BY <1>2
  <2>2. c * k >= c * (p + 1)
    <3>1. k - (p + 1) \in Nat
      BY <1>2, <2>1
    <3>2. c * (k - (p + 1)) >= 0
      BY <3>1
    <3>3. c * (k - (p + 1)) = c * k - c * (p + 1)
      BY <1>2
    <3> QED BY <1>2, <3>2, <3>3
  <2>3. c * (p + 1) = p * c + c
    OBVIOUS
  <2> QED BY <1>2, <2>2, <2>3
<1> QED BY <1>2, <1>3, <1>4 DEF k

LEMMA Distributes ==
  ASSUME NEW a \in Int, NEW b \in Int, NEW c \in Int PROVE a * (b + c) = a * b + a * c
OBVIOUS

\* The account's clock after a settlement, and what it has drawn by then.
LEMMA ClockMoves ==
  ASSUME TokenAssumption, TokenIInv, NEW u \in User, NEW n \in Nat, n > 0, n % ClaimAmount = 0,
         n <= Accrued(u)
  PROVE  LET at == SettledAt(u, n)
             first == IF flows.first[u] = 0 THEN now ELSE flows.first[u] IN
         /\ at \in Nat /\ at <= now /\ first \in Nat /\ first > 0 /\ first <= at
         /\ flows.claimed[u] + n = ClaimAmount * (1 + at - first)
<1> DEFINE last == faucet.lastClaimAt[u]
           f == flows.first[u]
           k == n \div ClaimAmount
           p == Periods(u)
<1>1. /\ ClaimAmount \in Nat \ {0} /\ now \in Nat \ {0} /\ last \in Nat /\ f \in Nat
      /\ flows.claimed[u] \in Nat /\ last <= now
      /\ f = 0 => last = 0 /\ flows.claimed[u] = 0
      /\ f > 0 => f <= last /\ flows.claimed[u] = ClaimAmount * (1 + last - f)
  BY DEF TokenAssumption, TokenIInv, TokenTypes, Accrues
<1>2. p \in Int /\ n <= p * ClaimAmount
  BY FaucetUnits DEF Accrued
<1>3. p = IF last = 0 THEN 1 ELSE now - last
  BY DEF Periods
<1>4. SettledAt(u, n) = IF last = 0 THEN now ELSE last + k
  BY DEF SettledAt
<1> DEFINE at == SettledAt(u, n)
           first == IF f = 0 THEN now ELSE f
           c == flows.claimed[u]
<1> HIDE DEF last, p, at
<1>5. k \in Nat /\ k >= 1 /\ k <= p /\ n = ClaimAmount * k
  BY <1>1, <1>2, PeriodsPaid
<1> HIDE DEF k, f, c
<1>6. CASE f = 0
  <2>1. at = now /\ first = now /\ p = 1 /\ k = 1 /\ n = ClaimAmount /\ c = 0
    BY <1>1, <1>3, <1>4, <1>5, <1>6 DEF at, c
  <2>2. at \in Nat /\ at <= now /\ first \in Nat /\ first > 0 /\ first <= at /\ 1 + at - first = 1
    BY <1>1, <2>1
  <2>3. c + n = ClaimAmount * (1 + at - first)
    BY <1>1, <2>1, <2>2
  <2> QED BY <2>2, <2>3 DEF at, c, f
<1>7. CASE f # 0
  <2>1. first = f /\ f > 0 /\ last # 0 /\ p = now - last /\ at = last + k
    BY <1>1, <1>3, <1>4, <1>7 DEF at
  <2>2. at \in Nat /\ at <= now /\ first \in Nat /\ first > 0 /\ first <= at
    BY <1>1, <1>5, <2>1
  <2>3. c = ClaimAmount * (1 + last - f)
    BY <1>1, <2>1 DEF c
  <2>4. 1 + at - first = (1 + last - f) + k /\ 1 + last - f \in Int
    BY <1>1, <1>5, <2>1
  <2>5. ClaimAmount * ((1 + last - f) + k) = ClaimAmount * (1 + last - f) + ClaimAmount * k
    BY <1>1, <1>5, <2>4, Distributes
  <2>6. c + n = ClaimAmount * (1 + at - first)
    BY <1>5, <2>3, <2>4, <2>5
  <2> QED BY <2>2, <2>6 DEF at, c, f
<1> QED BY <1>6, <1>7

LEMMA SettleKeeps ==
  ASSUME TokenAssumption, TokenIInv, NEW u \in User, NEW n \in Int,
         NEW auth \in SUBSET Authorization, \A a \in auth : a.nonce = faucet.nonces[u],
         Settle(u, n, auth),
         relay' \in [signed : SUBSET Authorization, sent : SUBSET Authorization],
         UNCHANGED <<deployed, staking, market, batches, now>>
  PROVE  TokenIInv'
<1> DEFINE at == SettledAt(u, n)
           first == IF flows.first[u] = 0 THEN now ELSE flows.first[u]
           settled == flows.settled
                        \cup {[a EXCEPT !.nonce = <<a.nonce, faucet.nonces[u]>>] : a \in auth}
           claimed == [flows.claimed EXCEPT ![u] = @ + n]
           r == token'
<1>1. /\ n > 0 /\ n % ClaimAmount = 0 /\ n <= Accrued(u) /\ n <= RemainingFaucetSupply
      /\ token.supply + n <= MaxSupply /\ r = Minted(token, u, n)
  BY DEF Settle, MayMint
<1>2. n \in Nat
  BY <1>1
<1>3. /\ at \in Nat /\ at <= now /\ first \in Nat /\ first > 0 /\ first <= at
      /\ flows.claimed[u] + n = ClaimAmount * (1 + at - first)
  BY <1>1, <1>2, ClockMoves
<1> HIDE DEF at
<1>4. /\ faucet.lastClaimAt \in [User -> Nat] /\ faucet.nonces \in [User -> Int]
      /\ faucet.minted \in Int /\ faucet \in [minted : Int, lastClaimAt : [User -> Nat], nonces : [User -> Int]]
      /\ flows.first \in [User -> Nat] /\ flows.claimed \in [User -> Nat]
      /\ flows.settled \subseteq Settlement
      /\ flows \in [direct : Int, burned : Int, rewards : Int, first : [User -> Nat],
                    claimed : [User -> Nat], settled : SUBSET Settlement]
      /\ faucet.minted = Sum(flows.claimed, User) /\ now \in Nat
  BY DEF TokenIInv, TokenTypes, Accrues
<1>5. /\ faucet' = [minted |-> faucet.minted + n,
                    lastClaimAt |-> [faucet.lastClaimAt EXCEPT ![u] = at],
                    nonces |-> [faucet.nonces EXCEPT ![u] = @ + 1]]
  <2>1. faucet' = [faucet EXCEPT !.minted = faucet.minted + n,
                    !.nonces = [faucet.nonces EXCEPT ![u] = @ + 1],
                    !.lastClaimAt = [faucet.lastClaimAt EXCEPT ![u] = at]]
    BY <1>4 DEF Settle, at
  <2> QED BY <1>4, <2>1
<1>6. flows' = [direct |-> flows.direct, burned |-> flows.burned, rewards |-> flows.rewards,
                first |-> [flows.first EXCEPT ![u] = first], claimed |-> claimed,
                settled |-> settled]
  <2>1. flows' = [flows EXCEPT !.first = [flows.first EXCEPT ![u] = first],
                               !.claimed = claimed, !.settled = settled]
    BY <1>4 DEF Settle
  <2> HIDE DEF first, claimed, settled
  <2> QED BY <1>4, <2>1
<1>7. settled \subseteq Settlement /\ \A a \in settled : a.nonce[1] = a.nonce[2]
  <2>1. \A a \in flows.settled : a.nonce[1] = a.nonce[2]
    BY DEF TokenIInv, Accrues
  <2> DEFINE Record(a) == [a EXCEPT !.nonce = <<a.nonce, faucet.nonces[u]>>]
  <2>2. ASSUME NEW a \in auth
        PROVE  Record(a) \in Settlement /\ Record(a).nonce[1] = Record(a).nonce[2]
    <3>1. a \in Authorization /\ a.nonce = faucet.nonces[u] /\ faucet.nonces[u] \in Int
      BY <1>4
    <3>2. a = [account |-> a.account, amount |-> a.amount, nonce |-> a.nonce,
               deadline |-> a.deadline]
          /\ a.account \in User /\ a.amount \in Nat /\ a.deadline \in Int
      BY <3>1 DEF Authorization
    <3> DEFINE pair == <<a.nonce, faucet.nonces[u]>>
               b == [a EXCEPT !.nonce = pair]
    <3>3. pair \in Int \X Int /\ pair[1] = pair[2]
      BY <3>1
    <3> HIDE DEF pair
    <3>4. b = [account |-> a.account, amount |-> a.amount, nonce |-> pair, deadline |-> a.deadline]
      BY <3>2
    <3>5. b \in Settlement /\ b.nonce[1] = b.nonce[2]
      BY <3>2, <3>3, <3>4 DEF Settlement
    <3> QED BY <3>5 DEF pair
  <2>3. settled = flows.settled \cup {Record(a) : a \in auth}
    OBVIOUS
  <2> HIDE DEF Record, settled
  <2>4. \A b \in settled : b \in flows.settled \/ \E a \in auth : b = Record(a)
    BY <2>3
  <2> QED BY <1>4, <2>1, <2>2, <2>4
<1> HIDE DEF first, settled
<1>8. TokenTypes'
  <2>1. /\ claimed \in [User -> Nat] /\ [flows.first EXCEPT ![u] = first] \in [User -> Nat]
        /\ flows.direct \in Int /\ flows.burned \in Int /\ flows.rewards \in Int
    BY <1>2, <1>3, <1>4
  <2> HIDE DEF claimed
  <2>2. flows' \in [direct : Int, burned : Int, rewards : Int, first : [User -> Nat],
                    claimed : [User -> Nat], settled : SUBSET Settlement]
    BY <1>6, <1>7, <2>1
  <2> QED BY <2>2 DEF TokenIInv, TokenTypes
<1>9. faucet'.minted = Sum(claimed, User) /\ faucet'.minted <= Cap
  <2> DEFINE g == flows.claimed
  <2>1. \A v \in User : g[v] \in Int /\ claimed[v] \in Int /\ (v # u => claimed[v] = g[v])
    BY <1>2, <1>4
  <2>2. claimed[u] = flows.claimed[u] + n /\ flows.claimed[u] \in Int
    BY <1>4
  <2> HIDE DEF claimed, g
  <2> DEFINE h == claimed
  <2>5. IsFiniteSet(User) /\ \A v \in User : g[v] \in Int /\ h[v] \in Int /\ (v # u => h[v] = g[v])
    BY <2>1, Holders
  <2> HIDE DEF h
  <2>6. Sum(h, User) = Sum(g, User) + h[u] - g[u] /\ Sum(g, User) \in Int
    BY <2>5, SumChange
  <2>3. Sum(claimed, User) = Sum(g, User) + claimed[u] - g[u] /\ Sum(g, User) \in Int
    BY <2>6 DEF h
  <2>4. faucet'.minted = faucet.minted + n
    BY <1>5
  <2> QED BY <1>1, <1>4, <2>2, <2>3, <2>4, FaucetUnits DEF g
<1>10. Accrues'
  <2>1. faucet' \in [minted : Int, lastClaimAt : [User -> Nat], nonces : [User -> Int]]
    BY <1>2, <1>3, <1>4, <1>5
  <2>2. ASSUME NEW v \in User
        PROVE  /\ faucet'.lastClaimAt[v] <= now
               /\ flows'.first[v] = 0 => faucet'.lastClaimAt[v] = 0 /\ flows'.claimed[v] = 0
               /\ flows'.first[v] > 0 =>
                    /\ flows'.first[v] <= faucet'.lastClaimAt[v]
                    /\ flows'.claimed[v]
                         = ClaimAmount * (1 + faucet'.lastClaimAt[v] - flows'.first[v])
    <3>1. CASE v = u
      <4>1. /\ faucet'.lastClaimAt[v] = at /\ flows'.first[v] = first
            /\ flows'.claimed[v] = flows.claimed[u] + n
        BY <1>4, <1>5, <1>6, <3>1
      <4> QED BY <1>3, <4>1
    <3>2. CASE v # u
      <4>1. /\ faucet'.lastClaimAt[v] = faucet.lastClaimAt[v] /\ flows'.first[v] = flows.first[v]
            /\ flows'.claimed[v] = flows.claimed[v]
        BY <1>4, <1>5, <1>6, <3>2
      <4> QED BY <4>1 DEF TokenIInv, Accrues
    <3> QED BY <3>1, <3>2
  <2>3. flows'.claimed = claimed /\ flows'.settled = settled
    BY <1>6
  <2> HIDE DEF claimed
  <2> QED BY <1>7, <1>9, <2>1, <2>2, <2>3 DEF Accrues
<1>11. /\ CoinSums(token) /\ u \in Holder /\ "staking" \in Holder /\ token.balance["staking"] \in Int
       /\ staking.totalStaked \in Int /\ staking.rewardPool \in Int
  BY Holders, StakingIs DEF TokenIInv, CoinSums, Coin
<1> HIDE DEF r, claimed
<1>12. /\ CoinSums(r) /\ r.supply = token.supply + n /\ r.balance["staking"] \in Int
       /\ r.balance["staking"] >= token.balance["staking"]
  <2>1. /\ CoinSums(r) /\ r.supply = token.supply + n
        /\ \A h \in Holder : r.balance[h] >= token.balance[h]
    BY <1>1, <1>2, <1>11, MintedSums
  <2> QED BY <1>11, <2>1 DEF CoinSums, Coin
<1>13. Supplied'
  <2>1. BatchSums' = BatchSums
    BY DEF BatchSums
  <2>2. Sum(BatchSums', batches') = Sum(BatchSums, batches)
    BY <2>1
  <2>3. Supplied
    BY DEF TokenIInv
  <2>4. /\ flows'.direct = flows.direct /\ flows'.burned = flows.burned
        /\ flows'.rewards = flows.rewards /\ faucet'.minted = faucet.minted + n
        /\ r.supply = token.supply + n
    BY <1>5, <1>6, <1>12
  <2> QED BY <2>2, <2>3, <2>4, Flows DEF Supplied, r
<1>14. Staked'
  <2>1. StakeSums' = StakeSums
    BY DEF StakeSums
  <2> QED BY <2>1 DEF TokenIInv, Staked
<1>15. r.balance["staking"] >= staking'.totalStaked + staking'.rewardPool
  BY <1>11, <1>12 DEF TokenIInv
<1> QED BY <1>8, <1>10, <1>12, <1>13, <1>14, <1>15 DEF TokenIInv, r

LEMMA ClaimsKeep ==
  ASSUME TokenAssumption, TokenIInv,
         (\E u \in User : ClaimTokens(u)) \/ \E a \in relay.signed : ClaimWithSig(a)
  PROVE  TokenIInv'
<1>1. relay \in [signed : SUBSET Authorization, sent : SUBSET Authorization]
  BY DEF TokenIInv, TokenTypes
<1>2. CASE \E u \in User : ClaimTokens(u)
  <2>1. PICK u \in User : ClaimTokens(u)
    BY <1>2
  <2>2. /\ Settle(u, Claimable(u), {}) /\ relay' = relay
        /\ UNCHANGED <<deployed, staking, market, batches, now>>
    BY <2>1 DEF ClaimTokens
  <2>3. Claimable(u) \in Int
    BY FaucetUnits
  <2>4. {} \in SUBSET Authorization /\ \A a \in {} : a.nonce = faucet.nonces[u]
    OBVIOUS
  <2> QED BY <1>1, <2>2, <2>3, <2>4, SettleKeeps
<1>3. CASE \E a \in relay.signed : ClaimWithSig(a)
  <2>1. PICK a \in relay.signed : ClaimWithSig(a)
    BY <1>3
  <2>2. a \in Authorization /\ a.account \in User /\ a.amount \in Int
    BY <1>1 DEF Authorization
  <2>3. /\ a.nonce = faucet.nonces[a.account] /\ Settle(a.account, a.amount, {a})
        /\ relay' = [relay EXCEPT !.sent = @ \ {a}]
        /\ UNCHANGED <<deployed, staking, market, batches, now>>
    BY <2>1 DEF ClaimWithSig, NonceMatches
  <2>4. relay' \in [signed : SUBSET Authorization, sent : SUBSET Authorization]
    BY <1>1, <2>3
  <2>5. {a} \in SUBSET Authorization /\ \A b \in {a} : b.nonce = faucet.nonces[a.account]
    BY <2>2, <2>3
  <2> QED BY <2>2, <2>3, <2>4, <2>5, SettleKeeps
<1> QED BY <1>2, <1>3

LEMMA TokenTickKeeps ==
  ASSUME TokenAssumption, TokenIInv, TokenTick
  PROVE  TokenIInv'
<1>1. /\ now' = now + 1 /\ now \in Nat \ {0}
      /\ UNCHANGED <<deployed, token, staking, market, faucet, batches, relay, flows>>
  BY DEF TokenTick, TokenIInv, TokenTypes
<1>2. BatchSums' = BatchSums /\ StakeSums' = StakeSums
  BY <1>1 DEF BatchSums, StakeSums
<1>3. TokenTypes' /\ CoinSums(token') /\ Supplied'
  BY <1>1, <1>2 DEF TokenIInv, TokenTypes, Supplied
<1>4. Staked'
  <2>1. \A u \in User : staking.stakes[u].at \in Nat /\ staking.stakes[u].at <= now
    BY DEF TokenIInv, Staked, StakeOf
  <2>2. \A u \in User : staking'.stakes[u].at <= now'
    BY <1>1, <2>1
  <2> QED BY <1>1, <1>2, <2>2 DEF TokenIInv, Staked
<1>5. Accrues'
  <2>1. \A u \in User : faucet.lastClaimAt[u] \in Nat /\ faucet.lastClaimAt[u] <= now
    BY DEF TokenIInv, Accrues
  <2>2. \A u \in User : faucet'.lastClaimAt[u] <= now'
    BY <1>1, <2>1
  <2> QED BY <1>1, <2>2 DEF TokenIInv, Accrues
<1> QED BY <1>1, <1>3, <1>4, <1>5 DEF TokenIInv

LEMMA ZeroSum ==
  ASSUME NEW S, IsFiniteSet(S), NEW f, \A x \in S : f[x] = 0
  PROVE  Sum(f, S) = 0
<1>1. Sum(f, S) = Sum(f, {})
  BY SumZeros
<1> QED BY <1>1, SumEmpty

LEMMA TokenStarts == ASSUME TokenAssumption, TokenInit PROVE TokenIInv
<1>1. /\ Deployer \in User /\ Deployer \in Holder /\ "staking" \in Holder
      /\ Deployer # "staking" /\ IsFiniteSet(User) /\ IsFiniteSet(Holder)
      /\ InitialMint \in Nat /\ MaxSupply \in Nat /\ InitialMint <= MaxSupply
  BY Holders DEF TokenAssumption
<1> DEFINE b == [h \in Holder |-> IF h = Deployer THEN InitialMint ELSE 0]
<1>2. token = [owner |-> Deployer, supply |-> InitialMint, balance |-> b,
               allowance |-> [u \in User |-> 0], minters |-> {}]
  BY DEF TokenInit
<1>3. Sum(b, Holder) = InitialMint
  <2>1. \A h \in Holder : b[h] \in Int /\ (h # Deployer => b[h] = 0)
    BY <1>1
  <2>2. b[Deployer] = InitialMint
    BY <1>1
  <2> DEFINE z == [h \in Holder |-> 0]
  <2>3. \A h \in Holder : z[h] = 0
    OBVIOUS
  <2> HIDE DEF b, z
  <2>4. Sum(z, Holder) = 0
    BY <1>1, <2>3, ZeroSum
  <2>5. \A h \in Holder : z[h] \in Int /\ b[h] \in Int /\ (h # Deployer => b[h] = z[h])
    BY <2>1, <2>3
  <2>6. Sum(b, Holder) = Sum(z, Holder) + b[Deployer] - z[Deployer]
    BY <1>1, <2>5, SumChange
  <2> QED BY <1>1, <2>2, <2>3, <2>4, <2>6
<1>4. CoinSums(token)
  <2>1. b \in [Holder -> Int] /\ \A h \in Holder : b[h] >= 0
    BY <1>1
  <2> HIDE DEF b
  <2>2. token \in Coin
    BY <1>1, <1>2, <2>1 DEF Coin
  <2>3. token.balance = b /\ token.supply = InitialMint
    BY <1>2
  <2> QED BY <1>1, <1>3, <2>1, <2>2, <2>3 DEF CoinSums
<1>5. TokenTypes
  <2>1. \A d \in Deployments : d \subseteq Contract
    BY DEF TokenAssumption
  <2> QED BY <2>1, FS_EmptySet DEF TokenInit, TokenTypes
<1>6. Supplied
  <2>1. batches = {} /\ Sum(BatchSums, {}) = 0
    BY SumEmpty DEF TokenInit
  <2>2. /\ flows.direct = 0 /\ flows.burned = 0 /\ flows.rewards = 0 /\ faucet.minted = 0
        /\ token.supply = InitialMint
    BY <1>2 DEF TokenInit
  <2> QED BY <1>1, <2>1, <2>2 DEF Supplied
<1>7. Staked
  <2> DEFINE s == [amount |-> 0, at |-> 0, debt |-> 0, active |-> FALSE]
  <2>1. /\ s \in StakeOf /\ s.at = 0 /\ s.amount = 0
    BY DEF StakeOf
  <2>2. staking = [stakes |-> [u \in User |-> s], totalStaked |-> 0, rewardPool |-> 0] /\ now = 1
    BY DEF TokenInit
  <2> HIDE DEF s
  <2>3. \A u \in User : StakeSums[u] = 0
    BY <2>1, <2>2 DEF StakeSums
  <2> DEFINE f == StakeSums
  <2>4. \A u \in User : f[u] = 0
    BY <2>3
  <2> HIDE DEF f
  <2>5. Sum(f, User) = 0
    BY <1>1, <2>4, ZeroSum
  <2> QED BY <2>1, <2>2, <2>5 DEF Staked, f
<1>8. Accrues
  <2> DEFINE z == [u \in User |-> 0]
  <2>1. /\ flows.claimed = z /\ flows.first = z /\ flows.settled = {}
        /\ faucet = [minted |-> 0, lastClaimAt |-> z, nonces |-> z] /\ now = 1
    BY DEF TokenInit
  <2>2. z \in [User -> Nat] /\ z \in [User -> Int] /\ \A u \in User : z[u] = 0
    OBVIOUS
  <2> HIDE DEF z
  <2>3. Sum(z, User) = 0
    BY <1>1, <2>2, ZeroSum
  <2> QED BY <1>1, <2>1, <2>2, <2>3 DEF Accrues, Cap
<1>9. /\ token.balance["staking"] = 0 /\ staking.totalStaked = 0 /\ staking.rewardPool = 0
  BY <1>1, <1>2 DEF TokenInit
<1> QED BY <1>4, <1>5, <1>6, <1>7, <1>8, <1>9 DEF TokenIInv

LEMMA TokenKeeps ==
  ASSUME TokenAssumption, TokenIInv, TokenNext
  PROVE  TokenIInv'
<1>1. CASE \/ \E u \in User, h \in User \cup deployed, n \in Amount : Transfer(u, h, n)
           \/ \E u \in User, n \in Amount : Approve(u, n)
           \/ \E c \in deployed : AuthorizeMinter(c)
           \/ \E u \in User : TransferOwnership(u)
           \/ \E n \in Amount : WithdrawJgt(n)
  BY <1>1, HandingKeeps
<1>2. CASE \E u \in User, n \in Amount : StakeTokens(u, n)
  BY <1>2, StakeKeeps
<1>3. CASE \E u \in User, n \in Amount : Burn(u, n)
  BY <1>3, BurnKeeps
<1>4. CASE \E u \in User, n \in Amount : Mint(u, n)
  BY <1>4, MintKeeps
<1>5. CASE \E batch \in Batch : BatchMint(batch)
  BY <1>5, BatchMintKeeps
<1>6. CASE \E batch \in Batch : ProcessBatch(batch)
  BY <1>6, ProcessBatchKeeps
<1>7. CASE \E u \in User : Unstake(u)
  BY <1>7, UnstakeKeeps
<1>8. CASE \E u \in User : ClaimReward(u)
  BY <1>8, ClaimRewardKeeps
<1>9. CASE (\E u \in User : ClaimTokens(u)) \/ \E a \in relay.signed : ClaimWithSig(a)
  BY <1>9, ClaimsKeep
<1>10. CASE \E n \in Amount : FundRewardPool(n)
  BY <1>10, FundKeeps
<1>11. CASE \E u \in User, v \in Ether : Buy(u, v) \/ Receive(u, v)
  BY <1>11, SellingKeeps
<1>12. CASE \/ \E u \in User, n \in Amount, ahead \in {0, 1} : Sign(u, n, ahead)
            \/ \E a \in relay.signed : RelayCheck(a)
            \/ \E a \in relay.sent : Revert(a)
  BY <1>12, RequestsKeep
<1>13. CASE TokenTick
  BY <1>13, TokenTickKeeps
<1> QED
  BY <1>1, <1>2, <1>3, <1>4, <1>5, <1>6, <1>7, <1>8, <1>9, <1>10, <1>11, <1>12, <1>13
  DEF TokenNext

LEMMA TokenStutters ==
  ASSUME TokenIInv, UNCHANGED tokenVars
  PROVE  TokenIInv'
<1>1. UNCHANGED <<deployed, token, staking, market, faucet, batches, relay, now, flows>>
  BY DEF tokenVars
<1>2. BatchSums' = BatchSums /\ StakeSums' = StakeSums
  BY <1>1 DEF BatchSums, StakeSums
<1> QED BY <1>1, <1>2 DEF TokenIInv, TokenTypes, Supplied, Staked, Accrues

LEMMA TokenSound == ASSUME TokenAssumption, TokenIInv PROVE TokenInv
<1>1. BooksBalance
  <2>1. token.balance \in [Holder -> Int] /\ Sum(token.balance, Holder) = token.supply
    BY DEF TokenIInv, CoinSums, Coin
  <2>2. SumFunction(token.balance) = token.supply
    BY <2>1, SumIs
  <2>3. SumFunction(BatchSums) = Sum(BatchSums, batches)
    BY SumIs DEF BatchSums
  <2>4. SumFunction(StakeSums) = Sum(StakeSums, User)
    BY SumIs DEF StakeSums
  <2> QED BY <2>2, <2>3, <2>4
       DEF TokenIInv, CoinSums, Supplied, Staked, BooksBalance, BatchSums, StakeSums
<1>2. AllotmentsHold
  <2>1. /\ flows.claimed \in [User -> Nat] /\ flows.first \in [User -> Nat]
        /\ faucet.minted = Sum(flows.claimed, User) /\ faucet.minted <= Cap
        /\ \A a \in flows.settled : a.nonce[1] = a.nonce[2]
    BY DEF TokenIInv, TokenTypes, Accrues
  <2>2. faucet.minted = SumFunction(flows.claimed)
    BY <2>1, SumIs
  <2>3. ASSUME NEW u \in User, flows.first[u] > 0
        PROVE  flows.claimed[u] <= ClaimAmount * (1 + now - flows.first[u])
    <3> DEFINE last == faucet.lastClaimAt[u]
               f == flows.first[u]
    <3>1. /\ last \in Nat /\ f \in Nat /\ last <= now /\ now \in Nat /\ ClaimAmount \in Nat
          /\ flows.claimed[u] = ClaimAmount * (1 + last - f)
      BY <2>1, <2>3 DEF TokenIInv, TokenTypes, Accrues, TokenAssumption
    <3> HIDE DEF last, f
    <3> DEFINE a == 1 + last - f
               d == now - last
    <3>2. a \in Int /\ d \in Nat /\ 1 + now - f = a + d
      BY <3>1
    <3>3. ClaimAmount * a \in Int /\ ClaimAmount * d \in Nat
      BY <3>1, <3>2
    <3>4. ClaimAmount * (a + d) = ClaimAmount * a + ClaimAmount * d
      BY <3>1, <3>2, Distributes
    <3> HIDE DEF a, d
    <3>5. ClaimAmount * a <= ClaimAmount * (a + d)
      BY <3>3, <3>4
    <3>6. flows.claimed[u] = ClaimAmount * a
      BY <3>1 DEF a
    <3> QED BY <3>2, <3>5, <3>6 DEF f
  <2> QED BY <2>1, <2>2, <2>3 DEF AllotmentsHold
<1> QED BY <1>1, <1>2 DEF TokenInv

\* In every run of the contracts, with any accounts, amounts, rates, batches
\* and deployments: balances add up to the supply and the supply to what was
\* minted, stakes and pool are covered, and nobody draws from the dispenser
\* more than the time since his first claim allows.
THEOREM TokensAddUp == TokenSpec => []TokenInv
<1>1. TokenInit => TokenIInv
  BY TokenAssumption, TokenStarts
<1>2. TokenIInv /\ [TokenNext]_tokenVars => TokenIInv'
  BY TokenAssumption, TokenKeeps, TokenStutters
<1>3. TokenIInv => TokenInv
  BY TokenAssumption, TokenSound
<1> QED BY <1>1, <1>2, <1>3, PTL DEF TokenSpec
================================================================================
