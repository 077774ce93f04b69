---------------------------- MODULE AuditLifecycle ----------------------------
(***************************************************************************)
(* The audit evidence of one JGC node (broker/audit-protocol.ts), as       *)
(* network/node.ts drives it: requests and signed votes arrive from peers, *)
(* verdicts are finalized as the chain grows, committed by blocks, taken   *)
(* back by reorgs, and persisted (storage/audit-store.ts).                 *)
(*                                                                         *)
(* The chain is a trunk up to height Fork and one of two or more branches  *)
(* above it.  A request is named by the height and branch of its beacon;   *)
(* its claim lies below.  Every validator sits in every committee.         *)
(***************************************************************************)
EXTENDS Integers, Sequences, FiniteSets, Functions

CONSTANTS
  Branch,         \* the branches above the trunk
  Request,        \* the audits: [height, branch] of the beacon block
  Order,          \* the order of the audit ids as bytes
  Validator,      \* the committee, numbered in the order of the ids
  Fork,           \* height of the trunk, from which the node starts
  Window,         \* responseDeadlineHeight - beaconHeight
  MaxOpenAudits,  \* AuditLifecycleOptions.maxOpenAudits
  MaxHeight       \* bound: how long the chain may grow

ASSUME AuditAssumption ==
  /\ Request \subseteq [height : Nat \ {0}, branch : Branch]
  /\ Order \in [Request -> Nat]
  /\ \A r, s \in Request : Order[r] = Order[s] => r = s
  /\ Validator \subseteq Nat
  /\ IsFiniteSet(Validator) /\ Cardinality(Validator) >= 3
  /\ Fork \in Nat /\ Window \in Nat \ {0}
  /\ MaxOpenAudits \in Nat /\ MaxHeight \in Nat /\ Fork <= MaxHeight

VARIABLES
  tree,    \* per branch, the verdicts each of its blocks commits
  branch,  \* the branch the node's active chain follows
  up,      \* the process runs
  book,    \* AuditLifecycle: votes of the open requests, finalized verdicts
  saved,   \* audits.json
  cast     \* per request, the votes signed so far in the network

vars == <<tree, branch, up, book, saved, cast>>

Height == Fork + Len(tree[branch])
Deadline(r) == r.height + Window

Vote == [commitment : {"claimed", "other"}, at : 1 .. MaxHeight + 1]

\* Votes by validator, at most one by each.
IsBallots(f) == DOMAIN f \subseteq Validator /\ Range(f) \subseteq Vote
IsRecord(rec) ==
  /\ rec.request \in Request /\ rec.at \in 1 .. MaxHeight
  /\ IsBallots(rec.evidence)
IsBook(b) ==
  /\ DOMAIN b.open \cup DOMAIN b.verdicts \subseteq Request
  /\ DOMAIN b.open \cap DOMAIN b.verdicts = {}
  /\ \A f \in Range(b.open) : IsBallots(f)
  /\ \A r \in DOMAIN b.verdicts :
       IsRecord(b.verdicts[r]) /\ b.verdicts[r].request = r

None == [x \in {} |-> x]
EmptyBook == [open |-> None, verdicts |-> None]
Requests(b) == DOMAIN b.open \cup DOMAIN b.verdicts

TypeOK ==
  /\ \A br \in Branch, i \in 1 .. MaxHeight :
       i \in DOMAIN tree[br] => \A rec \in tree[br][i] : IsRecord(rec)
  /\ branch \in Branch
  /\ up \in BOOLEAN
  /\ IsBook(book) /\ IsBook(saved)
  /\ \A r \in Request : IsBallots(cast[r])

Init ==
  /\ tree = [br \in Branch |-> <<>>]
  /\ branch \in Branch
  /\ up = TRUE
  /\ book = EmptyBook /\ saved = EmptyBook
  /\ cast = [r \in Request |-> None]
------------------------------------------------------------------------------
(* Verdicts *)

\* Mutant: the supermajority is one of the validators that answered.
RequiredVotesOfAnswers(ballots) == (2 * Cardinality(DOMAIN ballots) + 2) \div 3

\* Two thirds of the whole committee, rounded up.
RequiredVotes(ballots) == (2 * Cardinality(Validator) + 2) \div 3

Count(ballots, c) == Cardinality({v \in DOMAIN ballots : ballots[v].commitment = c})

\* deriveVerdictSummary
Decision(ballots) ==
  CASE Count(ballots, "claimed") >= RequiredVotes(ballots)
         /\ ballots # None -> "pass"
    [] Count(ballots, "other") >= RequiredVotes(ballots)
         /\ ballots # None -> "fraud"
    [] OTHER -> "inconclusive"

\* validateAuditVerdictRecord
ValidRecord(rec) ==
  /\ rec.at >= rec.request.height
  /\ rec.at <= Deadline(rec.request) => DOMAIN rec.evidence = Validator
  /\ \A v \in DOMAIN rec.evidence :
       /\ rec.evidence[v].at \in rec.request.height .. Deadline(rec.request)
       /\ rec.evidence[v].at <= rec.at

\* auditRequestMatchesActiveChain
Bound(br, height, r) ==
  /\ r.height <= height
  /\ r.height <= Fork \/ r.branch = br

Committed(blocks) == UNION Range(blocks)

\* validateAuditVerdicts for one record in the block above blocks.
Committable(br, blocks, rec) ==
  /\ ValidRecord(rec)
  /\ rec.at <= Fork + Len(blocks)
  /\ Bound(br, Fork + Len(blocks), rec.request)
  /\ \A other \in Committed(blocks) : other.request # rec.request

\* getPendingAuditVerdicts: what the node's own producer would commit next.
Pending ==
  {rec \in Range(book.verdicts) :
     /\ rec.at <= Height
     /\ \A other \in Committed(tree[branch]) : other.request # rec.request}
------------------------------------------------------------------------------
(* The book *)

\* Mutant: a verdict may be finalized at its deadline.
DueAtDeadline(b, r, height) ==
  DOMAIN b.open[r] = Validator \/ height >= Deadline(r)

Due(b, r, height) == DOMAIN b.open[r] = Validator \/ height > Deadline(r)

\* Mutant: a finalized request stays open.
FinalizeKeepsOpen(b, rs, height) ==
  [b EXCEPT !.verdicts = [r \in DOMAIN @ \cup rs |->
     IF r \in rs THEN [request |-> r, evidence |-> b.open[r], at |-> height]
                 ELSE @[r]]]

\* finalize, for every request in rs.
Finalize(b, rs, height) ==
  [open |-> Restrict(b.open, DOMAIN b.open \ rs),
   verdicts |-> [r \in DOMAIN b.verdicts \cup rs |->
     IF r \in rs THEN [request |-> r, evidence |-> b.open[r], at |-> height]
                 ELSE b.verdicts[r]]]

\* Mutant: only complete audits are finalized.
FinalizeComplete(b, height) ==
  Finalize(b, {r \in DOMAIN b.open : DOMAIN b.open[r] = Validator}, height)

FinalizeDue(b, height) ==
  Finalize(b, {r \in DOMAIN b.open : Due(b, r, height)}, height)

\* Mutant: the node's own verdict is kept over the committed one.
IndexNew(b, recs) ==
  [open |-> Restrict(b.open, DOMAIN b.open \ {rec.request : rec \in recs}),
   verdicts |->
     [r \in DOMAIN b.verdicts \cup {rec.request : rec \in recs} |->
        IF r \in DOMAIN b.verdicts THEN b.verdicts[r]
        ELSE CHOOSE rec \in recs : rec.request = r]]

\* indexCommittedVerdict: the active chain's copy is authoritative.
Index(b, recs) ==
  [open |-> Restrict(b.open, DOMAIN b.open \ {rec.request : rec \in recs}),
   verdicts |->
     [r \in DOMAIN b.verdicts \cup {rec.request : rec \in recs} |->
        IF \E rec \in recs : rec.request = r
          THEN CHOOSE rec \in recs : rec.request = r
          ELSE b.verdicts[r]]]

\* Mutant: what lost its anchor is kept.
RetainAll(b, br, height) == b

\* reconcile: evidence that lost its anchor is dropped.
Retain(b, br, height) ==
  LET Anchored(f) == {r \in DOMAIN f : Bound(br, height, r)} IN
  [open |-> Restrict(b.open, Anchored(b.open)),
   verdicts |-> Restrict(b.verdicts, Anchored(b.verdicts))]

\* restoreState: anchored requests in the order of their ids until the limit.
\* A stored verdict is rebuilt from its votes, which must be admissible at this
\* height: the first that is not leaves the request open with those before it.
Restored(b, br, height) ==
  LET anchored == {r \in Requests(b) : Bound(br, height, r)}
      kept == {r \in anchored :
                 Cardinality({s \in anchored : Order[s] < Order[r]})
                   < MaxOpenAudits}
      sound == {r \in kept \cap DOMAIN b.verdicts : ValidRecord(b.verdicts[r])}
      Timely(f) == {v \in DOMAIN f : f[v].at <= height}
      Leading(f) == {v \in Timely(f) :
                       \A w \in DOMAIN f : w < v => w \in Timely(f)}
      rebuilt == {r \in sound : LET f == b.verdicts[r].evidence
                                IN  Leading(f) = DOMAIN f}
      Votes(r) ==
        IF r \in DOMAIN b.open THEN Restrict(b.open[r], Timely(b.open[r]))
        ELSE IF r \in sound
          THEN Restrict(b.verdicts[r].evidence, Leading(b.verdicts[r].evidence))
          ELSE None
  IN  FinalizeDue([open |-> [r \in kept \ rebuilt |-> Votes(r)],
                   verdicts |-> Restrict(b.verdicts, rebuilt)], height)
------------------------------------------------------------------------------
(* Messages *)

Persist == saved' = book'

\* A validator signs its one vote, at the height it has reached.
Cast(r, v) ==
  /\ v \notin DOMAIN cast[r]
  /\ \E vote \in Vote :
       /\ vote.at \in {Height, Height + 1} \cap (r.height .. Deadline(r))
       /\ cast' = [cast EXCEPT ![r] =
            [x \in DOMAIN @ \cup {v} |-> IF x = v THEN vote ELSE @[x]]]
  /\ UNCHANGED <<tree, branch, up, book, saved>>

\* handleAuditRequest, broadcastAuditRequest
RegisterRequest(r) ==
  /\ up /\ Bound(branch, Height, r)
  /\ Height <= Deadline(r)
  /\ r \notin Requests(book)
  /\ Cardinality(DOMAIN book.open) < MaxOpenAudits
  /\ book' = [book EXCEPT !.open =
                [x \in DOMAIN @ \cup {r} |-> IF x = r THEN None ELSE @[x]]]
  /\ Persist
  /\ UNCHANGED <<tree, branch, up, cast>>

\* Mutant: an accepted vote is saved with the next block only.
SubmitVoteUnsaved(r, v) ==
  /\ up /\ r \in DOMAIN book.open
  /\ v \in DOMAIN cast[r] \ DOMAIN book.open[r]
  /\ cast[r][v].at <= Height
  /\ book' = [book EXCEPT !.open[r] =
                [x \in DOMAIN @ \cup {v} |-> IF x = v THEN cast[r][v] ELSE @[x]]]
  /\ UNCHANGED <<tree, branch, up, saved, cast>>

\* handleAuditVote, broadcastAuditVote
SubmitVote(r, v) ==
  /\ up /\ r \in DOMAIN book.open
  /\ v \in DOMAIN cast[r] \ DOMAIN book.open[r]
  /\ cast[r][v].at <= Height
  /\ book' = [book EXCEPT !.open[r] =
                [x \in DOMAIN @ \cup {v} |-> IF x = v THEN cast[r][v] ELSE @[x]]]
  /\ Persist
  /\ UNCHANGED <<tree, branch, up, cast>>

\* handleAuditVerdict: a remote verdict makes the node finalize what is due; the
\* book is saved only if the two verdicts agree.
HandleVerdict(r) ==
  /\ up /\ r \in Requests(book)
  /\ r \in DOMAIN book.open => Due(book, r, Height)
  /\ book' = Finalize(book, {r} \cap DOMAIN book.open, Height)
  /\ Persist \/ UNCHANGED saved
  /\ UNCHANGED <<tree, branch, up, cast>>
------------------------------------------------------------------------------
(* Blocks *)

\* The verdicts another node may commit: any the cast votes support.
ForeignVerdicts(br, blocks) ==
  {rec \in UNION {[request : {r}, at : r.height .. Fork + Len(blocks),
                   evidence : {Restrict(cast[r], S) : S \in SUBSET DOMAIN cast[r]}]
                    : r \in Request} :
     Committable(br, blocks, rec)}

Bodies(br, blocks) == {{}} \cup {{rec} : rec \in ForeignVerdicts(br, blocks)}

Applied(recs, height) == FinalizeDue(Index(book, recs), height)

\* applyLiveBlock: the block is appended to the log before the book is saved.
ApplyBlock(recs) ==
  /\ up /\ Height < MaxHeight
  /\ recs \in Bodies(branch, tree[branch])
  /\ tree' = [tree EXCEPT ![branch] = Append(@, recs)]
  /\ book' = Applied(recs, Height + 1)
  /\ IF recs # {} \/ DOMAIN book'.verdicts # DOMAIN book.verdicts
       THEN Persist ELSE UNCHANGED saved
  /\ UNCHANGED <<branch, up, cast>>

CrashInApply(recs) ==
  /\ up /\ Height < MaxHeight
  /\ recs \in Bodies(branch, tree[branch])
  /\ tree' = [tree EXCEPT ![branch] = Append(@, recs)]
  /\ up' = FALSE /\ book' = EmptyBook
  /\ UNCHANGED <<branch, saved, cast>>

\* The blocks with which br becomes as high as the active chain (equal work,
\* lower hash: extra = 0) or one higher: what is known of it and new blocks, of
\* which the last commits recs.
Missing(br, extra) == Len(tree[branch]) + extra - Len(tree[br])
Gap(br, extra) == tree[br] \o [i \in 1 .. Missing(br, extra) - 1 |-> {}]

Overtakes(br, extra, recs) ==
  /\ up /\ br # branch
  /\ Height + extra <= MaxHeight /\ Missing(br, extra) > 0
  /\ recs \in Bodies(br, Gap(br, extra))

Reconciled(br, blocks) ==
  LET h == Fork + Len(blocks) IN
  Index(FinalizeDue(Retain(book, br, h), h), Committed(blocks))

\* reorgToBlock saves the book only if it has a reason to.
SavedInReorg(br, blocks) ==
  LET h == Fork + Len(blocks)
      retained == Retain(book, br, h)
  IN  IF retained = book /\ FinalizeDue(retained, h) = retained
           /\ Committed(blocks) = {}
        THEN saved ELSE Reconciled(br, blocks)

Reorg(br, extra, recs) ==
  LET blocks == Append(Gap(br, extra), recs) IN
  /\ Overtakes(br, extra, recs)
  /\ tree' = [tree EXCEPT ![br] = blocks]
  /\ branch' = br
  /\ book' = Reconciled(br, blocks)
  /\ saved' = SavedInReorg(br, blocks)
  /\ UNCHANGED <<up, cast>>

\* The process dies before the log is rewritten: it still holds the old branch.
CrashInReorg(br, extra, recs) ==
  LET blocks == Append(Gap(br, extra), recs) IN
  /\ Overtakes(br, extra, recs)
  /\ tree' = [tree EXCEPT ![br] = blocks]
  /\ saved' = SavedInReorg(br, blocks)
  /\ up' = FALSE /\ book' = EmptyBook
  /\ UNCHANGED <<branch, cast>>

Crash ==
  /\ up
  /\ up' = FALSE /\ book' = EmptyBook
  /\ UNCHANGED <<tree, branch, saved, cast>>

\* restoreAuditState, after the log was replayed.
Restart ==
  /\ ~up
  /\ up' = TRUE
  /\ book' = Index(Restored(saved, branch, Height), Committed(tree[branch]))
  /\ Persist
  /\ UNCHANGED <<tree, branch, cast>>
------------------------------------------------------------------------------
Next ==
  \/ \E r \in Request, v \in Validator : Cast(r, v) \/ SubmitVote(r, v)
  \/ \E r \in Request : RegisterRequest(r) \/ HandleVerdict(r)
  \/ \E recs \in Bodies(branch, tree[branch]) :
       ApplyBlock(recs) \/ CrashInApply(recs)
  \/ \E br \in Branch \ {branch}, extra \in 0 .. 1 :
       \E recs \in Bodies(br, Gap(br, extra)) :
         Reorg(br, extra, recs) \/ CrashInReorg(br, extra, recs)
  \/ Crash
  \/ Restart

Spec == Init /\ [][Next]_vars
------------------------------------------------------------------------------
(* Properties *)

Evidence(b, r) == IF r \in DOMAIN b.open THEN b.open[r] ELSE b.verdicts[r].evidence

\* The active chain's verdicts are the node's: whatever a node concluded or
\* forgot, after any reorg or restart it holds each committed record as it was
\* committed, and no longer collects votes for it (indexCommittedVerdict).
CommittedIsIndexed ==
  up => \A rec \in Committed(tree[branch]) :
          /\ rec.request \in DOMAIN book.verdicts \ DOMAIN book.open
          /\ book.verdicts[rec.request] = rec

\* No evidence of an abandoned branch survives in memory (reconcile).
EvidenceBound == up => \A r \in Requests(book) : Bound(branch, Height, r)

\* An audit is never left open past its deadline, although only blocks, reorgs
\* and restarts look at the deadline (finalizeDue).
OpenIsTimely == up => \A r \in DOMAIN book.open : Height <= Deadline(r)

\* What the node would commit in its next block passes its own validation
\* ("this remains correct after restart, sync, reorg"): a verdict the chain
\* would reject would make every block of this producer invalid.
PendingCommittable ==
  up => \A rec \in Pending : Committable(branch, tree[branch], rec)

\* With validators that vote once, no two records anywhere, in memory, on disk
\* or in a block of any branch, clear and convict the same claim
\* (the supermajority is one of the whole committee).
OneDecision ==
  LET records == Range(book.verdicts) \cup Range(saved.verdicts)
                   \cup UNION {Committed(tree[br]) : br \in Branch}
  IN  \A x, y \in records :
        x.request = y.request =>
          {Decision(x.evidence), Decision(y.evidence)} # {"pass", "fraud"}

\* A vote the node acknowledged by relaying it is on disk.
SavedCoversMemory ==
  \A r \in Requests(book) :
    /\ r \in Requests(saved)
    /\ \A v \in DOMAIN Evidence(book, r) :
         /\ v \in DOMAIN Evidence(saved, r)
         /\ Evidence(saved, r)[v] = Evidence(book, r)[v]

\* The book follows the active chain: its verdicts, its anchors and its heights.
BookInv == CommittedIsIndexed /\ EvidenceBound /\ OpenIsTimely

\* What the node will commit is valid, and what it acknowledged is on disk.
EvidenceInv == TypeOK /\ PendingCommittable /\ SavedCoversMemory

\* "Requests, votes, and verdict evidence are atomically persisted": a restart
\* keeps every saved audit whose anchor is on the active chain.
RestartKeeps ==
  [][~up /\ up' =>
       \A r \in Requests(saved) :
         Bound(branch, Height, r) => r \in Requests(book')]_vars
==============================================================================
