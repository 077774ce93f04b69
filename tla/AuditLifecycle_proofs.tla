------------------------ MODULE AuditLifecycle_proofs ------------------------
(***************************************************************************)
(* The audit book, for any branches, audits, committee and limits:         *)
(*  - it follows the active chain: what the chain has committed is what    *)
(*    the node holds, nothing it holds hangs on a block of an abandoned    *)
(*    branch, and no open audit is overdue;                                *)
(*  - every vote held, saved or committed is the one that was cast, so     *)
(*    nothing is decided both ways, what the node will commit is valid,    *)
(*    and what it acknowledged is in the file.                             *)
(***************************************************************************)
EXTENDS AuditLifecycle, FiniteSetTheorems, SequenceTheorems, TLAPS

IsSequence(s) == s \in Seq(Range(s))

\* What a branch has committed: anchored on it, and one record per audit.
BranchSound(br, blocks) ==
  /\ IsSequence(blocks)
  /\ \A rec \in Committed(blocks) :
       rec.request \in Request /\ Bound(br, Fork + Len(blocks), rec.request)
  /\ \A x, y \in Committed(blocks) : x.request = y.request => x = y

BookSound(b) == Requests(b) \subseteq Request

AuditInv ==
  /\ DOMAIN tree = Branch /\ branch \in Branch
  /\ \A br \in Branch : BranchSound(br, tree[br])
  /\ DOMAIN book = {"open", "verdicts"}
  /\ BookSound(book) /\ BookSound(saved)
  /\ BookInv
------------------------------------------------------------------------------
(* Blocks *)

LEMMA AppendedBlock ==
  ASSUME NEW s, IsSequence(s), NEW e
  PROVE  /\ IsSequence(Append(s, e)) /\ Len(Append(s, e)) = Len(s) + 1
         /\ Committed(Append(s, e)) = Committed(s) \cup e
<1>1. s \in Seq(Range(s) \cup {e})
  BY DEF IsSequence
<1>2. /\ Append(s, e) \in Seq(Range(s) \cup {e}) /\ Len(Append(s, e)) = Len(s) + 1
      /\ \A i \in 1 .. Len(s) : Append(s, e)[i] = s[i]
      /\ Append(s, e)[Len(s) + 1] = e
      /\ DOMAIN Append(s, e) = 1 .. Len(s) + 1 /\ DOMAIN s = 1 .. Len(s)
      /\ Len(s) \in Nat
  BY <1>1, AppendProperties, LenProperties
<1>3. Range(Append(s, e)) = Range(s) \cup {e}
  <2> DEFINE t == Append(s, e)
  <2> HIDE DEF t
  <2>1. DOMAIN t = 1 .. Len(s) + 1 /\ t[Len(s) + 1] = e /\ \A i \in 1 .. Len(s) : t[i] = s[i]
    BY <1>2 DEF t
  <2>2. \A i \in DOMAIN t : i = Len(s) + 1 \/ i \in DOMAIN s
    BY <1>2, <2>1
  <2>3. Len(s) + 1 \in DOMAIN t /\ \A i \in DOMAIN s : i \in DOMAIN t /\ t[i] = s[i]
    BY <1>2, <2>1
  <2>4. Range(t) = Range(s) \cup {e}
    BY <2>1, <2>2, <2>3 DEF Range
  <2> QED BY <2>4 DEF t
<1> QED BY <1>2, <1>3 DEF IsSequence, Committed

LEMMA BoundGrows ==
  ASSUME NEW br, NEW r \in Request, NEW h \in Int, NEW k \in Int, h <= k, Bound(br, h, r)
  PROVE  Bound(br, k, r)
BY AuditAssumption DEF Bound

\* A block that commits what its branch lets it commit leaves the branch sound.
LEMMA BlockIsSound ==
  ASSUME NEW br, NEW s, BranchSound(br, s), NEW recs \in Bodies(br, s)
  PROVE  BranchSound(br, Append(s, recs))
<1>1. /\ IsSequence(Append(s, recs)) /\ Len(Append(s, recs)) = Len(s) + 1 /\ Len(s) \in Nat
      /\ Committed(Append(s, recs)) = Committed(s) \cup recs
  BY AppendedBlock, LenProperties DEF BranchSound, IsSequence
<1>2. \A rec \in recs : rec.request \in Request /\ Committable(br, s, rec)
  BY DEF Bodies, ForeignVerdicts
<1>3. \A rec \in recs : Bound(br, Fork + Len(s), rec.request)
  BY <1>2 DEF Committable
<1>4. Fork + Len(s) \in Int /\ Fork + Len(s) <= Fork + (Len(s) + 1) /\ Fork + (Len(s) + 1) \in Int
  BY <1>1, AuditAssumption
<1>5. \A rec \in Committed(s) \cup recs :
        rec.request \in Request /\ Bound(br, Fork + Len(Append(s, recs)), rec.request)
  BY <1>1, <1>2, <1>3, <1>4, BoundGrows DEF BranchSound
<1>6. \A x, y \in recs : x = y
  BY DEF Bodies
<1>7. \A x \in recs, y \in Committed(s) : x.request # y.request
  BY <1>2 DEF Committable
<1>8. \A x, y \in Committed(s) \cup recs : x.request = y.request => x = y
  BY <1>6, <1>7 DEF BranchSound
<1> QED BY <1>1, <1>5, <1>8 DEF BranchSound
\* Empty blocks commit nothing: what a reorg passes through on its way.
LEMMA GapIsSound ==
  ASSUME AuditInv, NEW br \in Branch, NEW extra \in 0 .. 1, Missing(br, extra) > 0
  PROVE  /\ BranchSound(br, Gap(br, extra))
         /\ Fork + Len(Gap(br, extra)) + 1 = Height + extra
         /\ Committed(Gap(br, extra)) = Committed(tree[br])
<1> DEFINE s == tree[br]
           n == Missing(br, extra) - 1
           e == [i \in 1 .. n |-> {}]
           S == Range(s) \cup {{}}
<1>1. BranchSound(br, s) /\ IsSequence(s) /\ IsSequence(tree[branch])
  BY DEF AuditInv, BranchSound
<1>2. Len(s) \in Nat /\ Len(tree[branch]) \in Nat
  BY <1>1, LenProperties DEF IsSequence
<1>3. n \in Nat /\ n = Len(tree[branch]) + extra - Len(s) - 1
  <2>1. Missing(br, extra) = Len(tree[branch]) + extra - Len(s)
    BY DEF Missing
  <2> DEFINE m == Missing(br, extra)
  <2>2. n = m - 1 /\ m > 0
    OBVIOUS
  <2> HIDE DEF n, m, s
  <2>3. m = Len(tree[branch]) + extra - Len(s)
    BY <2>1 DEF m
  <2> QED BY <1>2, <2>2, <2>3
<1>4. s \in Seq(S) /\ e \in Seq(S) /\ Len(e) = n
  <2>1. s \in Seq(S)
    BY <1>1 DEF IsSequence
  <2>2. e \in [1 .. n -> S]
    OBVIOUS
  <2> QED BY <1>3, <2>1, <2>2
<1> DEFINE t == s \o e
<1>5. /\ t \in Seq(S) /\ Len(t) = Len(s) + n /\ DOMAIN t = 1 .. Len(t)
      /\ \A i \in 1 .. Len(s) + n : t[i] = IF i <= Len(s) THEN s[i] ELSE e[i - Len(s)]
  <2> HIDE DEF s, e, n, S
  <2> QED BY <1>4, ConcatProperties, LenProperties
<1>6. \A i \in DOMAIN t : t[i] \in Range(s) \/ t[i] = {}
  <2> SUFFICES ASSUME NEW i \in DOMAIN t PROVE t[i] \in Range(s) \/ t[i] = {}
    OBVIOUS
  <2>1. CASE i <= Len(s)
    <3>1. i \in DOMAIN s /\ t[i] = s[i]
      BY <1>1, <1>2, <1>3, <1>5, <2>1, LenProperties DEF IsSequence
    <3> QED BY <3>1 DEF Range
  <2>2. CASE i > Len(s)
    <3>1. t[i] = e[i - Len(s)] /\ i - Len(s) \in 1 .. n
      <4> HIDE DEF s, t, e, n
      <4> QED BY <1>2, <1>3, <1>5, <2>2
    <3>2. \A j \in 1 .. n : e[j] = {}
      OBVIOUS
    <3> HIDE DEF t, e, n, s
    <3> QED BY <3>1, <3>2
  <2> HIDE DEF s, t, e, n
  <2> QED BY <1>2, <1>3, <1>5, <2>1, <2>2
<1>7. \A i \in DOMAIN s : i \in DOMAIN t /\ t[i] = s[i]
  BY <1>1, <1>2, <1>3, <1>5, LenProperties DEF IsSequence
<1>8. Committed(t) = Committed(s)
  <2> HIDE DEF t, s
  <2> QED BY <1>6, <1>7 DEF Committed, Range
<1>9. IsSequence(t)
  <2>1. \A i \in 1 .. Len(t) : t[i] \in Range(t)
    BY <1>5 DEF Range
  <2>2. t \in [1 .. Len(t) -> Range(t)] /\ Len(t) \in Nat
    <3>1. Len(t) = Len(s) + n /\ DOMAIN t = 1 .. Len(t) /\ t \in Seq(S)
      BY <1>5
    <3>2. t = [i \in 1 .. Len(t) |-> t[i]]
      <4> HIDE DEF t, s, e, n, S
      <4> QED BY <3>1
    <3> HIDE DEF t, s, e, n, S
    <3> QED BY <1>2, <1>3, <2>1, <3>1, <3>2
  <2> HIDE DEF t
  <2>3. t \in Seq(Range(t))
    BY <2>2, SeqDef
  <2> QED BY <2>3 DEF IsSequence
<1>10. Fork + Len(s) \in Int /\ Fork + Len(s) <= Fork + Len(t) /\ Fork + Len(t) \in Int
  BY <1>2, <1>3, <1>5, AuditAssumption
<1>11. BranchSound(br, t)
  <2> HIDE DEF t, s
  <2> QED BY <1>1, <1>8, <1>9, <1>10, BoundGrows DEF BranchSound
<1>12. Fork + Len(t) + 1 = Height + extra
  <2>1. Height = Fork + Len(tree[branch])
    BY DEF Height
  <2>2. Len(t) = Len(s) + n
    BY <1>5
  <2>3. Fork \in Nat /\ extra \in Int
    BY AuditAssumption
  <2> HIDE DEF s, t, n, e, S
  <2> QED BY <1>2, <1>3, <2>1, <2>2, <2>3
<1>13. t = Gap(br, extra)
  BY DEF Gap
<1> QED BY <1>8, <1>11, <1>12, <1>13
------------------------------------------------------------------------------
(* The book *)

\* The book's verdicts are those of the records, and it collects no vote for them.
Follows(b, records) ==
  \A rec \in records :
    /\ rec.request \in DOMAIN b.verdicts \ DOMAIN b.open
    /\ b.verdicts[rec.request] = rec

Anchored(b, br, h) == \A r \in Requests(b) : Bound(br, h, r)
InTime(b, h) == \A r \in DOMAIN b.open : h <= Deadline(r)
Unique(records) == \A x, y \in records : x.request = y.request => x = y

LEMMA FinalizeFacts ==
  ASSUME NEW b, NEW rs, rs \subseteq DOMAIN b.open, NEW h
  PROVE  /\ DOMAIN Finalize(b, rs, h) = {"open", "verdicts"}
         /\ DOMAIN Finalize(b, rs, h).open = DOMAIN b.open \ rs
         /\ DOMAIN Finalize(b, rs, h).verdicts = DOMAIN b.verdicts \cup rs
         /\ \A r \in DOMAIN b.verdicts \ rs :
              Finalize(b, rs, h).verdicts[r] = b.verdicts[r]
         /\ Requests(Finalize(b, rs, h)) = Requests(b)
BY DEF Finalize, Restrict, Requests

LEMMA FinalizeKeeps ==
  ASSUME NEW b, NEW rs, rs \subseteq DOMAIN b.open, NEW h, NEW records, Follows(b, records)
  PROVE  Follows(Finalize(b, rs, h), records)
<1>1. \A rec \in records : rec.request \notin rs
  BY DEF Follows
<1> DEFINE f == Finalize(b, rs, h)
<1>2. /\ DOMAIN f.open = DOMAIN b.open \ rs /\ DOMAIN f.verdicts = DOMAIN b.verdicts \cup rs
      /\ \A r \in DOMAIN b.verdicts \ rs : f.verdicts[r] = b.verdicts[r]
  BY FinalizeFacts
<1> HIDE DEF f
<1>3. Follows(f, records)
  BY <1>1, <1>2 DEF Follows
<1> QED BY <1>3 DEF f

LEMMA FinalizeDueFacts ==
  ASSUME NEW b, Requests(b) \subseteq Request, NEW h \in Int, NEW records, Follows(b, records)
  PROVE  /\ DOMAIN FinalizeDue(b, h) = {"open", "verdicts"}
         /\ Requests(FinalizeDue(b, h)) = Requests(b)
         /\ Follows(FinalizeDue(b, h), records)
         /\ InTime(FinalizeDue(b, h), h)
<1> DEFINE rs == {r \in DOMAIN b.open : Due(b, r, h)}
<1>1. FinalizeDue(b, h) = Finalize(b, rs, h)
  BY DEF FinalizeDue
<1>2. \A r \in DOMAIN b.open \ rs : h <= Deadline(r)
  <2> SUFFICES ASSUME NEW r \in DOMAIN b.open, ~ (h > Deadline(r)) PROVE h <= Deadline(r)
    BY DEF Due
  <2>1. r \in Request
    BY DEF Requests
  <2>2. Deadline(r) \in Int
    BY <2>1, AuditAssumption DEF Deadline
  <2> QED BY <2>2
<1> HIDE DEF rs
<1>3. rs \subseteq DOMAIN b.open
  BY DEF rs
<1> DEFINE f == Finalize(b, rs, h)
<1>4. DOMAIN f = {"open", "verdicts"} /\ Requests(f) = Requests(b)
  BY <1>3, FinalizeFacts
<1>41. DOMAIN f.open = DOMAIN b.open \ rs
  BY <1>3, FinalizeFacts
<1>5. Follows(f, records)
  BY <1>3, FinalizeKeeps
<1> HIDE DEF f
<1>6. InTime(f, h)
  BY <1>2, <1>41 DEF InTime
<1> QED BY <1>1, <1>4, <1>5, <1>6 DEF f

\* The audits that records judge.
Judged(records) == {rec.request : rec \in records}

LEMMA IndexFacts ==
  ASSUME NEW b, NEW old, NEW recs, Follows(b, old), Unique(old \cup recs)
  PROVE  /\ DOMAIN Index(b, recs) = {"open", "verdicts"}
         /\ DOMAIN Index(b, recs).open \subseteq DOMAIN b.open
         /\ Requests(Index(b, recs)) = Requests(b) \cup Judged(recs)
         /\ Follows(Index(b, recs), old \cup recs)
<1> USE DEF Judged
<1> DEFINE i == Index(b, recs)
           new == {rec.request : rec \in recs}
<1>1. /\ DOMAIN i = {"open", "verdicts"} /\ DOMAIN i.open = DOMAIN b.open \ new
      /\ DOMAIN i.verdicts = DOMAIN b.verdicts \cup new
  BY DEF Index, Restrict
<1>2. \A r \in DOMAIN i.verdicts :
        i.verdicts[r] = IF \E rec \in recs : rec.request = r
                        THEN CHOOSE rec \in recs : rec.request = r ELSE b.verdicts[r]
  BY DEF Index
<1>3. Requests(i) = Requests(b) \cup new
  <2> HIDE DEF i, new
  <2> QED BY <1>1 DEF Requests
<1>4. ASSUME NEW rec \in old \cup recs
      PROVE  /\ rec.request \in DOMAIN i.verdicts \ DOMAIN i.open
             /\ i.verdicts[rec.request] = rec
  <2>1. CASE \E other \in recs : other.request = rec.request
    <3> DEFINE other == CHOOSE other \in recs : other.request = rec.request
    <3>1. other \in recs /\ other.request = rec.request
      BY <2>1
    <3>2. other = rec
      <4> HIDE DEF other
      <4> QED BY <3>1, <1>4 DEF Unique
    <3>3. rec.request \in new
      BY <3>1, <3>2
    <3> HIDE DEF i, new
    <3> QED BY <1>1, <1>2, <2>1, <3>2, <3>3
  <2>2. CASE ~ \E other \in recs : other.request = rec.request
    <3>1. rec \in old /\ rec.request \notin new
      BY <2>2
    <3> HIDE DEF i, new
    <3> QED BY <1>1, <1>2, <2>2, <3>1 DEF Follows
  <2> QED BY <2>1, <2>2
<1> QED BY <1>1, <1>3, <1>4 DEF Follows

LEMMA RetainFacts ==
  ASSUME NEW b, NEW br, NEW h
  PROVE  LET t == Retain(b, br, h) IN
         /\ Requests(t) \subseteq Requests(b)
         /\ Anchored(t, br, h)
BY DEF Retain, Restrict, Requests, Anchored

LEMMA RestoredFacts ==
  ASSUME NEW b, Requests(b) \subseteq Request, NEW br, NEW h \in Int
  PROVE  LET t == Restored(b, br, h) IN
         /\ DOMAIN t = {"open", "verdicts"}
         /\ Requests(t) \subseteq Requests(b)
         /\ Anchored(t, br, h) /\ InTime(t, h)
<1> DEFINE anchored == {r \in Requests(b) : Bound(br, h, r)}
           kept == {r \in anchored :
                      Cardinality({s \in anchored : Order[s] < Order[r]}) < MaxOpenAudits}
           sound == {r \in kept \cap DOMAIN b.verdicts : ValidRecord(b.verdicts[r])}
           Timely(f) == {v \in DOMAIN f : f[v].at <= h}
           Leading(f) == {v \in Timely(f) : \A w \in DOMAIN f : w < v => w \in Timely(f)}
           rebuilt == {r \in sound : LET f == b.verdicts[r].evidence IN Leading(f) = DOMAIN f}
           Votes(r) == IF r \in DOMAIN b.open THEN Restrict(b.open[r], Timely(b.open[r]))
                       ELSE IF r \in sound
                         THEN Restrict(b.verdicts[r].evidence, Leading(b.verdicts[r].evidence))
                         ELSE None
           t == [open |-> [r \in kept \ rebuilt |-> Votes(r)],
                 verdicts |-> Restrict(b.verdicts, rebuilt)]
<1>1. /\ kept \subseteq {r \in Requests(b) : Bound(br, h, r)} /\ rebuilt \subseteq kept
      /\ Restored(b, br, h) = FinalizeDue(t, h)
  <2>1. Restored(b, br, h) = FinalizeDue(t, h)
    BY DEF Restored
  <2> QED BY <2>1
<1> HIDE DEF Votes, kept, rebuilt
<1>2. Requests(t) = kept
  <2>1. DOMAIN t.open = kept \ rebuilt /\ DOMAIN t.verdicts = rebuilt
    BY DEF Restrict
  <2> HIDE DEF t
  <2> QED BY <1>1, <2>1 DEF Requests
<1>3. Follows(t, {})
  BY DEF Follows
<1> HIDE DEF t
<1>4. /\ DOMAIN FinalizeDue(t, h) = {"open", "verdicts"} /\ Requests(FinalizeDue(t, h)) = kept
      /\ InTime(FinalizeDue(t, h), h)
  BY <1>1, <1>2, <1>3, FinalizeDueFacts
<1> QED BY <1>1, <1>4 DEF Anchored
------------------------------------------------------------------------------
(* Steps *)

\* What a book has to be for a chain: the parts of AuditInv that speak of it.
Fits(b, br, blocks) ==
  /\ DOMAIN b = {"open", "verdicts"} /\ BookSound(b)
  /\ Follows(b, Committed(blocks))
  /\ Anchored(b, br, Fork + Len(blocks)) /\ InTime(b, Fork + Len(blocks))

LEMMA Heights ==
  ASSUME NEW br, NEW blocks, BranchSound(br, blocks)
  PROVE  Len(blocks) \in Nat /\ Fork + Len(blocks) \in Int
BY LenProperties, AuditAssumption DEF BranchSound, IsSequence

LEMMA BookFits ==
  ASSUME AuditInv, up
  PROVE  Fits(book, branch, tree[branch])
BY DEF AuditInv, BookInv, CommittedIsIndexed, EvidenceBound, OpenIsTimely, Fits, Follows,
       Anchored, InTime, Height

\* Conversely, a step into a book that fits the chain keeps the invariant.
LEMMA FitIsEnough ==
  ASSUME DOMAIN tree' = Branch, branch' \in Branch,
         \A br \in Branch : BranchSound(br, tree[br])', BookSound(saved'),
         Fits(book, branch, tree[branch])'
  PROVE  AuditInv'
BY DEF AuditInv, BookInv, CommittedIsIndexed, EvidenceBound, OpenIsTimely, Fits, Follows,
       Anchored, InTime, Height

\* A process that is down has an empty book.
LEMMA DownIsEnough ==
  ASSUME DOMAIN tree' = Branch, branch' \in Branch,
         \A br \in Branch : BranchSound(br, tree[br])', BookSound(saved'),
         ~ up', book' = EmptyBook
  PROVE  AuditInv'
<1>1. DOMAIN book' = {"open", "verdicts"} /\ BookSound(book)'
  BY DEF EmptyBook, None, BookSound, Requests
<1> QED BY <1>1 DEF AuditInv, BookInv, CommittedIsIndexed, EvidenceBound, OpenIsTimely

LEMMA RegisterKeeps ==
  ASSUME AuditInv, NEW r \in Request, RegisterRequest(r)
  PROVE  AuditInv'
<1>1. /\ up /\ up' = up /\ Bound(branch, Height, r) /\ Height <= Deadline(r) /\ r \notin Requests(book)
      /\ book' = [book EXCEPT !.open = [x \in DOMAIN @ \cup {r} |-> IF x = r THEN None ELSE @[x]]]
      /\ saved' = book' /\ UNCHANGED <<tree, branch>>
  BY DEF RegisterRequest, Persist
<1>2. Fits(book, branch, tree[branch])
  BY <1>1, BookFits
<1>3. /\ DOMAIN book' = {"open", "verdicts"} /\ book'.verdicts = book.verdicts
      /\ DOMAIN book'.open = DOMAIN book.open \cup {r}
  BY <1>1 DEF AuditInv
<1>4. Requests(book') = Requests(book) \cup {r}
  BY <1>3 DEF Requests
<1>5. BookSound(book')
  BY <1>2, <1>4 DEF Fits, BookSound
<1>6. Follows(book', Committed(tree[branch]))
  BY <1>1, <1>2, <1>3 DEF Fits, Follows, Requests
<1>7. Anchored(book', branch, Height) /\ InTime(book', Height)
  BY <1>1, <1>2, <1>3, <1>4 DEF Fits, Anchored, InTime, Height
<1>8. Fits(book', branch, tree[branch])
  BY <1>3, <1>5, <1>6, <1>7 DEF Fits, Height
<1> QED BY <1>1, <1>5, <1>8, FitIsEnough DEF AuditInv

LEMMA VoteKeeps ==
  ASSUME AuditInv, NEW r \in Request, NEW v \in Validator, SubmitVote(r, v)
  PROVE  AuditInv'
<1> DEFINE votes == [x \in DOMAIN book.open[r] \cup {v} |->
                       IF x = v THEN cast[r][v] ELSE book.open[r][x]]
<1>1. /\ up /\ up' = up /\ book' = [book EXCEPT !.open[r] = votes]
      /\ saved' = book' /\ UNCHANGED <<tree, branch>>
  BY DEF SubmitVote, Persist
<1> HIDE DEF votes
<1>2. Fits(book, branch, tree[branch])
  BY <1>1, BookFits
<1>3. /\ DOMAIN book' = {"open", "verdicts"} /\ book'.verdicts = book.verdicts
      /\ DOMAIN book'.open = DOMAIN book.open
  BY <1>1 DEF AuditInv
<1>4. Fits(book', branch, tree[branch])
  BY <1>2, <1>3 DEF Fits, BookSound, Follows, Anchored, InTime, Requests
<1> QED BY <1>1, <1>4, FitIsEnough DEF AuditInv, Fits

LEMMA HandleVerdictKeeps ==
  ASSUME AuditInv, NEW r \in Request, HandleVerdict(r)
  PROVE  AuditInv'
<1> DEFINE rs == {r} \cap DOMAIN book.open
<1>1. /\ up /\ up' = up /\ book' = Finalize(book, rs, Height)
      /\ saved' = book' \/ saved' = saved
      /\ UNCHANGED <<tree, branch>>
  BY DEF HandleVerdict, Persist
<1>2. Fits(book, branch, tree[branch])
  BY <1>1, BookFits
<1>3. rs \subseteq DOMAIN book.open
  OBVIOUS
<1> HIDE DEF rs
<1>4. /\ DOMAIN book' = {"open", "verdicts"}
      /\ DOMAIN book'.open \subseteq DOMAIN book.open
      /\ Requests(book') = Requests(book)
  <2>1. DOMAIN book' = {"open", "verdicts"} /\ Requests(book') = Requests(book)
    BY <1>1, <1>3, FinalizeFacts
  <2>2. DOMAIN book'.open = DOMAIN book.open \ rs
    BY <1>1, <1>3, FinalizeFacts
  <2> QED BY <2>1, <2>2
<1>5. Follows(book', Committed(tree[branch]))
  BY <1>1, <1>2, <1>3, FinalizeKeeps DEF Fits
<1>6. Fits(book', branch, tree[branch])
  BY <1>2, <1>4, <1>5 DEF Fits, BookSound, Anchored, InTime
<1> QED BY <1>1, <1>6, FitIsEnough DEF AuditInv, Fits

\* The next block of a branch leaves every branch sound.
LEMMA TreeGrows ==
  ASSUME AuditInv, NEW br \in Branch, NEW blocks, BranchSound(br, blocks),
         tree' = [tree EXCEPT ![br] = blocks]
  PROVE  /\ DOMAIN tree' = Branch /\ tree'[br] = blocks
         /\ \A x \in Branch : BranchSound(x, tree[x])'
<1>1. DOMAIN tree' = Branch /\ tree'[br] = blocks /\ \A x \in Branch \ {br} : tree'[x] = tree[x]
  BY DEF AuditInv
<1> QED BY <1>1 DEF AuditInv, BranchSound, Committed, Bound

LEMMA ApplyFits ==
  ASSUME AuditInv, up, NEW recs \in Bodies(branch, tree[branch])
  PROVE  /\ BranchSound(branch, Append(tree[branch], recs))
         /\ Fits(Applied(recs, Height + 1), branch, Append(tree[branch], recs))
<1> DEFINE s == tree[branch]
           t == Append(s, recs)
           h == Fork + Len(t)
<1>1. BranchSound(branch, s) /\ BranchSound(branch, t)
  BY BlockIsSound DEF AuditInv
<1>2. /\ Committed(t) = Committed(s) \cup recs /\ Len(t) = Len(s) + 1
      /\ Len(s) \in Nat /\ Fork \in Nat
  BY <1>1, AppendedBlock, Heights, AuditAssumption DEF BranchSound
<1>3. h = Height + 1 /\ h \in Int /\ Height \in Int /\ Height <= h
  <2>1. Height = Fork + Len(s)
    BY DEF Height
  <2> HIDE DEF t, s
  <2> QED BY <1>2, <2>1
<1>4. Fits(book, branch, s)
  BY BookFits
<1> HIDE DEF s, t, h
<1>5. Unique(Committed(s) \cup recs)
  BY <1>1, <1>2 DEF BranchSound, Unique
<1> DEFINE i == Index(book, recs)
<1>6. DOMAIN i = {"open", "verdicts"} /\ Requests(i) = Requests(book) \cup Judged(recs)
      /\ Follows(i, Committed(t))
  <2>1. Follows(book, Committed(s))
    BY <1>4 DEF Fits
  <2>2. DOMAIN i = {"open", "verdicts"}
    BY <2>1, <1>5, IndexFacts
  <2>3. Requests(i) = Requests(book) \cup Judged(recs)
    BY <2>1, <1>5, IndexFacts
  <2>4. Follows(i, Committed(s) \cup recs)
    BY <2>1, <1>5, IndexFacts
  <2> QED BY <1>2, <2>2, <2>3, <2>4
<1>7. \A rec \in recs : rec.request \in Request /\ Bound(branch, h, rec.request)
  BY <1>1, <1>2 DEF BranchSound, h
<1> HIDE DEF i
<1>8. BookSound(i)
  BY <1>4, <1>6, <1>7 DEF Fits, BookSound, Judged
<1>9. Anchored(i, branch, h)
  <2>1. \A r \in Requests(book) : r \in Request /\ Bound(branch, Height, r)
    BY <1>4 DEF Fits, BookSound, Anchored, Height, s
  <2>2. \A r \in Requests(book) : Bound(branch, h, r)
    BY <1>3, <2>1, BoundGrows
  <2> QED BY <1>6, <1>7, <2>2 DEF Anchored, Judged
<1> DEFINE f == FinalizeDue(i, h)
<1>10. /\ DOMAIN f = {"open", "verdicts"} /\ Requests(f) = Requests(i)
       /\ Follows(f, Committed(t)) /\ InTime(f, h)
  BY <1>3, <1>6, <1>8, FinalizeDueFacts DEF BookSound
<1> HIDE DEF f
<1>11. Fits(f, branch, t)
  BY <1>8, <1>9, <1>10 DEF Fits, BookSound, Anchored, h
<1>12. f = Applied(recs, Height + 1)
  BY <1>3 DEF f, i, Applied
<1> QED BY <1>1, <1>11, <1>12 DEF s, t

LEMMA ReorgFits ==
  ASSUME AuditInv, NEW br, NEW blocks, BranchSound(br, blocks)
  PROVE  Fits(Reconciled(br, blocks), br, blocks)
<1> DEFINE h == Fork + Len(blocks)
           k == Retain(book, br, h)
           f == FinalizeDue(k, h)
           i == Index(f, Committed(blocks))
<1>1. h \in Int
  BY Heights
<1> HIDE DEF h
<1>2. Requests(k) \subseteq Requests(book) /\ Anchored(k, br, h)
  BY RetainFacts
<1> HIDE DEF k
<1>3. Requests(k) \subseteq Request /\ Follows(k, {})
  BY <1>2 DEF AuditInv, BookSound, Follows
<1>4. Requests(f) = Requests(k) /\ Follows(f, {}) /\ InTime(f, h)
  BY <1>1, <1>3, FinalizeDueFacts
<1> HIDE DEF f
<1>5. Unique({} \cup Committed(blocks)) /\ {} \cup Committed(blocks) = Committed(blocks)
  BY DEF BranchSound, Unique
<1>6. /\ DOMAIN i = {"open", "verdicts"} /\ DOMAIN i.open \subseteq DOMAIN f.open
      /\ Requests(i) = Requests(f) \cup Judged(Committed(blocks))
      /\ Follows(i, Committed(blocks))
  <2>1. DOMAIN i = {"open", "verdicts"}
    BY <1>4, <1>5, IndexFacts
  <2>2. DOMAIN i.open \subseteq DOMAIN f.open
    BY <1>4, <1>5, IndexFacts
  <2>3. Requests(i) = Requests(f) \cup Judged(Committed(blocks))
    BY <1>4, <1>5, IndexFacts
  <2>4. Follows(i, {} \cup Committed(blocks))
    BY <1>4, <1>5, IndexFacts
  <2> QED BY <1>5, <2>1, <2>2, <2>3, <2>4
<1>7. i = Reconciled(br, blocks)
  BY DEF Reconciled, i, f, k, h
<1> HIDE DEF i
<1>8. BookSound(i) /\ Anchored(i, br, h)
  BY <1>2, <1>3, <1>4, <1>6 DEF BranchSound, BookSound, Anchored, h, Judged
<1>9. InTime(i, h)
  BY <1>4, <1>6 DEF InTime
<1> QED BY <1>6, <1>7, <1>8, <1>9 DEF Fits, h

LEMMA RestartFits ==
  ASSUME AuditInv
  PROVE  Fits(Index(Restored(saved, branch, Height), Committed(tree[branch])), branch, tree[branch])
<1> DEFINE h == Fork + Len(tree[branch])
           t == Restored(saved, branch, h)
           C == Committed(tree[branch])
           i == Index(t, C)
<1>1. h \in Int /\ BranchSound(branch, tree[branch])
  BY Heights DEF AuditInv
<1>2. h = Height
  BY DEF Height
<1> HIDE DEF h
<1>3. Requests(t) \subseteq Requests(saved) /\ Anchored(t, branch, h) /\ InTime(t, h)
  BY <1>1, RestoredFacts DEF AuditInv, BookSound
<1> HIDE DEF t
<1>4. Follows(t, {}) /\ Unique({} \cup C) /\ {} \cup C = C
  BY <1>1 DEF Follows, BranchSound, Unique
<1> HIDE DEF C
<1>5. /\ DOMAIN i = {"open", "verdicts"} /\ DOMAIN i.open \subseteq DOMAIN t.open
      /\ Requests(i) = Requests(t) \cup Judged(C) /\ Follows(i, C)
  <2>1. DOMAIN i = {"open", "verdicts"}
    BY <1>4, IndexFacts
  <2>2. DOMAIN i.open \subseteq DOMAIN t.open
    BY <1>4, IndexFacts
  <2>3. Requests(i) = Requests(t) \cup Judged(C)
    BY <1>4, IndexFacts
  <2>4. Follows(i, {} \cup C)
    BY <1>4, IndexFacts
  <2> QED BY <1>4, <2>1, <2>2, <2>3, <2>4
<1> HIDE DEF i
<1>6. BookSound(i) /\ Anchored(i, branch, h) /\ InTime(i, h)
  BY <1>1, <1>3, <1>5 DEF BranchSound, BookSound, AuditInv, Anchored, InTime, h, C, Judged
<1>7. Fits(i, branch, tree[branch])
  BY <1>5, <1>6 DEF Fits, h, C
<1> QED BY <1>2, <1>7 DEF i, t, C

LEMMA ApplyKeeps ==
  ASSUME AuditInv, NEW recs \in Bodies(branch, tree[branch]),
         ApplyBlock(recs) \/ CrashInApply(recs)
  PROVE  AuditInv'
<1> DEFINE t == Append(tree[branch], recs)
<1>1. up /\ tree' = [tree EXCEPT ![branch] = t] /\ branch' = branch /\ branch \in Branch
  BY DEF ApplyBlock, CrashInApply, AuditInv
<1>2. BranchSound(branch, t) /\ Fits(Applied(recs, Height + 1), branch, t)
  BY <1>1, ApplyFits
<1> HIDE DEF t
<1>3. DOMAIN tree' = Branch /\ tree'[branch] = t /\ \A br \in Branch : BranchSound(br, tree[br])'
  BY <1>1, <1>2, TreeGrows
<1>4. CASE ApplyBlock(recs)
  <2>1. book' = Applied(recs, Height + 1) /\ (saved' = book' \/ saved' = saved)
    BY <1>4 DEF ApplyBlock, Persist
  <2>2. Fits(book, branch, tree[branch])'
    BY <1>1, <1>2, <1>3, <2>1 DEF Fits, BookSound, Follows, Anchored, InTime, Committed, Bound,
       Requests, Deadline
  <2>3. BookSound(saved')
    BY <2>1, <2>2 DEF Fits, AuditInv
  <2> QED BY <1>1, <1>3, <2>2, <2>3, FitIsEnough
<1>5. CASE CrashInApply(recs)
  <2>1. ~ up' /\ book' = EmptyBook /\ saved' = saved
    BY <1>5 DEF CrashInApply
  <2> QED BY <1>1, <1>3, <2>1, DownIsEnough DEF AuditInv
<1> QED BY <1>4, <1>5

LEMMA ReorgKeeps ==
  ASSUME AuditInv, NEW br \in Branch \ {branch}, NEW extra \in 0 .. 1,
         NEW recs \in Bodies(br, Gap(br, extra)),
         Reorg(br, extra, recs) \/ CrashInReorg(br, extra, recs)
  PROVE  AuditInv'
<1> DEFINE t == Append(Gap(br, extra), recs)
<1>1. Missing(br, extra) > 0 /\ tree' = [tree EXCEPT ![br] = t]
  BY DEF Reorg, CrashInReorg, Overtakes
<1>2. BranchSound(br, t)
  BY <1>1, GapIsSound, BlockIsSound
<1> HIDE DEF t
<1>3. DOMAIN tree' = Branch /\ tree'[br] = t /\ \A x \in Branch : BranchSound(x, tree[x])'
  BY <1>1, <1>2, TreeGrows
<1>4. Fits(Reconciled(br, t), br, t)
  BY <1>2, ReorgFits
<1>5. BookSound(saved')
  <2>1. saved' = SavedInReorg(br, t)
    BY DEF Reorg, CrashInReorg, t
  <2>2. SavedInReorg(br, t) = saved \/ SavedInReorg(br, t) = Reconciled(br, t)
    BY DEF SavedInReorg
  <2> QED BY <1>4, <2>1, <2>2 DEF Fits, AuditInv
<1>6. CASE Reorg(br, extra, recs)
  <2>1. book' = Reconciled(br, t) /\ branch' = br
    BY <1>6 DEF Reorg, t
  <2>2. Fits(book, branch, tree[branch])'
    BY <1>3, <1>4, <2>1 DEF Fits, BookSound, Follows, Anchored, InTime, Committed, Bound,
       Requests, Deadline
  <2> QED BY <1>3, <1>5, <2>1, <2>2, FitIsEnough
<1>7. CASE CrashInReorg(br, extra, recs)
  <2>1. ~ up' /\ book' = EmptyBook /\ branch' = branch
    BY <1>7 DEF CrashInReorg
  <2> QED BY <1>3, <1>5, <2>1, DownIsEnough DEF AuditInv
<1> QED BY <1>6, <1>7

LEMMA RestartKeepsInv ==
  ASSUME AuditInv, Restart
  PROVE  AuditInv'
<1>1. /\ book' = Index(Restored(saved, branch, Height), Committed(tree[branch]))
      /\ saved' = book' /\ UNCHANGED <<tree, branch>>
  BY DEF Restart, Persist
<1>2. Fits(book', branch, tree[branch])
  BY <1>1, RestartFits
<1> QED BY <1>1, <1>2, FitIsEnough DEF AuditInv, Fits

LEMMA InitAudit == Init => AuditInv
<1> SUFFICES ASSUME Init PROVE AuditInv
  OBVIOUS
<1>1. \A br \in Branch : tree[br] = <<>>
  BY DEF Init
<1>2. IsSequence(<<>>) /\ Committed(<<>>) = {}
  BY DEF IsSequence, Committed, Range
<1>3. \A br \in Branch : BranchSound(br, tree[br])
  BY <1>1, <1>2 DEF BranchSound
<1>4. /\ DOMAIN book = {"open", "verdicts"} /\ DOMAIN book.open = {} /\ DOMAIN book.verdicts = {}
      /\ saved = book
  BY DEF Init, EmptyBook, None
<1>5. Requests(book) = {} /\ Requests(saved) = {}
  BY <1>4 DEF Requests
<1>6. Committed(tree[branch]) = {} /\ branch \in Branch /\ DOMAIN tree = Branch
  BY <1>1, <1>2 DEF Init
<1> QED BY <1>3, <1>4, <1>5, <1>6
        DEF AuditInv, BookInv, BookSound, CommittedIsIndexed, EvidenceBound, OpenIsTimely

LEMMA NextAudit == AuditInv /\ [Next]_vars => AuditInv'
<1> SUFFICES ASSUME AuditInv, [Next]_vars PROVE AuditInv'
  OBVIOUS
<1>1. ASSUME UNCHANGED <<tree, branch, up, book, saved>> PROVE AuditInv'
  BY <1>1 DEF AuditInv, BookInv, BranchSound, IsSequence, Committed, Bound, BookSound, Requests,
     CommittedIsIndexed, EvidenceBound, OpenIsTimely, Height, Deadline
<1>2. ASSUME NEW r \in Request, NEW v \in Validator, Cast(r, v) PROVE AuditInv'
  BY <1>1, <1>2 DEF Cast
<1>3. ASSUME Crash PROVE AuditInv'
  <2>1. UNCHANGED <<tree, branch, saved>> /\ ~ up' /\ book' = EmptyBook
    BY <1>3 DEF Crash
  <2>2. \A br \in Branch : BranchSound(br, tree[br])'
    BY <2>1 DEF AuditInv, BranchSound, IsSequence, Committed, Bound
  <2> QED BY <2>1, <2>2, DownIsEnough DEF AuditInv
<1> QED BY <1>1, <1>2, <1>3, VoteKeeps, RegisterKeeps, HandleVerdictKeeps, ApplyKeeps, ReorgKeeps,
           RestartKeepsInv DEF Next, vars

\* Whatever arrives, is reorganized or crashes: a node holds every verdict of its
\* chain as the chain has it, no evidence without its anchor, and no open audit
\* past its deadline.
THEOREM BookFollowsChain == Spec => []BookInv
<1>1. AuditInv => BookInv
  BY DEF AuditInv
<1> QED BY InitAudit, NextAudit, <1>1, PTL DEF Spec
------------------------------------------------------------------------------
(* The evidence: every vote a node, a file or a block holds was cast as it is *)
(* held, and what a node would finalize or commit is valid.                   *)

\* The votes of f are among those of g.
Within(f, g) == DOMAIN f \subseteq DOMAIN g /\ \A v \in DOMAIN f : f[v] = g[v]

VotesSound(c) ==
  /\ DOMAIN c = Request
  /\ \A r \in Request :
       /\ IsBallots(c[r])
       /\ \A v \in DOMAIN c[r] : c[r][v].at \in r.height .. Deadline(r)

RecordCast(rec, c) ==
  IsRecord(rec) /\ ValidRecord(rec) /\ Within(rec.evidence, c[rec.request])

BookCast(b, c) ==
  /\ IsBook(b)
  /\ \A r \in DOMAIN b.open : Within(b.open[r], c[r])
  /\ \A r \in DOMAIN b.verdicts : Within(b.verdicts[r].evidence, c[r])

\* At height h the open votes can be judged, and the verdicts committed.
Current(b, h) ==
  /\ \A r \in DOMAIN b.open : \A v \in DOMAIN b.open[r] : b.open[r][v].at <= h
  /\ \A r \in DOMAIN b.verdicts : ValidRecord(b.verdicts[r])

Covers(b, disk) ==
  \A r \in Requests(b) : r \in Requests(disk) /\ Within(Evidence(b, r), Evidence(disk, r))

VotesInv ==
  /\ AuditInv /\ up \in BOOLEAN
  /\ VotesSound(cast)
  /\ \A br \in Branch :
       /\ Fork + Len(tree[br]) <= MaxHeight
       /\ \A rec \in Committed(tree[br]) : RecordCast(rec, cast)
  /\ BookCast(book, cast) /\ BookCast(saved, cast)
  /\ Current(book, Height)
  /\ Covers(book, saved)
------------------------------------------------------------------------------
(* Operators on evidence *)

LEMMA RestrictWithin ==
  ASSUME NEW f, NEW g, Within(f, g), NEW S, S \subseteq DOMAIN f
  PROVE  Within(Restrict(f, S), g)
BY DEF Restrict, Within

\* Votes that were cast are ballots.
LEMMA WithinIsBallots ==
  ASSUME NEW g, IsBallots(g), NEW f, Within(f, g)
  PROVE  IsBallots(f)
<1>1. \A v \in DOMAIN f : f[v] \in Vote
  BY DEF Within, IsBallots, Range
<1> QED BY <1>1 DEF Within, IsBallots, Range

\* Each part of a book that holds only votes that were cast.
LEMMA BookParts ==
  ASSUME NEW b, NEW c
  PROVE  BookCast(b, c) <=>
    /\ Requests(b) \subseteq Request /\ DOMAIN b.open \cap DOMAIN b.verdicts = {}
    /\ \A r \in DOMAIN b.open : IsBallots(b.open[r]) /\ Within(b.open[r], c[r])
    /\ \A r \in DOMAIN b.verdicts :
         /\ IsRecord(b.verdicts[r]) /\ b.verdicts[r].request = r
         /\ Within(b.verdicts[r].evidence, c[r])
<1>1. (\A f \in Range(b.open) : IsBallots(f)) <=> (\A r \in DOMAIN b.open : IsBallots(b.open[r]))
  BY DEF Range
<1> QED BY <1>1 DEF BookCast, IsBook, Requests

LEMMA FinalizeEvidence ==
  ASSUME NEW b, NEW c, NEW h \in Int, h <= MaxHeight, VotesSound(c), BookCast(b, c), Current(b, h),
         NEW rs, rs \subseteq DOMAIN b.open, \A r \in rs : Due(b, r, h) /\ r.height <= h
  PROVE  /\ BookCast(Finalize(b, rs, h), c) /\ Current(Finalize(b, rs, h), h)
         /\ \A r \in Requests(b) : Evidence(Finalize(b, rs, h), r) = Evidence(b, r)
<1> DEFINE f == Finalize(b, rs, h)
<1>1. /\ DOMAIN f.open = DOMAIN b.open \ rs /\ DOMAIN f.verdicts = DOMAIN b.verdicts \cup rs
      /\ Requests(f) = Requests(b)
  BY FinalizeFacts
<1>2. \A r \in DOMAIN f.open : f.open[r] = b.open[r]
  BY DEF Finalize, Restrict
<1>3. ASSUME NEW r \in rs
      PROVE  /\ f.verdicts[r].request = r /\ f.verdicts[r].evidence = b.open[r]
             /\ f.verdicts[r].at = h
  <2> DEFINE rec == [request |-> r, evidence |-> b.open[r], at |-> h]
  <2>1. f.verdicts[r] = rec
    BY DEF Finalize
  <2>2. rec.request = r /\ rec.evidence = b.open[r] /\ rec.at = h
    OBVIOUS
  <2> HIDE DEF rec, f
  <2> QED BY <2>1, <2>2
<1>4. \A r \in DOMAIN b.verdicts \ rs : f.verdicts[r] = b.verdicts[r]
  BY DEF Finalize
<1> HIDE DEF f
<1>5. /\ Requests(b) \subseteq Request /\ DOMAIN b.open \cap DOMAIN b.verdicts = {}
      /\ \A r \in DOMAIN b.open : IsBallots(b.open[r]) /\ Within(b.open[r], c[r])
      /\ \A r \in DOMAIN b.verdicts :
           /\ IsRecord(b.verdicts[r]) /\ b.verdicts[r].request = r
           /\ Within(b.verdicts[r].evidence, c[r])
  BY BookParts
<1>6. ASSUME NEW r \in rs
      PROVE  /\ IsRecord(f.verdicts[r]) /\ f.verdicts[r].request = r /\ ValidRecord(f.verdicts[r])
             /\ Within(f.verdicts[r].evidence, c[r])
  <2>1. /\ f.verdicts[r].request = r /\ f.verdicts[r].evidence = b.open[r] /\ f.verdicts[r].at = h
    BY <1>3
  <2>2. /\ r \in Request /\ r.height \in Nat \ {0} /\ h \in 1 .. MaxHeight
    <3>1. r \in Request
      BY <1>5 DEF Requests
    <3>2. r.height \in Nat \ {0}
      BY <3>1, AuditAssumption
    <3> QED BY <3>1, <3>2, AuditAssumption
  <2>3. IsRecord(f.verdicts[r])
    BY <1>5, <2>1, <2>2 DEF IsRecord
  <2>4. Deadline(r) \in Int
    BY <2>2, AuditAssumption DEF Deadline
  <2>5. h <= Deadline(r) => DOMAIN b.open[r] = Validator
    BY <2>4 DEF Due
  <2>6. \A v \in DOMAIN b.open[r] : b.open[r][v].at \in r.height .. Deadline(r) /\ b.open[r][v].at <= h
    BY <1>5, <2>2 DEF VotesSound, Within, Current
  <2> QED BY <1>5, <2>1, <2>2, <2>3, <2>5, <2>6 DEF ValidRecord
<1>7. BookCast(f, c)
  BY <1>1, <1>2, <1>4, <1>5, <1>6, BookParts
<1>8. Current(f, h)
  BY <1>1, <1>2, <1>4, <1>6 DEF Current
<1>9. ASSUME NEW r \in Requests(b) PROVE Evidence(f, r) = Evidence(b, r)
  <2>1. CASE r \in rs
    <3>1. f.verdicts[r].evidence = b.open[r]
      BY <1>3, <2>1
    <3>2. r \in DOMAIN b.open /\ r \notin DOMAIN f.open
      BY <1>1, <2>1
    <3> QED BY <3>1, <3>2 DEF Evidence
  <2>2. CASE r \in DOMAIN b.open \ rs
    BY <1>1, <1>2, <2>2 DEF Evidence
  <2>3. CASE r \in DOMAIN b.verdicts \ DOMAIN b.open
    <3>1. r \notin DOMAIN f.open /\ f.verdicts[r] = b.verdicts[r]
      BY <1>1, <1>4, <2>3
    <3> QED BY <2>3, <3>1 DEF Evidence
  <2> QED BY <2>1, <2>2, <2>3 DEF Requests
<1> QED BY <1>7, <1>8, <1>9 DEF f

LEMMA FinalizeDueEvidence ==
  ASSUME NEW b, NEW c, NEW br, NEW h \in Int, h <= MaxHeight, VotesSound(c), BookCast(b, c),
         Current(b, h), Anchored(b, br, h)
  PROVE  /\ BookCast(FinalizeDue(b, h), c) /\ Current(FinalizeDue(b, h), h)
         /\ Requests(FinalizeDue(b, h)) = Requests(b)
         /\ \A r \in Requests(b) : Evidence(FinalizeDue(b, h), r) = Evidence(b, r)
<1> DEFINE rs == {r \in DOMAIN b.open : Due(b, r, h)}
<1>1. FinalizeDue(b, h) = Finalize(b, rs, h)
  BY DEF FinalizeDue
<1>2. rs \subseteq DOMAIN b.open /\ \A r \in rs : Due(b, r, h) /\ r.height <= h
  BY DEF Anchored, Requests, Bound
<1> HIDE DEF rs
<1>3. /\ BookCast(Finalize(b, rs, h), c) /\ Current(Finalize(b, rs, h), h)
      /\ \A r \in Requests(b) : Evidence(Finalize(b, rs, h), r) = Evidence(b, r)
  BY <1>2, FinalizeEvidence
<1>4. Requests(Finalize(b, rs, h)) = Requests(b)
  BY <1>2, FinalizeFacts
<1> QED BY <1>1, <1>3, <1>4

LEMMA IndexEvidence ==
  ASSUME NEW b, NEW c, NEW h, BookCast(b, c), Current(b, h),
         NEW recs, \A rec \in recs : RecordCast(rec, c)
  PROVE  BookCast(Index(b, recs), c) /\ Current(Index(b, recs), h)
<1> DEFINE i == Index(b, recs)
           new == {rec.request : rec \in recs}
<1>1. /\ DOMAIN i.open = DOMAIN b.open \ new /\ DOMAIN i.verdicts = DOMAIN b.verdicts \cup new
      /\ \A r \in DOMAIN i.open : i.open[r] = b.open[r]
  BY DEF Index, Restrict
<1>2. \A r \in DOMAIN i.verdicts :
        i.verdicts[r] = IF \E rec \in recs : rec.request = r
                        THEN CHOOSE rec \in recs : rec.request = r ELSE b.verdicts[r]
  BY DEF Index
<1> HIDE DEF i
<1>3. ASSUME NEW r \in new PROVE i.verdicts[r] \in recs /\ i.verdicts[r].request = r
  <2> DEFINE chosen == CHOOSE rec \in recs : rec.request = r
  <2>1. \E rec \in recs : rec.request = r
    OBVIOUS
  <2>2. chosen \in recs /\ chosen.request = r
    BY <2>1
  <2>3. r \in DOMAIN i.verdicts
    BY <1>1
  <2>4. i.verdicts[r] = chosen
    BY <1>2, <2>1, <2>3
  <2> HIDE DEF chosen
  <2> QED BY <2>2, <2>4
<1>4. \A r \in DOMAIN b.verdicts \ new : i.verdicts[r] = b.verdicts[r]
  BY <1>1, <1>2
<1>5. /\ Requests(b) \subseteq Request /\ DOMAIN b.open \cap DOMAIN b.verdicts = {}
      /\ \A r \in DOMAIN b.open : IsBallots(b.open[r]) /\ Within(b.open[r], c[r])
      /\ \A r \in DOMAIN b.verdicts :
           /\ IsRecord(b.verdicts[r]) /\ b.verdicts[r].request = r
           /\ Within(b.verdicts[r].evidence, c[r])
  BY BookParts
<1>6. new \subseteq Request
  BY DEF RecordCast, IsRecord
<1>7. \A r \in new :
        /\ IsRecord(i.verdicts[r]) /\ i.verdicts[r].request = r
        /\ Within(i.verdicts[r].evidence, c[r]) /\ ValidRecord(i.verdicts[r])
  BY <1>3 DEF RecordCast
<1> HIDE DEF new
<1>8. Requests(i) \subseteq Request /\ DOMAIN i.open \cap DOMAIN i.verdicts = {}
  BY <1>1, <1>5, <1>6 DEF Requests
<1>9. BookCast(i, c)
  BY <1>1, <1>4, <1>5, <1>7, <1>8, BookParts
<1>10. Current(i, h)
  BY <1>1, <1>4, <1>7 DEF Current
<1> QED BY <1>9, <1>10 DEF i

LEMMA RetainEvidence ==
  ASSUME NEW b, NEW c, NEW h, BookCast(b, c), Current(b, h), NEW br, NEW k
  PROVE  BookCast(Retain(b, br, k), c) /\ Current(Retain(b, br, k), h)
<1> DEFINE t == Retain(b, br, k)
<1>1. /\ DOMAIN t.open \subseteq DOMAIN b.open /\ DOMAIN t.verdicts \subseteq DOMAIN b.verdicts
      /\ \A r \in DOMAIN t.open : t.open[r] = b.open[r]
      /\ \A r \in DOMAIN t.verdicts : t.verdicts[r] = b.verdicts[r]
  BY DEF Retain, Restrict
<1> HIDE DEF t
<1>2. BookCast(t, c)
  <2>1. Requests(t) \subseteq Requests(b)
    BY <1>1 DEF Requests
  <2>2. /\ Requests(b) \subseteq Request /\ DOMAIN b.open \cap DOMAIN b.verdicts = {}
        /\ \A r \in DOMAIN b.open : IsBallots(b.open[r]) /\ Within(b.open[r], c[r])
        /\ \A r \in DOMAIN b.verdicts :
             /\ IsRecord(b.verdicts[r]) /\ b.verdicts[r].request = r
             /\ Within(b.verdicts[r].evidence, c[r])
    BY BookParts
  <2>3. DOMAIN t.open \cap DOMAIN t.verdicts = {}
    BY <1>1, <2>2
  <2> QED BY <1>1, <2>1, <2>2, <2>3, BookParts
<1>3. Current(t, h)
  BY <1>1 DEF Current
<1> QED BY <1>2, <1>3 DEF t

LEMMA RestoredEvidence ==
  ASSUME NEW b, NEW c, VotesSound(c), BookCast(b, c), NEW br, NEW h \in Int, h <= MaxHeight
  PROVE  BookCast(Restored(b, br, h), c) /\ Current(Restored(b, br, h), h)
<1> DEFINE anchored == {r \in Requests(b) : Bound(br, h, r)}
           kept == {r \in anchored :
                      Cardinality({s \in anchored : Order[s] < Order[r]}) < MaxOpenAudits}
           sound == {r \in kept \cap DOMAIN b.verdicts : ValidRecord(b.verdicts[r])}
           Timely(f) == {v \in DOMAIN f : f[v].at <= h}
           Leading(f) == {v \in Timely(f) : \A w \in DOMAIN f : w < v => w \in Timely(f)}
           rebuilt == {r \in sound : LET f == b.verdicts[r].evidence IN Leading(f) = DOMAIN f}
           Votes(r) == IF r \in DOMAIN b.open THEN Restrict(b.open[r], Timely(b.open[r]))
                       ELSE IF r \in sound
                         THEN Restrict(b.verdicts[r].evidence, Leading(b.verdicts[r].evidence))
                         ELSE None
           open == [r \in kept \ rebuilt |-> Votes(r)]
           verdicts == Restrict(b.verdicts, rebuilt)
           t == [open |-> open, verdicts |-> verdicts]
<1>1. Restored(b, br, h) = FinalizeDue(t, h)
  BY DEF Restored
<1>2. /\ kept \subseteq Requests(b) /\ \A r \in kept : Bound(br, h, r)
      /\ sound \subseteq kept \cap DOMAIN b.verdicts /\ rebuilt \subseteq sound
      /\ \A r \in sound : ValidRecord(b.verdicts[r])
  OBVIOUS
<1>3. /\ Requests(b) \subseteq Request /\ DOMAIN b.open \cap DOMAIN b.verdicts = {}
      /\ \A r \in DOMAIN b.open : IsBallots(b.open[r]) /\ Within(b.open[r], c[r])
      /\ \A r \in DOMAIN b.verdicts :
           /\ IsRecord(b.verdicts[r]) /\ b.verdicts[r].request = r
           /\ Within(b.verdicts[r].evidence, c[r])
  BY BookParts
\* The votes an audit is restored with were cast, and none is from the future.
<1>4. ASSUME NEW r \in kept
      PROVE  Within(Votes(r), c[r]) /\ \A v \in DOMAIN Votes(r) : Votes(r)[v].at <= h
  <2>1. CASE r \in DOMAIN b.open
    <3> DEFINE f == b.open[r]
               g == Restrict(f, Timely(f))
    <3>1. Votes(r) = g
      BY <2>1
    <3>2. \A v \in DOMAIN g : g[v].at <= h
      BY DEF Restrict
    <3>3. Within(f, c[r]) /\ Timely(f) \subseteq DOMAIN f
      BY <1>3, <2>1
    <3>4. Within(g, c[r])
      <4> HIDE DEF f, Timely
      <4> QED BY <3>3, RestrictWithin
    <3> HIDE DEF g, Votes
    <3> QED BY <3>1, <3>2, <3>4
  <2>2. CASE r \notin DOMAIN b.open /\ r \in sound
    <3> DEFINE f == b.verdicts[r].evidence
               g == Restrict(f, Leading(f))
    <3>1. Votes(r) = g
      BY <2>2
    <3>2. \A v \in DOMAIN g : g[v].at <= h
      BY DEF Restrict
    <3>3. r \in DOMAIN b.verdicts
      BY <2>2
    <3>4. Within(f, c[r]) /\ Leading(f) \subseteq DOMAIN f
      BY <1>3, <3>3
    <3>5. Within(g, c[r])
      <4> HIDE DEF f, Leading
      <4> QED BY <3>4, RestrictWithin
    <3> HIDE DEF g, Votes
    <3> QED BY <3>1, <3>2, <3>5
  <2>3. CASE r \notin DOMAIN b.open /\ r \notin sound
    <3>1. Votes(r) = None
      BY <2>3
    <3>2. DOMAIN None = {}
      BY DEF None
    <3> HIDE DEF Votes
    <3> QED BY <3>1, <3>2 DEF Within
  <2> QED BY <2>1, <2>2, <2>3
<1> HIDE DEF Votes, anchored, kept, sound, rebuilt, Timely, Leading
<1>5. /\ DOMAIN t.open = kept \ rebuilt /\ \A r \in DOMAIN t.open : t.open[r] = Votes(r)
      /\ DOMAIN t.verdicts = rebuilt /\ \A r \in rebuilt : t.verdicts[r] = b.verdicts[r]
  BY DEF Restrict
<1> HIDE DEF t
<1>6. BookCast(t, c)
  <2>1. Requests(t) \subseteq Request /\ DOMAIN t.open \cap DOMAIN t.verdicts = {}
    BY <1>2, <1>3, <1>5 DEF Requests
  <2>2. \A r \in DOMAIN t.open : Within(t.open[r], c[r]) /\ IsBallots(c[r])
    BY <1>4, <1>5, <2>1 DEF VotesSound, Requests
  <2>3. \A r \in DOMAIN t.open : IsBallots(t.open[r])
    BY <2>2, WithinIsBallots
  <2> QED BY <1>2, <1>3, <1>5, <2>1, <2>2, <2>3, BookParts
<1>7. Current(t, h)
  BY <1>2, <1>4, <1>5 DEF Current
<1>8. Anchored(t, br, h)
  BY <1>2, <1>5 DEF Anchored, Requests
<1> QED BY <1>1, <1>6, <1>7, <1>8, FinalizeDueEvidence

LEMMA EmptyEvidence ==
  ASSUME NEW c, NEW h, NEW disk
  PROVE  BookCast(EmptyBook, c) /\ Current(EmptyBook, h) /\ Covers(EmptyBook, disk)
<1>1. DOMAIN EmptyBook.open = {} /\ DOMAIN EmptyBook.verdicts = {}
  BY DEF EmptyBook, None
<1>2. Requests(EmptyBook) = {}
  BY <1>1 DEF Requests
<1> QED BY <1>1, <1>2, BookParts DEF Current, Covers

LEMMA CoversItself ==
  ASSUME NEW b
  PROVE  Covers(b, b)
BY DEF Covers, Within

\* A book with the same evidence is covered as well.
LEMMA CoversEqual ==
  ASSUME NEW b, NEW disk, Covers(b, disk), NEW b1, Requests(b1) = Requests(b),
         \A r \in Requests(b) : Evidence(b1, r) = Evidence(b, r)
  PROVE  Covers(b1, disk)
BY DEF Covers

LEMMA IndexNothing ==
  ASSUME NEW b
  PROVE  /\ Requests(Index(b, {})) = Requests(b)
         /\ \A r \in Requests(b) : Evidence(Index(b, {}), r) = Evidence(b, r)
<1> DEFINE i == Index(b, {})
<1>1. /\ DOMAIN i.open = DOMAIN b.open /\ DOMAIN i.verdicts = DOMAIN b.verdicts
      /\ \A r \in DOMAIN b.open : i.open[r] = b.open[r]
      /\ \A r \in DOMAIN b.verdicts : i.verdicts[r] = b.verdicts[r]
  BY DEF Index, Restrict
<1> HIDE DEF i
<1>2. Requests(i) = Requests(b) /\ \A r \in Requests(b) : Evidence(i, r) = Evidence(b, r)
  BY <1>1 DEF Requests, Evidence
<1> QED BY <1>2 DEF i

\* Another node commits no vote that was not cast.
LEMMA BodiesCast ==
  ASSUME VotesSound(cast), NEW br, NEW s, Fork + Len(s) \in Int, Fork + Len(s) <= MaxHeight,
         NEW recs \in Bodies(br, s)
  PROVE  \A rec \in recs : RecordCast(rec, cast)
<1> SUFFICES ASSUME NEW rec \in recs PROVE RecordCast(rec, cast)
  OBVIOUS
<1>1. rec \in ForeignVerdicts(br, s)
  BY DEF Bodies
<1>2. PICK r \in Request :
        rec \in [request : {r}, at : r.height .. Fork + Len(s),
                evidence : {Restrict(cast[r], S) : S \in SUBSET DOMAIN cast[r]}]
  BY <1>1 DEF ForeignVerdicts
<1>3. rec.request = r /\ rec.at \in r.height .. Fork + Len(s)
  BY <1>2
<1>4. PICK S \in SUBSET DOMAIN cast[r] : rec.evidence = Restrict(cast[r], S)
  BY <1>2
<1>5. Within(rec.evidence, cast[r])
  BY <1>4 DEF Within, Restrict
<1>6. IsBallots(rec.evidence)
  BY <1>5, WithinIsBallots DEF VotesSound
<1>7. rec.at \in 1 .. MaxHeight
  <2>1. r.height \in Nat \ {0}
    BY AuditAssumption
  <2> QED BY <1>3, <2>1, AuditAssumption
<1>8. ValidRecord(rec)
  BY <1>1 DEF ForeignVerdicts, Committable
<1> QED BY <1>3, <1>5, <1>6, <1>7, <1>8 DEF RecordCast, IsRecord
------------------------------------------------------------------------------
(* Steps *)

LEMMA VotesHeights ==
  ASSUME VotesInv
  PROVE  Height \in Int /\ Height <= MaxHeight /\ branch \in Branch
BY Heights DEF VotesInv, AuditInv, Height

\* A step of the book alone that also saves it.
LEMMA SavedStep ==
  ASSUME VotesInv, AuditInv', UNCHANGED <<tree, branch, cast>>, up' \in BOOLEAN,
         saved' = book', BookCast(book', cast), Current(book', Height)
  PROVE  VotesInv'
<1>1. Height' = Height
  BY DEF Height
<1> QED BY <1>1, CoversItself DEF VotesInv, RecordCast

LEMMA CastVotes ==
  ASSUME VotesInv, NEW r \in Request, NEW v \in Validator, Cast(r, v), AuditInv'
  PROVE  VotesInv'
<1>1. PICK vote \in Vote :
        /\ vote.at \in {Height, Height + 1} \cap (r.height .. Deadline(r))
        /\ cast' = [cast EXCEPT ![r] =
             [x \in DOMAIN @ \cup {v} |-> IF x = v THEN vote ELSE @[x]]]
  BY DEF Cast
<1>2. v \notin DOMAIN cast[r] /\ UNCHANGED <<tree, branch, up, book, saved>>
  BY DEF Cast
<1>3. /\ DOMAIN cast' = Request /\ \A x \in Request \ {r} : cast'[x] = cast[x]
      /\ cast'[r] = [x \in DOMAIN cast[r] \cup {v} |-> IF x = v THEN vote ELSE cast[r][x]]
  BY <1>1 DEF VotesInv, VotesSound
<1>4. /\ DOMAIN cast'[r] = DOMAIN cast[r] \cup {v} /\ cast'[r][v] = vote
      /\ \A x \in DOMAIN cast[r] : cast'[r][x] = cast[r][x]
  BY <1>2, <1>3
<1>5. \A x \in Request : Within(cast[x], cast'[x])
  BY <1>3, <1>4 DEF Within
<1>6. VotesSound(cast')
  <2>1. IsBallots(cast'[r])
    <3>1. DOMAIN cast[r] \subseteq Validator /\ \A x \in DOMAIN cast[r] : cast[r][x] \in Vote
      BY DEF VotesInv, VotesSound, IsBallots, Range
    <3>2. DOMAIN cast'[r] \subseteq Validator /\ \A x \in DOMAIN cast'[r] : cast'[r][x] \in Vote
      BY <1>4, <3>1
    <3> QED BY <3>2 DEF IsBallots, Range
  <2>2. \A x \in DOMAIN cast'[r] : cast'[r][x].at \in r.height .. Deadline(r)
    BY <1>1, <1>4 DEF VotesInv, VotesSound
  <2> QED BY <1>3, <2>1, <2>2 DEF VotesInv, VotesSound
<1>7. ASSUME NEW b, BookCast(b, cast) PROVE BookCast(b, cast')
  <2>1. \A x \in DOMAIN b.open \cup DOMAIN b.verdicts : x \in Request
    BY <1>7 DEF BookCast, IsBook
  <2> QED BY <1>5, <1>7, <2>1 DEF BookCast, Within
<1>8. ASSUME NEW rec, RecordCast(rec, cast) PROVE RecordCast(rec, cast')
  BY <1>5, <1>8 DEF RecordCast, IsRecord, Within
<1>9. Height' = Height
  BY <1>2 DEF Height
<1>10. /\ up' \in BOOLEAN /\ BookCast(book', cast') /\ BookCast(saved', cast')
       /\ Current(book', Height') /\ Covers(book', saved')
  BY <1>2, <1>7, <1>9 DEF VotesInv
<1>11. \A br \in Branch :
         /\ Fork + Len(tree'[br]) <= MaxHeight
         /\ \A rec \in Committed(tree'[br]) : RecordCast(rec, cast')
  BY <1>2, <1>8 DEF VotesInv
<1> QED BY <1>6, <1>10, <1>11 DEF VotesInv

LEMMA RegisterVotes ==
  ASSUME VotesInv, NEW r \in Request, RegisterRequest(r), AuditInv'
  PROVE  VotesInv'
<1>1. /\ up' = up /\ r \notin Requests(book)
      /\ book' = [book EXCEPT !.open = [x \in DOMAIN @ \cup {r} |-> IF x = r THEN None ELSE @[x]]]
      /\ saved' = book' /\ UNCHANGED <<tree, branch, cast>>
  BY DEF RegisterRequest, Persist
<1>2. /\ book'.verdicts = book.verdicts /\ DOMAIN book'.open = DOMAIN book.open \cup {r}
      /\ book'.open[r] = None /\ \A x \in DOMAIN book.open \ {r} : book'.open[x] = book.open[x]
  BY <1>1 DEF VotesInv, AuditInv
<1>3. DOMAIN None = {} /\ IsBallots(None) /\ Within(None, cast[r])
  BY DEF None, IsBallots, Range, Within
<1>4. BookCast(book', cast)
  <2>1. BookCast(book, cast)
    BY DEF VotesInv
  <2>2. /\ Requests(book) \subseteq Request /\ DOMAIN book.open \cap DOMAIN book.verdicts = {}
        /\ \A x \in DOMAIN book.open : IsBallots(book.open[x]) /\ Within(book.open[x], cast[x])
        /\ \A x \in DOMAIN book.verdicts :
             /\ IsRecord(book.verdicts[x]) /\ book.verdicts[x].request = x
             /\ Within(book.verdicts[x].evidence, cast[x])
    BY <2>1, BookParts
  <2>3. /\ Requests(book') \subseteq Request /\ DOMAIN book'.open \cap DOMAIN book'.verdicts = {}
    BY <1>1, <1>2, <2>2 DEF Requests
  <2>4. \A x \in DOMAIN book'.open : IsBallots(book'.open[x]) /\ Within(book'.open[x], cast[x])
    BY <1>2, <1>3, <2>2
  <2> QED BY <1>2, <2>2, <2>3, <2>4, BookParts
<1>5. Current(book', Height)
  BY <1>2, <1>3 DEF VotesInv, Current
<1> QED BY <1>1, <1>4, <1>5, SavedStep DEF VotesInv

LEMMA SubmitVotes ==
  ASSUME VotesInv, NEW r \in Request, NEW v \in Validator, SubmitVote(r, v), AuditInv'
  PROVE  VotesInv'
<1> DEFINE votes == [x \in DOMAIN book.open[r] \cup {v} |->
                       IF x = v THEN cast[r][v] ELSE book.open[r][x]]
<1>1. /\ up' = up /\ r \in DOMAIN book.open /\ v \in DOMAIN cast[r] /\ cast[r][v].at <= Height
      /\ book' = [book EXCEPT !.open[r] = votes]
      /\ saved' = book' /\ UNCHANGED <<tree, branch, cast>>
  BY DEF SubmitVote, Persist
<1>2. /\ DOMAIN votes = DOMAIN book.open[r] \cup {v}
      /\ votes[v] = cast[r][v] /\ \A x \in DOMAIN book.open[r] \ {v} : votes[x] = book.open[r][x]
  OBVIOUS
<1> HIDE DEF votes
<1>3. /\ book'.verdicts = book.verdicts /\ DOMAIN book'.open = DOMAIN book.open
      /\ book'.open[r] = votes /\ \A x \in DOMAIN book.open \ {r} : book'.open[x] = book.open[x]
  BY <1>1 DEF VotesInv, AuditInv
<1>4. BookCast(book, cast) /\ Current(book, Height) /\ VotesSound(cast)
  BY DEF VotesInv
<1>5. Within(votes, cast[r])
  BY <1>1, <1>2, <1>4 DEF BookCast, Within
<1>6. IsBallots(votes)
  BY <1>4, <1>5, WithinIsBallots DEF VotesSound
<1>7. BookCast(book', cast)
  <2>1. /\ Requests(book) \subseteq Request /\ DOMAIN book.open \cap DOMAIN book.verdicts = {}
        /\ \A x \in DOMAIN book.open : IsBallots(book.open[x]) /\ Within(book.open[x], cast[x])
        /\ \A x \in DOMAIN book.verdicts :
             /\ IsRecord(book.verdicts[x]) /\ book.verdicts[x].request = x
             /\ Within(book.verdicts[x].evidence, cast[x])
    BY <1>4, BookParts
  <2>2. Requests(book') = Requests(book)
    BY <1>3 DEF Requests
  <2> QED BY <1>3, <1>5, <1>6, <2>1, <2>2, BookParts
<1>8. Current(book', Height)
  <2>1. \A x \in DOMAIN votes : votes[x].at <= Height
    BY <1>1, <1>2, <1>4 DEF Current
  <2> QED BY <1>3, <1>4, <2>1 DEF Current
<1> QED BY <1>1, <1>7, <1>8, SavedStep DEF VotesInv

LEMMA HandleVerdictVotes ==
  ASSUME VotesInv, NEW r \in Request, HandleVerdict(r), AuditInv'
  PROVE  VotesInv'
<1> DEFINE rs == {r} \cap DOMAIN book.open
<1>1. /\ up /\ up' = up /\ book' = Finalize(book, rs, Height)
      /\ saved' = book' \/ saved' = saved
      /\ UNCHANGED <<tree, branch, cast>>
  BY DEF HandleVerdict, Persist
<1>2. BookCast(book, cast) /\ Current(book, Height) /\ VotesSound(cast) /\ Covers(book, saved)
  BY DEF VotesInv
<1>3. /\ rs \subseteq DOMAIN book.open
      /\ \A x \in rs : Due(book, x, Height) /\ x.height <= Height
  BY <1>1 DEF HandleVerdict, VotesInv, AuditInv, BookInv, EvidenceBound, Requests, Bound
<1> HIDE DEF rs
<1>4. /\ BookCast(book', cast) /\ Current(book', Height)
      /\ \A x \in Requests(book) : Evidence(book', x) = Evidence(book, x)
  BY <1>1, <1>2, <1>3, FinalizeEvidence, VotesHeights
<1>5. Requests(book') = Requests(book)
  BY <1>1, <1>3, FinalizeFacts
<1>6. CASE saved' = book'
  BY <1>1, <1>4, <1>6, SavedStep DEF VotesInv
<1>7. CASE saved' = saved
  <2>1. Covers(book', saved')
    BY <1>2, <1>4, <1>5, <1>7, CoversEqual
  <2>2. Height' = Height
    BY <1>1 DEF Height
  <2> QED BY <1>1, <1>4, <1>7, <2>1, <2>2 DEF VotesInv
<1> QED BY <1>1, <1>6, <1>7

\* The blocks of a branch that grows hold only votes that were cast.
LEMMA TreeCast ==
  ASSUME VotesInv, NEW br \in Branch, NEW blocks, UNCHANGED cast,
         tree' = [tree EXCEPT ![br] = blocks], Fork + Len(blocks) <= MaxHeight,
         \A rec \in Committed(blocks) : RecordCast(rec, cast)
  PROVE  \A x \in Branch :
           /\ Fork + Len(tree'[x]) <= MaxHeight
           /\ \A rec \in Committed(tree'[x]) : RecordCast(rec, cast')
<1>1. tree'[br] = blocks /\ \A x \in Branch \ {br} : tree'[x] = tree[x]
  BY DEF VotesInv, AuditInv
<1> QED BY <1>1 DEF VotesInv

LEMMA ApplyVotes ==
  ASSUME VotesInv, NEW recs \in Bodies(branch, tree[branch]),
         ApplyBlock(recs) \/ CrashInApply(recs), AuditInv'
  PROVE  VotesInv'
<1> DEFINE s == tree[branch]
           t == Append(s, recs)
           i == Index(book, recs)
<1>1. /\ up /\ Height < MaxHeight /\ tree' = [tree EXCEPT ![branch] = t]
      /\ branch' = branch /\ UNCHANGED cast /\ up' \in BOOLEAN
  BY DEF ApplyBlock, CrashInApply, VotesInv
<1>2. /\ IsSequence(t) /\ Len(t) = Len(s) + 1 /\ Committed(t) = Committed(s) \cup recs
  BY AppendedBlock DEF VotesInv, AuditInv, BranchSound
<1>3. /\ Height \in Int /\ Height <= MaxHeight /\ branch \in Branch /\ Height = Fork + Len(s)
      /\ Len(s) \in Nat /\ MaxHeight \in Nat /\ Fork \in Nat
  BY VotesHeights, Heights, AuditAssumption DEF VotesInv, AuditInv, Height
<1>4. Fork + Len(t) = Height + 1 /\ Height + 1 <= MaxHeight /\ Height + 1 \in Int
  <2> HIDE DEF s, t
  <2> QED BY <1>1, <1>2, <1>3
<1>5. \A rec \in recs : RecordCast(rec, cast)
  BY <1>3, BodiesCast DEF VotesInv
<1>6. \A x \in Branch :
        /\ Fork + Len(tree'[x]) <= MaxHeight
        /\ \A rec \in Committed(tree'[x]) : RecordCast(rec, cast')
  <2>1. \A rec \in Committed(t) : RecordCast(rec, cast)
    BY <1>2, <1>3, <1>5 DEF VotesInv
  <2>2. Fork + Len(t) <= MaxHeight
    BY <1>4
  <2> HIDE DEF t
  <2> QED BY <1>1, <1>3, <2>1, <2>2, TreeCast
<1>7. tree'[branch] = t
  BY <1>1, <1>3 DEF VotesInv, AuditInv
<1>8. Height' = Height + 1
  BY <1>1, <1>4, <1>7 DEF Height
<1>9. BookCast(i, cast) /\ Current(i, Height)
  BY <1>5, IndexEvidence DEF VotesInv
<1>10. Current(i, Height + 1)
  <2>1. \A r \in DOMAIN i.open : \A v \in DOMAIN i.open[r] : i.open[r][v].at \in Int
    BY <1>9 DEF BookCast, IsBook, IsBallots, Range, Vote
  <2> HIDE DEF i
  <2> QED BY <1>3, <1>9, <2>1 DEF Current
<1>11. CASE CrashInApply(recs)
  <2>1. book' = EmptyBook /\ saved' = saved
    BY <1>11 DEF CrashInApply
  <2> QED BY <1>1, <1>6, <2>1, EmptyEvidence DEF VotesInv
<1>12. CASE ApplyBlock(recs)
  <2> DEFINE f == FinalizeDue(i, Height + 1)
  <2>1. book' = f /\ (saved' = book' \/ (recs = {} /\ saved' = saved))
    BY <1>12 DEF ApplyBlock, Persist, Applied
  <2>2. Anchored(i, branch, Height + 1)
    <3>1. Requests(f) = Requests(i)
      <4>1. Requests(i) \subseteq Request
        BY <1>9, BookParts
      <4>2. Follows(i, {})
        BY DEF Follows
      <4> HIDE DEF i
      <4> QED BY <1>4, <4>1, <4>2, FinalizeDueFacts
    <3>2. up'
      BY <1>12 DEF ApplyBlock
    <3>3. Anchored(book', branch', Height')
      <4>1. EvidenceBound'
        BY DEF AuditInv, BookInv
      <4> QED BY <3>2, <4>1 DEF EvidenceBound, Anchored, Bound
    <3> HIDE DEF f, i
    <3> QED BY <1>1, <1>8, <2>1, <3>1, <3>3 DEF Anchored
  <2> HIDE DEF i
  <2>3. /\ BookCast(f, cast) /\ Current(f, Height + 1) /\ Requests(f) = Requests(i)
        /\ \A r \in Requests(i) : Evidence(f, r) = Evidence(i, r)
    BY <1>4, <1>9, <1>10, <2>2, FinalizeDueEvidence DEF VotesInv
  <2> HIDE DEF f
  <2>4. Covers(book', saved') /\ BookCast(saved', cast)
    <3>1. CASE saved' = book'
      BY <2>1, <2>3, <3>1, CoversItself
    <3>2. CASE recs = {} /\ saved' = saved
      <4>1. /\ Requests(i) = Requests(book)
            /\ \A r \in Requests(book) : Evidence(i, r) = Evidence(book, r)
        BY <3>2, IndexNothing DEF i
      <4>2. Covers(f, saved)
        BY <2>3, <4>1, CoversEqual DEF VotesInv
      <4> QED BY <2>1, <3>2, <4>2 DEF VotesInv
    <3> QED BY <2>1, <3>1, <3>2
  <2> QED BY <1>1, <1>6, <1>8, <2>1, <2>3, <2>4 DEF VotesInv
<1> QED BY <1>11, <1>12

\* What a reorg makes of the book, in memory and on disk.
LEMMA ReconciledVotes ==
  ASSUME VotesInv, NEW br, NEW blocks, BranchSound(br, blocks),
         Fork + Len(blocks) <= MaxHeight, Height <= Fork + Len(blocks),
         \A rec \in Committed(blocks) : RecordCast(rec, cast)
  PROVE  /\ BookCast(Reconciled(br, blocks), cast)
         /\ Current(Reconciled(br, blocks), Fork + Len(blocks))
         /\ BookCast(SavedInReorg(br, blocks), cast)
         /\ Covers(Reconciled(br, blocks), SavedInReorg(br, blocks))
<1> DEFINE h == Fork + Len(blocks)
           k == Retain(book, br, h)
           f == FinalizeDue(k, h)
           i == Index(f, Committed(blocks))
<1>1. h \in Int /\ h <= MaxHeight /\ Height <= h /\ Height \in Int
  BY Heights, VotesHeights
<1>2. Reconciled(br, blocks) = i
  BY DEF Reconciled
<1>3. SavedInReorg(br, blocks) = IF k = book /\ f = k /\ Committed(blocks) = {}
                                 THEN saved ELSE i
  BY <1>2 DEF SavedInReorg
<1> HIDE DEF h
<1>4. BookCast(k, cast) /\ Current(k, Height) /\ Anchored(k, br, h)
  BY RetainEvidence, RetainFacts DEF VotesInv
<1> HIDE DEF k
<1>5. Current(k, h)
  <2>1. \A r \in DOMAIN k.open : \A v \in DOMAIN k.open[r] : k.open[r][v].at \in Int
    BY <1>4 DEF BookCast, IsBook, IsBallots, Range, Vote
  <2> QED BY <1>1, <1>4, <2>1 DEF Current
<1>6. BookCast(f, cast) /\ Current(f, h)
  BY <1>1, <1>4, <1>5, FinalizeDueEvidence DEF VotesInv
<1> HIDE DEF f
<1>7. BookCast(i, cast) /\ Current(i, h)
  BY <1>6, IndexEvidence
<1>8. Committed(blocks) = {} => Requests(i) = Requests(f)
                               /\ \A r \in Requests(f) : Evidence(i, r) = Evidence(f, r)
  BY IndexNothing
<1> HIDE DEF i
<1>9. CASE k = book /\ f = k /\ Committed(blocks) = {}
  <2>1. Covers(i, saved)
    BY <1>8, <1>9, CoversEqual DEF VotesInv
  <2> QED BY <1>2, <1>3, <1>7, <1>9, <2>1 DEF VotesInv, h
<1>10. CASE ~ (k = book /\ f = k /\ Committed(blocks) = {})
  BY <1>2, <1>3, <1>7, <1>10, CoversItself DEF h
<1> QED BY <1>9, <1>10

LEMMA ReorgVotes ==
  ASSUME VotesInv, NEW br \in Branch \ {branch}, NEW extra \in 0 .. 1,
         NEW recs \in Bodies(br, Gap(br, extra)),
         Reorg(br, extra, recs) \/ CrashInReorg(br, extra, recs), AuditInv'
  PROVE  VotesInv'
<1> DEFINE g == Gap(br, extra)
           t == Append(g, recs)
<1>1. /\ Missing(br, extra) > 0 /\ Height + extra <= MaxHeight
      /\ tree' = [tree EXCEPT ![br] = t] /\ UNCHANGED cast /\ up' \in BOOLEAN
      /\ saved' = SavedInReorg(br, t)
  BY DEF Reorg, CrashInReorg, Overtakes, VotesInv
<1>2. BranchSound(br, g) /\ Fork + Len(g) + 1 = Height + extra /\ BranchSound(br, t)
  BY <1>1, GapIsSound, BlockIsSound DEF VotesInv
<1>3. Len(t) = Len(g) + 1 /\ Committed(t) = Committed(g) \cup recs
  BY <1>2, AppendedBlock DEF BranchSound
<1>4. /\ Len(g) \in Nat /\ Fork \in Nat /\ MaxHeight \in Nat /\ Height \in Int
  BY <1>2, Heights, VotesHeights, AuditAssumption
<1>5. Committed(g) = Committed(tree[br])
  BY <1>1, GapIsSound DEF VotesInv
<1> HIDE DEF g, t
<1>6. /\ Fork + Len(g) \in Int /\ Fork + Len(g) <= MaxHeight
      /\ Fork + Len(t) <= MaxHeight /\ Height <= Fork + Len(t)
  BY <1>1, <1>2, <1>3, <1>4
<1>7. \A rec \in recs : RecordCast(rec, cast)
  BY <1>6, BodiesCast DEF VotesInv, g
<1>8. \A rec \in Committed(t) : RecordCast(rec, cast)
  BY <1>3, <1>5, <1>7 DEF VotesInv
<1>9. \A x \in Branch :
        /\ Fork + Len(tree'[x]) <= MaxHeight
        /\ \A rec \in Committed(tree'[x]) : RecordCast(rec, cast')
  BY <1>1, <1>6, <1>8, TreeCast
<1>10. /\ BookCast(Reconciled(br, t), cast) /\ Current(Reconciled(br, t), Fork + Len(t))
       /\ BookCast(saved', cast) /\ Covers(Reconciled(br, t), saved')
  BY <1>1, <1>2, <1>6, <1>8, ReconciledVotes
<1>11. CASE Reorg(br, extra, recs)
  <2>1. book' = Reconciled(br, t) /\ branch' = br
    BY <1>11 DEF Reorg, t, g
  <2>2. tree'[br] = t
    BY <1>1 DEF VotesInv, AuditInv
  <2>3. Height' = Fork + Len(t)
    BY <2>1, <2>2 DEF Height
  <2> QED BY <1>1, <1>9, <1>10, <2>1, <2>3 DEF VotesInv
<1>12. CASE CrashInReorg(br, extra, recs)
  <2>1. book' = EmptyBook
    BY <1>12 DEF CrashInReorg
  <2> QED BY <1>1, <1>9, <1>10, <2>1, EmptyEvidence DEF VotesInv
<1> QED BY <1>11, <1>12

LEMMA RestartVotes ==
  ASSUME VotesInv, Restart, AuditInv'
  PROVE  VotesInv'
<1> DEFINE t == Restored(saved, branch, Height)
<1>1. /\ book' = Index(t, Committed(tree[branch])) /\ saved' = book' /\ up'
      /\ UNCHANGED <<tree, branch, cast>>
  BY DEF Restart, Persist
<1>2. BookCast(t, cast) /\ Current(t, Height)
  BY RestoredEvidence, VotesHeights DEF VotesInv
<1>3. \A rec \in Committed(tree[branch]) : RecordCast(rec, cast)
  BY VotesHeights DEF VotesInv
<1> HIDE DEF t
<1>4. BookCast(book', cast) /\ Current(book', Height)
  BY <1>1, <1>2, <1>3, IndexEvidence
<1> QED BY <1>1, <1>4, SavedStep

LEMMA InitVotes == Init => VotesInv
<1> SUFFICES ASSUME Init PROVE VotesInv
  OBVIOUS
<1>1. \A br \in Branch : tree[br] = <<>> /\ Len(tree[br]) = 0 /\ Committed(tree[br]) = {}
  BY DEF Init, Committed, Range
<1>2. VotesSound(cast)
  BY DEF Init, VotesSound, None, IsBallots, Range
<1>3. \A br \in Branch : Fork + Len(tree[br]) <= MaxHeight
  BY <1>1, AuditAssumption
<1>4. book = EmptyBook /\ saved = EmptyBook /\ up \in BOOLEAN
  BY DEF Init
<1> QED BY <1>1, <1>2, <1>3, <1>4, InitAudit, EmptyEvidence DEF VotesInv

LEMMA NextVotes == VotesInv /\ [Next]_vars => VotesInv'
<1> SUFFICES ASSUME VotesInv, [Next]_vars PROVE VotesInv'
  OBVIOUS
<1>1. AuditInv'
  BY NextAudit DEF VotesInv
<1>2. ASSUME Crash PROVE VotesInv'
  <2>1. UNCHANGED <<tree, branch, saved, cast>> /\ up' \in BOOLEAN /\ book' = EmptyBook
    BY <1>2 DEF Crash
  <2> QED BY <1>1, <2>1, EmptyEvidence DEF VotesInv
<1>3. ASSUME UNCHANGED vars PROVE VotesInv'
  BY <1>1, <1>3 DEF VotesInv, vars, Height
<1> QED BY <1>1, <1>2, <1>3, CastVotes, RegisterVotes, SubmitVotes, HandleVerdictVotes, ApplyVotes,
           ReorgVotes, RestartVotes DEF Next
------------------------------------------------------------------------------
(* What follows *)

\* Two supermajorities of one committee share a validator, who voted once.
LEMMA OneSupermajority ==
  ASSUME NEW c, DOMAIN c \subseteq Validator, NEW f, NEW g, Within(f, c), Within(g, c)
  PROVE  ~ (Decision(f) = "pass" /\ Decision(g) = "fraud")
<1> DEFINE A == {v \in DOMAIN f : f[v].commitment = "claimed"}
           B == {v \in DOMAIN g : g[v].commitment = "other"}
           n == Cardinality(Validator)
<1> SUFFICES ASSUME Decision(f) = "pass", Decision(g) = "fraud" PROVE FALSE
  OBVIOUS
<1>1. Count(f, "claimed") >= RequiredVotes(f)
  BY DEF Decision
<1>2. Count(g, "other") >= RequiredVotes(g)
  BY DEF Decision
<1>3. Cardinality(A) >= (2 * n + 2) \div 3 /\ Cardinality(B) >= (2 * n + 2) \div 3
  BY <1>1, <1>2 DEF Count, RequiredVotes
<1>4. A \subseteq Validator /\ B \subseteq Validator /\ A \cap B = {}
  BY DEF Within
<1> HIDE DEF A, B
<1>5. IsFiniteSet(Validator) /\ IsFiniteSet(A) /\ IsFiniteSet(B) /\ IsFiniteSet(A \cup B)
  BY <1>4, AuditAssumption, FS_Subset, FS_Union
<1>6. Cardinality(A \cup B) = Cardinality(A) + Cardinality(B)
  <2>1. Cardinality(A \cap B) = 0
    BY <1>4, FS_EmptySet
  <2>2. Cardinality(A \cup B) = Cardinality(A) + Cardinality(B) - Cardinality(A \cap B)
    BY <1>5, FS_Union
  <2>3. Cardinality(A) \in Nat /\ Cardinality(B) \in Nat
    BY <1>5, FS_CardinalityType
  <2> QED BY <2>1, <2>2, <2>3
<1>7. Cardinality(A \cup B) <= n
  BY <1>4, <1>5, FS_Subset
<1>8. Cardinality(A) \in Nat /\ Cardinality(B) \in Nat /\ n \in Nat /\ n >= 3
  BY <1>5, FS_CardinalityType, AuditAssumption
<1> HIDE DEF n
<1> QED BY <1>3, <1>6, <1>7, <1>8

\* No request is ever cleared and convicted: not in memory, on disk or in a block
\* of any branch, however votes, verdicts, reorgs, crashes and restarts interleave.
THEOREM OneDecisionHolds == Spec => []OneDecision
<1>1. VotesInv => OneDecision
  <2> SUFFICES ASSUME VotesInv PROVE OneDecision
    OBVIOUS
  <2> DEFINE records == Range(book.verdicts) \cup Range(saved.verdicts)
                          \cup UNION {Committed(tree[br]) : br \in Branch}
  <2>1. ASSUME NEW x \in records
        PROVE  x.request \in Request /\ Within(x.evidence, cast[x.request])
    <3>1. ASSUME NEW b, BookCast(b, cast), x \in Range(b.verdicts)
          PROVE  x.request \in Request /\ Within(x.evidence, cast[x.request])
      <4>1. PICK r \in DOMAIN b.verdicts : x = b.verdicts[r]
        BY <3>1 DEF Range
      <4> QED BY <3>1, <4>1, BookParts DEF IsRecord
    <3>2. CASE x \in UNION {Committed(tree[br]) : br \in Branch}
      BY <3>2 DEF VotesInv, RecordCast, IsRecord
    <3> QED BY <3>1, <3>2 DEF VotesInv
  <2>2. ASSUME NEW x \in records, NEW y \in records, x.request = y.request
        PROVE  {Decision(x.evidence), Decision(y.evidence)} # {"pass", "fraud"}
    <3>1. DOMAIN cast[x.request] \subseteq Validator
      BY <2>1 DEF VotesInv, VotesSound, IsBallots
    <3>2. Within(x.evidence, cast[x.request]) /\ Within(y.evidence, cast[x.request])
      BY <2>1, <2>2
    <3>3. /\ ~ (Decision(x.evidence) = "pass" /\ Decision(y.evidence) = "fraud")
          /\ ~ (Decision(y.evidence) = "pass" /\ Decision(x.evidence) = "fraud")
      BY <3>1, <3>2, OneSupermajority
    <3> QED BY <3>3
  <2> QED BY <2>2 DEF OneDecision
<1> QED BY InitVotes, NextVotes, <1>1, PTL DEF Spec

\* The book stays well-formed; every verdict the node would commit is one its chain
\* accepts, after any reorg or restart; and no vote is in memory that is not on disk.
THEOREM EvidenceHolds == Spec => []EvidenceInv
<1>1. VotesInv => EvidenceInv
  <2> SUFFICES ASSUME VotesInv PROVE EvidenceInv
    OBVIOUS
  <2>1. TypeOK
    <3>1. ASSUME NEW br \in Branch, NEW i \in 1 .. MaxHeight, i \in DOMAIN tree[br],
                 NEW rec \in tree[br][i]
          PROVE  IsRecord(rec)
      <4>1. rec \in Committed(tree[br])
        BY <3>1 DEF Committed, Range
      <4> QED BY <4>1 DEF VotesInv, RecordCast
    <3> QED BY <3>1 DEF TypeOK, VotesInv, AuditInv, BookCast, VotesSound
  <2>2. PendingCommittable
    <3> SUFFICES ASSUME up, NEW rec \in Pending PROVE Committable(branch, tree[branch], rec)
      BY DEF PendingCommittable
    <3>1. PICK r \in DOMAIN book.verdicts : rec = book.verdicts[r]
      BY DEF Pending, Range
    <3>2. rec.request = r /\ ValidRecord(rec)
      BY <3>1, BookParts DEF VotesInv, Current
    <3>3. Bound(branch, Height, rec.request)
      BY <3>1, <3>2 DEF VotesInv, AuditInv, BookInv, EvidenceBound, Requests
    <3> QED BY <3>2, <3>3 DEF Pending, Committable, Height
  <2>3. SavedCoversMemory
    BY DEF VotesInv, Covers, Within, SavedCoversMemory
  <2> QED BY <2>1, <2>2, <2>3 DEF EvidenceInv
<1> QED BY InitVotes, NextVotes, <1>1, PTL DEF Spec
===============================================================================
