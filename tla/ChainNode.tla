------------------------------ MODULE ChainNode ------------------------------
(***************************************************************************)
(* One JGC node's chain manager (packages/jgc-node/src/network/node.ts):   *)
(* block intake from several peers, orphans, fork choice and reorgs, and   *)
(* the durable log and snapshot they keep (storage/persistence.ts), with   *)
(* crashes at every point of a write and restarts.                         *)
(*                                                                         *)
(* The code is a single-threaded event loop.  ingestBlock is synchronous;  *)
(* its callers await it (and the relay of a connected block) before they   *)
(* drain the block's orphans, and other peers' handlers run there.  Taking *)
(* the orphans off the stash and ingesting the first of them are separate  *)
(* steps here and one in the code: every schedule of the code is a         *)
(* behaviour of this module.                                               *)
(*                                                                         *)
(* A block whose header says height 0 needs no known parent, is the first  *)
(* of its own chain and is never verified; "grafted" remembers a start     *)
(* from a snapshot on such a chain, whose first block the files lack.      *)
(***************************************************************************)
EXTENDS BlockTree

CONSTANTS
  Peer,              \* remote peers; their frames are handled one at a time
  Local,             \* the node's own producer, calling submitBlock
  NoBlock,           \* "no block" / "no snapshot"
  Early,             \* blocks whose timestamp is initially > 2h ahead
  SnapshotInterval   \* snapshotIntervalBlocks, 0 disables

Handler == Peer \cup {Local}

ASSUME NodeAssumption ==
  /\ Local \notin Peer
  /\ NoBlock \notin Block
  /\ Early \subseteq Block
  /\ SnapshotInterval \in Nat

VARIABLES
  up,         \* the process runs
  chainWork,  \* the known blocks (blocks, headers) with ChainState.chainWork,
              \* 0 for a block that has no entry there
  active,     \* heightIndex from genesis to tipHash, oldest first
  applied,    \* the blocks whose effects the UTXO set and epoch state hold
  orphans,    \* ChainState.orphans: stashed blocks by missing parent
  ingested,   \* per handler: block it awaits, whose orphans it drains next
  waiting,    \* per handler: orphans that drainOrphans has yet to re-ingest
  late,       \* blocks the clock still makes too far in the future
  log,        \* durable: blocks.dat, heights 1, 2, ...
  torn,       \* durable: blocks.dat ends in an incomplete record
  snap,       \* durable: chainstate.snapshot
  grafted     \* history: the node started above a first block it lacks

memory == <<chainWork, active, applied>>
handlers == <<orphans, ingested, waiting>>
disk == <<log, torn, snap>>
vars == <<up, chainWork, active, applied, orphans, ingested, waiting, late,
          log, torn, snap, grafted>>

Known == DOMAIN chainWork
Tip == active[Len(active)]

NoOrphans == [b \in Block |-> <<>>]
Snapshots == [tip : Block, applied : Seq(Block)]

ChainTypeOK ==
  /\ up \in BOOLEAN
  /\ Known \subseteq Block
  /\ chainWork \in [Known -> Nat]
  /\ active \in Seq(Block) /\ applied \in Seq(Block)
  /\ up => active # <<>>
  /\ late \subseteq Block
  /\ log \in Seq(Block)
  /\ torn \in BOOLEAN
  /\ snap = NoBlock \/ snap \in Snapshots
  /\ grafted \in BOOLEAN

HandlersTypeOK ==
  /\ orphans \in [Block -> Seq(Block)]
  /\ ingested \in [Handler -> Block \cup {NoBlock}]
  /\ waiting \in [Handler -> Seq(Block)]

TypeOK == ChainTypeOK /\ HandlersTypeOK

\* The node starts on an empty data directory.
Init ==
  /\ up = TRUE
  /\ chainWork = [b \in {Genesis} |-> BlockWork[b]]
  /\ active = <<Genesis>>
  /\ applied = <<Genesis>>
  /\ orphans = NoOrphans
  /\ ingested = [h \in Handler |-> NoBlock]
  /\ waiting = [h \in Handler |-> <<>>]
  /\ late = Early
  /\ log = <<>>
  /\ torn = FALSE
  /\ snap = NoBlock
  /\ grafted = FALSE
------------------------------------------------------------------------------
(* Validation *)

\* The blocks of a path whose effects the state holds: the scratch chain of a
\* reorg starts with the transactions of the compiled genesis, whatever block of
\* height 0 the path starts with.
Effects(path) == <<Genesis>> \o Tail(path)

\* validateAgainst: the block names this tip, its roots commit to exactly this
\* state, it is well formed and its timestamp is not too far ahead.
Verify(tip, state, b) ==
  /\ b \in Valid /\ b \notin late
  /\ tip = Parent[b] /\ state = Effects(Ancestry[Parent[b]])

OnActiveChain(path, i) == i \in DOMAIN active /\ active[i] = path[i]

\* The i-th block of a path on the scratch state, which holds those below it.
VerifyOn(path, i) == Verify(path[i - 1], Effects(SubSeq(path, 1, i - 1)), path[i])

\* Mutant: only the head of the branch is verified, its inner blocks trusted.
BranchVerifiesTrusting(path) == Len(path) = 1 \/ VerifyOn(path, Len(path))

\* reorgToBlock's replay: blocks that are not on the active chain are verified
\* against the scratch state.  The first block of the path is not one of them.
BranchVerifies(path) ==
  \A i \in 2 .. Len(path) : OnActiveChain(path, i) \/ VerifyOn(path, i)
------------------------------------------------------------------------------
(* Knowledge and fork choice *)

WorkOf(b) ==
  BlockWork[b]
    + IF Parent[b] \in Known THEN chainWork[Parent[b]] ELSE 0

\* The block is put among the known ones before networkBlockWork is called,
\* which may throw: then it stays known, without a work of its own.
Learn(b) ==
  chainWork' = [x \in Known \cup {b} |->
                  IF x # b THEN chainWork[x]
                  ELSE IF b \in Unworkable THEN 0 ELSE WorkOf(b)]

\* Mutant: with its head the whole branch is forgotten.
ForgetBranch(b) ==
  chainWork' = [x \in {y \in Known \ {b} :
                        \A i \in 2 .. Len(Ancestry[b]) : y # Ancestry[b][i]} |-> chainWork[x]]

Forget(b) == chainWork' = [x \in Known \ {b} |-> chainWork[x]]

ExtendsTip(b) == Parent[b] = Tip
\* Mutants: ties always stay first-seen; a tie always switches.
PreferredFirstSeen(b) == WorkOf(b) > chainWork[Tip]
PreferredOnTie(b) == WorkOf(b) >= chainWork[Tip]

Preferred(b) == PrefersChainTip(WorkOf(b), b, chainWork[Tip], Tip)
------------------------------------------------------------------------------
(* What one call of ingestBlock does to memory, and the order of its writes *)

SnapshotDue(b) ==
  SnapshotInterval > 0 /\ Height(b) % SnapshotInterval = 0

CanExtend(b) == ExtendsTip(b) /\ Verify(Tip, applied, b)
Outranks(b) ==
  ~ExtendsTip(b) /\ Preferred(b) /\ BranchVerifies(Ancestry[b])
RootKnown(b) == Origin(b) \in Known \cup {b}
CanReorg(b) == b \notin Unworkable /\ Outranks(b) /\ RootKnown(b)

\* applyLiveBlock: state, then store.append, then the periodic snapshot.
ExtendActiveChain(b) ==
  /\ CanExtend(b)
  /\ Learn(b)
  /\ active' = Append(active, b)
  /\ applied' = Append(applied, b)
  /\ log' = Append(log, b)
  /\ snap' = IF SnapshotDue(b)
               THEN [tip |-> b, applied |-> Append(applied, b)]
               ELSE snap
  /\ UNCHANGED torn

\* Mutant: the branch head is applied on top of the old state.
ReorgOnOldState(b) ==
  /\ CanReorg(b)
  /\ Learn(b)
  /\ active' = Ancestry[b]
  /\ applied' = Append(applied, b)
  /\ log' = Tail(Ancestry[b])
  /\ snap' = NoBlock
  /\ UNCHANGED torn

\* reorgToBlock: the rebuilt state is swapped in, the log is rewritten to the
\* new active chain without its first block and then the snapshot is dropped.
ReorgToBlock(b) ==
  /\ CanReorg(b)
  /\ Learn(b)
  /\ active' = Ancestry[b]
  /\ applied' = Effects(Ancestry[b])
  /\ log' = Tail(Ancestry[b])
  /\ snap' = NoBlock
  /\ UNCHANGED torn

\* A lower-ranked tip is kept as a known inactive branch, unverified.
KeepBranch(b) ==
  /\ ~ExtendsTip(b) /\ ~Preferred(b)
  /\ Learn(b)
  /\ UNCHANGED <<active, applied, log, torn, snap>>

\* A block that fails verification, or heads a branch that does, is forgotten;
\* the rest of that branch stays known.
RejectBlock(b) ==
  /\ ExtendsTip(b) \/ Preferred(b)
  /\ ~CanExtend(b) /\ ~Outranks(b)
  /\ Forget(b)
  /\ UNCHANGED <<active, applied, log, torn, snap>>

\* ingestBlock throws with the block already known: its work has no number, or
\* the fork point is looked for from a first block whose header is not there.
Throws(b) == b \in Unworkable \/ (Outranks(b) /\ ~RootKnown(b))
Throw(b) ==
  /\ Throws(b)
  /\ Learn(b)
  /\ UNCHANGED <<active, applied, log, torn, snap>>
------------------------------------------------------------------------------
(* Intake *)

Idle(h) == ingested[h] = NoBlock /\ waiting[h] = <<>>

IsStashed(b) == \E i \in DOMAIN orphans[Parent[b]] : orphans[Parent[b]][i] = b

\* handleBlock lets a block pass whose parent is known or whose height is 0.
Attached(b) == b \in Root \/ Parent[b] \in Known

\* handleBlock: the parent is unknown, so the block is stashed (once).
StashOrphan(h, b) ==
  /\ up /\ Idle(h)
  /\ b \notin Known /\ ~Attached(b)
  /\ ~IsStashed(b)
  /\ orphans' = [orphans EXCEPT ![Parent[b]] = Append(@, b)]
  /\ UNCHANGED <<up, memory, ingested, waiting, late, disk, grafted>>

\* Mutant: orphans are drained only after a block that changed the tip.
IngestDrainsConnected(h, b, rest) ==
  /\ \/ /\ b \notin Unworkable
        /\ \/ /\ ExtendActiveChain(b) \/ ReorgToBlock(b)
              /\ ingested' = [ingested EXCEPT ![h] = b]
           \/ KeepBranch(b) /\ UNCHANGED ingested
           \/ RejectBlock(b) /\ UNCHANGED ingested
        /\ waiting' = [waiting EXCEPT ![h] = rest]
     \/ /\ Throw(b)
        /\ waiting' = [waiting EXCEPT ![h] = <<>>] /\ UNCHANGED ingested
  /\ UNCHANGED <<up, orphans, late, grafted>>

\* One call of ingestBlock by handler h, which has rest to ingest after it.
\* Whatever is now known has its orphans drained when the await of the call, or
\* of the relay after it, is over.  An exception ends the handler instead: the
\* orphans it had taken off the stash are gone.
Ingest(h, b, rest) ==
  /\ \/ /\ b \notin Unworkable
        /\ \/ /\ ExtendActiveChain(b) \/ ReorgToBlock(b) \/ KeepBranch(b)
              /\ ingested' = [ingested EXCEPT ![h] = b]
           \/ RejectBlock(b) /\ UNCHANGED ingested
        /\ waiting' = [waiting EXCEPT ![h] = rest]
     \/ /\ Throw(b)
        /\ waiting' = [waiting EXCEPT ![h] = <<>>] /\ UNCHANGED ingested
  /\ UNCHANGED <<up, orphans, late, grafted>>

\* handleBlock: a block from a peer, unknown so far.
HandleBlock(h, b) ==
  /\ up /\ Idle(h)
  /\ b \notin Known /\ Attached(b)
  /\ Ingest(h, b, <<>>)

\* submitBlock: a locally produced block must extend the tip it was built on.
SubmitBlock(b) ==
  /\ up /\ Idle(Local)
  /\ b \notin Known /\ ExtendsTip(b)
  /\ Ingest(Local, b, <<>>)

\* drainOrphans: the orphans of the ingested block are taken off the stash, to
\* be ingested before the orphans of earlier generations that still wait.
TakeOrphans(h) ==
  LET b == ingested[h] IN
  /\ up /\ b # NoBlock
  /\ ingested' = [ingested EXCEPT ![h] = NoBlock]
  /\ IF b \in Known
       THEN /\ waiting' = [waiting EXCEPT ![h] = orphans[b] \o @]
            /\ orphans' = [orphans EXCEPT ![b] = <<>>]
       ELSE UNCHANGED <<waiting, orphans>>
  /\ UNCHANGED <<up, memory, late, disk, grafted>>

\* One turn of drainOrphans' loop.  It does not ask whether the orphan became
\* known by another way while it waited.
DrainNext(h) ==
  /\ up /\ ingested[h] = NoBlock /\ waiting[h] # <<>>
  /\ Ingest(h, Head(waiting[h]), Tail(waiting[h]))

\* Time passes: a block's timestamp comes within the allowed future drift.
ClockAdvances ==
  /\ \E b \in late : late' = late \ {b}
  /\ UNCHANGED <<up, memory, handlers, disk, grafted>>
------------------------------------------------------------------------------
(* Crash and restart *)

LoseMemory ==
  /\ up' = FALSE
  /\ chainWork' = [b \in {} |-> 0]
  /\ active' = <<>>
  /\ applied' = <<>>
  /\ orphans' = NoOrphans
  /\ ingested' = [h \in Handler |-> NoBlock]
  /\ waiting' = [h \in Handler |-> <<>>]
  /\ grafted' = FALSE
  /\ UNCHANGED late

Crash ==
  /\ up
  /\ LoseMemory
  /\ UNCHANGED disk

\* The blocks some handler may be ingesting in this state.
Ingesting(b) ==
  \/ b \notin Known /\ Attached(b) /\ \E h \in Handler : Idle(h)
  \/ \E h \in Handler :
       ingested[h] = NoBlock /\ waiting[h] # <<>> /\ Head(waiting[h]) = b

\* The process dies inside applyLiveBlock: the record is torn, or complete with
\* the snapshot still to be written.
CrashInAppend(b) ==
  /\ up /\ Ingesting(b) /\ CanExtend(b)
  /\ \/ torn' = TRUE /\ UNCHANGED log
     \/ log' = Append(log, b) /\ UNCHANGED torn
  /\ UNCHANGED snap
  /\ LoseMemory

\* The process dies between the log rewrite and the removal of the snapshot.
CrashInReorg(b) ==
  /\ up /\ Ingesting(b) /\ CanReorg(b)
  /\ log' = Tail(Ancestry[b])
  /\ UNCHANGED <<torn, snap>>
  /\ LoseMemory

\* Mutant: a snapshot is taken at its height, whatever block the log has there.
SnapshotFitsByHeight ==
  /\ ~Mainnet /\ snap # NoBlock
  /\ Height(snap.tip) \in DOMAIN log

\* replayFromStore takes the snapshot only when the log's block at its height
\* is its tip; an empty log returns before looking at it.
SnapshotFits ==
  /\ ~Mainnet /\ snap # NoBlock
  /\ Height(snap.tip) \in DOMAIN log
  /\ log[Height(snap.tip)] = snap.tip

ReplayFrom == IF SnapshotFits THEN Height(snap.tip) ELSE 0
ReplayBase == IF SnapshotFits THEN snap.applied ELSE <<Genesis>>
Replayed(h) == ReplayBase \o SubSeq(log, ReplayFrom + 1, h)

ReplayTip(h) == IF h = 0 THEN Genesis ELSE log[h]

\* Every block above the snapshot has to extend the tip so far and is checked on
\* the state below it: in full on the candidate network, else by integrityCheck.
\* Those that the snapshot covers need not extend anything.
ReplayAccepts ==
  \A h \in ReplayFrom + 1 .. Len(log) :
    IF Mainnet THEN Verify(ReplayTip(h - 1), Replayed(h - 1), log[h])
               ELSE /\ Parent[log[h]] = ReplayTip(h - 1)
                    /\ Replayed(h - 1) = Effects(Ancestry[Parent[log[h]]])

\* The work is added up over the log alone: a foreign first block is not in it.
ReplayedWork(b) == TotalWork[b] - (IF FromGenesis(b) THEN 0 ELSE BlockWork[Origin(b)])

Replay ==
  /\ ReplayAccepts
  /\ up' = TRUE
  /\ applied' = Replayed(Len(log))
  /\ chainWork' = [b \in {Genesis} \cup {log[h] : h \in DOMAIN log} |->
                     ReplayedWork(b)]
  /\ grafted' = (log # <<>> /\ ~FromGenesis(log[1]))
  /\ torn' = FALSE
  /\ UNCHANGED <<orphans, ingested, waiting, late, log>>

\* The constructor on an existing data directory: cut a torn tail, replay.
Restart ==
  /\ ~up
  /\ Replay
  /\ active' = <<Genesis>> \o log
  /\ snap' = IF log = <<>> \/ Mainnet \/ SnapshotFits THEN snap ELSE NoBlock
------------------------------------------------------------------------------
Next ==
  \/ \E h \in Peer, b \in Block \ {Genesis} : StashOrphan(h, b)
  \/ \E h \in Peer, b \in Block \ {Genesis} : HandleBlock(h, b)
  \/ \E b \in Block \ {Genesis} : SubmitBlock(b)
  \/ \E h \in Handler : TakeOrphans(h)
  \/ \E h \in Handler : DrainNext(h)
  \/ ClockAdvances
  \/ Crash
  \/ \E b \in Block \ {Genesis} : CrashInAppend(b)
  \/ \E b \in Block \ {Genesis} : CrashInReorg(b)
  \/ Restart

Spec == Init /\ [][Next]_vars

------------------------------------------------------------------------------
(* Properties *)

\* reorgToBlock is atomic and never follows an unverified block: the active
\* chain is always the complete path to the tip, and every block on it above its
\* first is valid and within the future-drift bound.  The first one is a block of
\* height 0, or genesis in its place where the first one is not in the files.
ActiveChainValid ==
  up => /\ Tail(active) = Tail(Ancestry[Tip])
        /\ active[1] = Origin(Tip) \/ (grafted /\ active[1] = Genesis)
        /\ \A i \in 2 .. Len(active) : active[i] \in Valid \ late

\* The UTXO set and epoch accumulator hold the effects of the compiled genesis
\* and of the active chain's blocks above its first, each once and in order, after
\* any mix of extension, reorg, crash, snapshot restart and full replay.
StateIsReplay == up => applied = Effects(active)

\* Fork choice: no block the node knows ranks above its tip, whatever arrived
\* when.  This is what ingestBlock's one comparison per block has to achieve.  A
\* node that lacks the first block of its chain cannot follow what it prefers.
BestKnown ==
  up /\ ~grafted =>
    \A b \in Known : ~PrefersChainTip(chainWork[b], b, chainWork[Tip], Tip)

\* What is known stays known: a forgotten block is always the one that had just
\* been learned, also when drainOrphans ingests once more an orphan that another
\* peer's handler has made known in the meantime.
KnownStays == [][up /\ up' => Known \subseteq Known']_vars

\* Whatever write a crash interrupted, the files of a chain on genesis load:
\* restart is refused only for corruption, never for a crash.
RestartAccepted == ~up /\ (log # <<>> => FromGenesis(log[1])) => ReplayAccepts

DurableTip == IF log = <<>> THEN Genesis ELSE log[Len(log)]

\* Across reorgs, crashes and restarts the durable tip only ever moves to a
\* valid chain that ranks above the one it leaves, as long as no foreign block of
\* height 0 takes part.
Chosen == INSTANCE ForkChoice WITH tip <- DurableTip
ImplementsForkChoice == Chosen!Spec
------------------------------------------------------------------------------
(* The inductive invariant *)

\* A snapshot holds the state its tip's chain produces.
SnapshotSound == snap # NoBlock => snap.applied = Effects(Ancestry[snap.tip])

\* The log is one chain of accepted blocks, also while the node is down.
LogIsChain ==
  /\ log = Tail(Ancestry[DurableTip])
  /\ \A i \in DOMAIN log : log[i] \in Valid \ late

\* Every block of the path above its first passes validation now.
Accepted(b) == \A i \in 2 .. Len(Ancestry[b]) : Ancestry[b][i] \in Valid \ late

\* No block of the path is one whose work cannot be computed.
Workable(b) == \A i \in DOMAIN Ancestry[b] : Ancestry[b][i] \notin Unworkable

\* In memory: one path, its replayed state and its durable copy.
MemoryMatchesDisk ==
  up => /\ Tip \in Known \ Unworkable
        /\ active = Ancestry[Tip] \/ (grafted /\ active = Effects(Ancestry[Tip]))
        /\ applied = Effects(Ancestry[Tip])
        /\ log = Tail(Ancestry[Tip])
        /\ ~torn

\* forget() never leaves a hole: all of a known block's path is known, except for
\* the foreign first block of a chain that was loaded without it.
KnownIsPath ==
  up => \A b \in Known : \A i \in DOMAIN Ancestry[b] :
          \/ Ancestry[b][i] \in Known
          \/ grafted /\ i = 1 /\ ~FromGenesis(b)

\* The incremental work is exact on chains of the compiled genesis, and adds up
\* on every other one from the blocks just above the first.
WorkIsExact ==
  up => /\ Genesis \in Known
        /\ \A b \in Known :
             /\ b \in Unworkable => chainWork[b] = 0
             /\ b \notin Unworkable => chainWork[b] >= BlockWork[b]
             /\ FromGenesis(b) /\ Workable(b) => chainWork[b] = TotalWork[b]

\* What a node without its chain's first block prefers to its tip, and cannot
\* follow, it has verified.
PreferredIsAccepted ==
  up => \A b \in Known :
          PrefersChainTip(chainWork[b], b, chainWork[Tip], Tip) => grafted /\ Accepted(b)

\* A block that a handler still has to ingest, or that is stashed.
Held(b) ==
  \/ \E p \in Block : \E i \in DOMAIN orphans[p] : orphans[p][i] = b
  \/ \E h \in Handler : \E i \in DOMAIN waiting[h] : waiting[h][i] = b

\* Ingesting once more what has become known would give it the same work.
HeldIsExact ==
  up => \A b \in Known \ Unworkable :
          Held(b) => Parent[b] \in Known /\ chainWork[b] = WorkOf(b)

\* Orphans are filed under their parent, and are re-ingested after it.
OrphansFiled ==
  /\ \A p \in Block : \A i \in DOMAIN orphans[p] :
        orphans[p][i] \notin Root /\ Parent[orphans[p][i]] = p
  /\ \A h \in Handler : \A i \in DOMAIN waiting[h] :
        waiting[h][i] \notin Root /\ Parent[waiting[h][i]] \in Known

IngestedKnown ==
  up => \A h \in Handler : ingested[h] # NoBlock => ingested[h] \in Known

\* No orphan stays stashed under a block that is known, unless a handler has
\* just ingested that block and drains its orphans next, or an exception came
\* between the two.
NoStrandedOrphan ==
  up /\ ~grafted =>
    \A p \in Known \ Unworkable :
      orphans[p] # <<>> => \E h \in Handler : ingested[h] = p

\* A node that is down holds nothing in memory to resume with.
MemoryIsLost ==
  ~up => /\ orphans = NoOrphans
         /\ ingested = [h \in Handler |-> NoBlock]
         /\ waiting = [h \in Handler |-> <<>>]

CoreInv ==
  /\ ChainTypeOK
  /\ SnapshotSound
  /\ LogIsChain
  /\ MemoryMatchesDisk
  /\ KnownIsPath
  /\ WorkIsExact
  /\ BestKnown
  /\ PreferredIsAccepted

HandlersInv ==
  /\ HandlersTypeOK
  /\ OrphansFiled
  /\ HeldIsExact
  /\ IngestedKnown
  /\ NoStrandedOrphan
  /\ MemoryIsLost

ChainInv == CoreInv /\ HandlersInv
==============================================================================
