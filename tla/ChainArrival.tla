----------------------------- MODULE ChainArrival -----------------------------
(***************************************************************************)
(* What a node has been given since it started, and what it makes of it:   *)
(* ChainNode with a history of the blocks delivered to handleBlock and     *)
(* submitBlock, in any order, split over any peers, with duplicates.       *)
(***************************************************************************)
EXTENDS ChainNode, Functions

VARIABLE delivered   \* blocks given to this process, and those it replayed

arrivalVars == <<vars, delivered>>

ArrivalInit == Init /\ delivered = {Genesis}

\* A block of height 0 that names the tip as its parent is refused where another
\* one would do for it, and is not counted.
Deliver(b) ==
  /\ \/ \E h \in Peer : StashOrphan(h, b) \/ HandleBlock(h, b)
     \/ SubmitBlock(b)
  /\ delivered' = delivered \cup ({b} \ (Root \ Known'))

\* A handler has still to ingest the block.
Waits(b) == \E h \in Handler : \E i \in DOMAIN waiting[h] : waiting[h][i] = b

Stashed(b) == b \notin Root /\ IsStashed(b)

Retained(b) == b \in Known \/ Waits(b) \/ Stashed(b)

\* The blocks that an exception makes the node drop, to be delivered again.
Dropped(h) == {b \in Range(Tail(waiting[h])) : ~Retained(b)'}

Work(h) ==
  \/ TakeOrphans(h) /\ UNCHANGED delivered
  \/ /\ DrainNext(h)
     /\ delivered' = IF Throws(Head(waiting[h])) THEN delivered \ Dropped(h)
                                                 ELSE delivered

Die ==
  /\ Crash \/ \E b \in Block \ {Genesis} : CrashInAppend(b) \/ CrashInReorg(b)
  /\ delivered' = {}

Boot ==
  /\ Restart
  /\ delivered' = {Genesis} \cup {log[h] : h \in DOMAIN log}

ArrivalNext ==
  \/ \E b \in Block \ {Genesis} : Deliver(b)
  \/ \E h \in Handler : Work(h)
  \/ ClockAdvances /\ UNCHANGED delivered
  \/ Die
  \/ Boot

\* Handlers run to completion: a relay ends (peer.send always resolves) and the
\* event loop returns to a handler that has yielded.
ArrivalFairness == \A h \in Handler : WF_arrivalVars(Work(h))

ArrivalSpec == ArrivalInit /\ [][ArrivalNext]_arrivalVars /\ ArrivalFairness
------------------------------------------------------------------------------
(* Properties *)

\* A chain the node could follow: all of it was delivered, and every block above
\* the first is valid.
Complete(b) ==
  /\ \A i \in DOMAIN Ancestry[b] : Ancestry[b][i] \in delivered
  /\ \A i \in 2 .. Len(Ancestry[b]) : Ancestry[b][i] \in Valid

\* A block that comes too far ahead of its time is forgotten, and has to be
\* delivered again: of a timely chain no block ever does.
Timely(b) == \A i \in 2 .. Len(Ancestry[b]) : Ancestry[b][i] \notin Early

Rest == up /\ \A h \in Handler : Idle(h)

\* "Waiting only for active-tip changes makes final fork choice depend on
\* arrival order": once the handlers are idle, the tip ends a chain of which all
\* was delivered, and every complete and timely chain delivered in any order is
\* known, and does not rank above it; unless the work of its first block is no
\* number, for then ingestBlock throws.  The work compared is that of the whole
\* chain where both start at the compiled genesis.
RestIsBest ==
  Rest /\ ~grafted =>
    /\ Complete(Tip)
    /\ \A b \in delivered :
         Complete(b) /\ Timely(b) /\ Workable(b) =>
           /\ b \in Known
           /\ ~PrefersChainTip(chainWork[b], b, chainWork[Tip], Tip)
           /\ FromGenesis(b) /\ FromGenesis(Tip) =>
                ~PrefersChainTip(TotalWork[b], b, TotalWork[Tip], Tip)

\* Every orphan whose parent becomes known is taken off the stash, or the node
\* stops, unless the node lacks the first block of its chain or the parent is one
\* on whose work ingestBlock throws.
OrphansDrain ==
  \A p \in Block \ Unworkable :
    (p \in Known /\ orphans[p] # <<>> /\ ~grafted) ~> (orphans[p] = <<>>)
------------------------------------------------------------------------------
(* The inductive invariant *)

\* Every block of the chain passes whenever it is ingested.
Followable(b) == \A i \in 2 .. Len(Ancestry[b]) : Ancestry[b][i] \in Valid \ Early

\* What the node knows or keeps was delivered to it.
HeldWasDelivered ==
  /\ delivered \subseteq Block
  /\ up => Known \subseteq delivered
  /\ \A p \in Block : \A i \in DOMAIN orphans[p] : orphans[p][i] \in delivered
  /\ \A h \in Handler : \A i \in DOMAIN waiting[h] : waiting[h][i] \in delivered

\* No followable block that was delivered is ever lost.
NothingIsLost ==
  up => \A b \in delivered : Followable(b) => Retained(b)

ArrivalInv ==
  /\ ChainInv
  /\ late \subseteq Early
  /\ HeldWasDelivered
  /\ NothingIsLost
==============================================================================
