------------------------------- MODULE MCNode -------------------------------
(***************************************************************************)
(* A node and its peers in one run: the chain manager and its files, the   *)
(* catch-up of two nodes, the admission of sockets and the dialing of      *)
(* addresses.  They share no state here, so each is explored by itself:    *)
(* the initial state chooses the part that moves.                          *)
(***************************************************************************)
EXTENDS MCChainNode, PeerGuard, PeerDialing

VARIABLES part,
          auth, known, tip, stash, open, session, startHeight, inbox, serving, drops

syncVars == <<auth, known, tip, stash, open, session, startHeight, inbox, serving, drops>>
nodeVars == <<part, vars, syncVars, guardVars, dialVars>>

-----------------------------------------------------------------------------
(* One chain of three blocks for two nodes that both produce.               *)
SyncBlock == {"g", "a1", "a2", "a3"}
SyncPath == <<"g", "a1", "a2", "a3">>
SyncPlace(b) == CHOOSE i \in 1 .. 4 : SyncPath[i] = b
SyncParent == [b \in SyncBlock \ {"g"} |-> SyncPath[SyncPlace(b) - 1]]
SyncOne == [b \in SyncBlock |-> 1]
SyncPlaceOf == [b \in SyncBlock |-> SyncPlace(b)]
SyncAncestry == [b \in SyncBlock |-> SubSeq(SyncPath, 1, SyncPlace(b))]

Sync == INSTANCE PeerSync WITH
  Block <- SyncBlock, Root <- {"g"}, Unworkable <- {}, Parent <- SyncParent,
  BlockWork <- SyncOne, HashRank <- SyncPlaceOf,
  Valid <- SyncBlock \ {"g"}, Ancestry <- SyncAncestry, TotalWork <- SyncPlaceOf, Mainnet <- FALSE,
  Node <- {"n1", "n2"}, Link <- {{"n1", "n2"}}, Producer <- {"n1", "n2"},
  AuthModes <- BOOLEAN, MaxDrops <- 2

GuardPenalty == [v \in {"malformed", "flood"} |-> IF v = "flood" THEN 2 ELSE 1]

-----------------------------------------------------------------------------
Parts == {"chain", "sync", "guard", "dialing"}

NodeInit ==
  /\ part \in Parts
  /\ Init /\ Sync!Init /\ GuardInit /\ DialInit
  /\ part # "sync" => auth

NodeNext ==
  \/ /\ part = "chain" /\ Next
     /\ UNCHANGED <<part, syncVars, guardVars, dialVars>>
  \/ /\ part = "sync" /\ Sync!Next
     /\ UNCHANGED <<part, vars, guardVars, dialVars>>
  \/ /\ part = "guard" /\ GuardNext
     /\ UNCHANGED <<part, vars, syncVars, dialVars>>
  \/ /\ part = "dialing" /\ DialNext
     /\ UNCHANGED <<part, vars, syncVars, guardVars>>

\* The fairness is the catch-up's; the other parts have safety properties only.
NodeSpec ==
  NodeInit /\ [][NodeNext]_nodeVars /\ Sync!Fairness

-----------------------------------------------------------------------------
(* The parts' properties, under their own names.                            *)
NoRefusal == Sync!NoRefusal
Converges == Sync!Converges
=============================================================================
