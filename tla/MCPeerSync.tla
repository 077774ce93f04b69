------------------------------ MODULE MCPeerSync ------------------------------
(***************************************************************************)
(* Block trees for PeerSync: one chain of three blocks, and a fork of one  *)
(* block against two, both in blocks named by branch and height.           *)
(***************************************************************************)
EXTENDS PeerSync

MCChain == {"g", "a1", "a2", "a3"}
MCFork == {"g", "a1", "b1", "b2"}
MCParentOf(b) ==
  CASE b = "a1" -> "g" [] b = "a2" -> "a1" [] b = "a3" -> "a2"
    [] b = "b1" -> "g" [] b = "b2" -> "b1"
MCParent == [b \in Block \ {"g"} |-> MCParentOf(b)]
MCRoot == {"g"}
MCValid == Block \ MCRoot
MCOne == [b \in Block |-> 1]
MCRank == [b \in Block |->
  CASE b = "g" -> 0 [] b = "a1" -> 1 [] b = "a2" -> 2 [] b = "a3" -> 3
    [] b = "b1" -> 4 [] b = "b2" -> 5]
MCAncestry ==
  LET A[b \in Block] ==
        IF b = "g" THEN <<"g">> ELSE Append(A[MCParentOf(b)], b)
  IN  A
MCTotalWork == [b \in Block |-> Len(MCAncestry[b])]
MCLinks == {Node}
==============================================================================
