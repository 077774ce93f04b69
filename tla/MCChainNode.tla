----------------------------- MODULE MCChainNode -----------------------------
(***************************************************************************)
(* Small block trees for TLC, with and without writes that fail.  A .cfg   *)
(* takes the blocks it wants of one large tree.                            *)
(***************************************************************************)
EXTENDS ChainFaults

\* Two branches of genesis: "a2" and "b2" have equal work, "b3" makes the second
\* branch heavier.  "x2" is a second child of "a1", with a heavy child "x3".
MCFaultBlock == {"g", "a1", "a2", "x2", "x3", "b1", "b2", "b3"}
\* The tie, and the chain of the foreign block "r" of height 0, which names
\* genesis as its parent.
MCTieBlock == {"g", "a1", "a2", "b1", "b2", "r", "c1"}
\* A fork of genesis, the branch that fails at "x2", the chain of "r" with a fork
\* above "c1", and "u", whose work is not a number.
MCBlock == {"g", "a1", "x2", "x3", "b1", "b2", "r", "c1", "c2", "d2", "u"}

MCRoot == Block \cap {"g", "r"}
MCUnworkable == Block \cap {"u"}
MCValid == Block \ {"g", "r", "x2", "u"}
MCAllValid == Block \ {"g"}

MCParentOf(b) ==
  CASE b \in {"a1", "b1"} -> "g"
    [] b = "r" -> IF Mainnet THEN "g" ELSE "elsewhere"
    [] b \in {"a2", "x2", "u"} -> "a1" [] b = "x3" -> "x2"
    [] b = "b2" -> "b1" [] b = "b3" -> "b2"
    [] b = "c1" -> "r" [] b \in {"c2", "d2"} -> "c1"
MCParent == [b \in Block \ {"g"} |-> MCParentOf(b)]
MCWork == [b \in Block |-> IF b \in {"x3", "r", "d2"} THEN 2 ELSE 1]
MCRank == [b \in Block |->
  CASE b = "g" -> 0 [] b = "a1" -> 3 [] b = "a2" -> 4
    [] b = "x2" -> 7 [] b = "x3" -> 6
    [] b = "b1" -> 1 [] b = "b2" -> 5 [] b = "b3" -> 2
    [] b = "r" -> 8 [] b = "c1" -> 9
    [] b = "c2" -> 10 [] b = "d2" -> 11 [] b = "u" -> 12]

MCAncestry ==
  LET A[b \in Block] ==
        IF b \in MCRoot THEN <<b>> ELSE Append(A[MCParentOf(b)], b)
  IN  A
MCTotalWork ==
  LET W[b \in Block] ==
        MCWork[b] + IF b \in MCRoot THEN 0 ELSE W[MCParentOf(b)]
  IN  W
==============================================================================
