----------------------------- MODULE ForkChoice -----------------------------
(***************************************************************************)
(* What the chain manager does to the tip that survives a restart, without *)
(* branches, orphans or files.  There is one such tip.  It moves to the    *)
(* end of a chain that is valid above its first block, and between chains  *)
(* of the compiled genesis only to one that the fork-choice order prefers. *)
(* A foreign block of height 0, whose own validity nobody asks for, is the *)
(* exception: it takes the tip back to genesis, and what is built on it is *)
(* compared by the work it declares.                                       *)
(***************************************************************************)
EXTENDS BlockTree

VARIABLE tip

ValidChain(b) ==
  \A i \in 2 .. Len(Ancestry[b]) : Ancestry[b][i] \in Valid

Init == tip = Genesis

Switch(b) ==
  /\ ValidChain(b)
  /\ FromGenesis(b) /\ FromGenesis(tip) =>
       PrefersChainTip(TotalWork[b], b, TotalWork[tip], tip)
  /\ tip' = b

Reset == Root # {Genesis} /\ tip' = Genesis

Next == Reset \/ \E b \in Block \ Root : Switch(b)

Spec == Init /\ [][Next]_tip
==============================================================================
