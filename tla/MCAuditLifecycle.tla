--------------------------- MODULE MCAuditLifecycle ---------------------------
(***************************************************************************)
(* One audit anchored below the fork and one anchored on a branch.         *)
(***************************************************************************)
EXTENDS AuditLifecycle

MCRequest == {[height |-> 1, branch |-> "a"], [height |-> 2, branch |-> "a"]}
MCOrder == [r \in Request |-> r.height]
MCOneRequest == {[height |-> 2, branch |-> "a"]}
==============================================================================
