-------------------------------- MODULE WorkLog --------------------------------
(***************************************************************************)
(* What the assigned-work journal promises, whatever processes share it:   *)
(* one log, in which every event is acceptable after those before it, and  *)
(* to which events are only added.                                         *)
(***************************************************************************)
EXTENDS Sequences

CONSTANTS
  Entry,
  Admits(_, _)   \* the log admits the entry

VARIABLE log

Init == log = <<>>

Record(e) ==
  /\ log' = Append(log, e)
  /\ Admits(log, e)

\* Only additions change the log.
Next == log' # log /\ \E e \in Entry : Record(e)

Spec == Init /\ [][Next]_log
==============================================================================
