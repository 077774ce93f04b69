---------------------------- MODULE MCSoakMonitor ----------------------------
(***************************************************************************)
(* One participant and one seed, watched by two overlapping ticks.  Of the *)
(* pages' bodies two show the participant's recorder and one does not.     *)
(***************************************************************************)
EXTENDS SoakMonitor, TLC

CONSTANTS t1, t2, all, other, lacks

MCAttends == (all :> {"p"}) @@ (other :> {"p"}) @@ (lacks :> {})
Sym == {f @@ g : f \in Permutations(Request), g \in Permutations({all, other})}

\* The ticks overlap only while nothing else goes wrong.
Busy == {t \in Request : ticks[t] # Free}
Bound == troubles' = 0 \/ Cardinality(Busy') <= 1
=============================================================================
