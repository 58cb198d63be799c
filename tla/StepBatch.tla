------------------------------ MODULE StepBatch ------------------------------
(***************************************************************************)
(* What the modules about steps share: when a dependency graph is acyclic,  *)
(* and which steps one lease may run (reference definitions; the algorithms *)
(* of the code are in StepGraph and ReadySteps).                            *)
(***************************************************************************)

(* Every non-empty set of steps has one that depends on none of the set.    *)
Acyclic(steps, deps) ==
    \A S \in SUBSET steps : S # {} => \E s \in S : deps[s] \cap S = {}

Closed(S, satisfied, deps) == \A s \in S : deps[s] \subseteq satisfied \cup S

(* The largest set of eligible steps each of whose dependencies is          *)
(* satisfied already or in the set.                                         *)
Batch(eligible, satisfied, deps) ==
    UNION {S \in SUBSET eligible : Closed(S, satisfied, deps)}
=============================================================================
