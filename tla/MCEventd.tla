------------------------------ MODULE MCEventd ------------------------------
(* Bounded instances of the event dispatcher for TLC.                      *)
EXTENDS Eventd, TLC

\* Listeners and event ids are only compared, never ordered.
Symmetry == Permutations(Names) \cup Permutations(EventIds)
=============================================================================
