----------------------------- MODULE MCChanneld -----------------------------
(* Bounded instances of the channel daemon for TLC.                        *)
EXTENDS Channeld

Symmetry == Permutations(Players)
=============================================================================
