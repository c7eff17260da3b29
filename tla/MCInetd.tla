------------------------------- MODULE MCInetd -------------------------------
(* Bounded instances of the intermud daemon for TLC.                       *)
EXTENDS Inetd, TLC

Symmetry == Permutations(Muds)
=============================================================================
