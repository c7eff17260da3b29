----------------------------- MODULE MCSession -----------------------------
(* Bounded instances of the session of a character for TLC.               *)
EXTENDS Session, TLC

Symmetry == Permutations(Conns)
=============================================================================
