------------------------- MODULE MCSkillAttributes -------------------------
(* A small instance of SkillAttributes.                                     *)
EXTENDS SkillAttributes, TLC
Symmetry == Permutations(Casters)
=============================================================================
