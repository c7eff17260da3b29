------------------------------ MODULE MCTravel ------------------------------
EXTENDS Travel, TLC
CONSTANTS h1, h2, h3
Symmetry == Permutations(Ships)
\* One course with an event at sea.
Ferry == {<<h1, "hpFun", h2>>}
\* Two courses, one with a harbour that does not load.
Tours == {<<h1, h2, "hpMsg">>, <<h3, h2, "hpFun">>}
=============================================================================
