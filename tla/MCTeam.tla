------------------------------- MODULE MCTeam -------------------------------
EXTENDS Team
CONSTANTS p1, p2, p3, n1
MCOrders == {<<p1, n1, p2, p3>>, <<p2, n1, p1, p3>>}
MCRequests ==
  {[min |-> <<0, 0, 0>>, max |-> <<0, 1, 1>>], [min |-> <<-1, 2, 3>>, max |-> <<1, 1, 3>>]}
Symmetry == Permutations({p1, p2})
=============================================================================
