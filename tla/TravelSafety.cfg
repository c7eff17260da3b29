SPECIFICATION Spec
CONSTANTS
  Nil = Nil
  h1 = h1
  h2 = h2
  h3 = h3
  Ships = {s1, s2}
  Harbours = {h1, h2, h3}
  Broken = {h3}
  Players = {p1}
  Courses <- Tours
  MaxPassengers = 0
  MaxRoute = 4
  MaxEdits = 2
INVARIANTS TypeOK OneChain DockedAtStation
PROPERTIES PutAshoreInTime
SYMMETRY Symmetry
