SPECIFICATION FairSpec
CONSTANTS
  Nil = Nil
  h1 = h1
  h2 = h2
  h3 = h3
  Ships = {s1}
  Harbours = {h1, h2}
  Broken = {}
  Players = {p1, p2}
  Courses <- Ferry
  MaxPassengers = 1
  MaxRoute = 3
  MaxEdits = 1
PROPERTIES ServesEveryStop JourneyEnds
