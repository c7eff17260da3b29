SPECIFICATION SASpec
CONSTANTS
  Casters = {o1, o2, o3, o4}
  Values = {0, 1, 3}
  Durations = {0, 1, 2}
  SAM_MAX_MODS = 3
  Nil = Nil
  MaxTime = 3
  MaxCalls = 2
SYMMETRY Symmetry
INVARIANTS ModifiersOK CacheRight
PROPERTIES NotTooMany KeptToTheEnd
