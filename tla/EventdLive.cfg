SPECIFICATION FairSpec
CONSTANTS
  EventIds = {d}
  Names = {a, b}
  Funs = {f}
  Interfaces = {{f}}
  Nil = Nil
  Budget = 1
  MaxPending = 1
  MaxTriggers = 3
PROPERTIES EveryEventSettles UpdateHappens
