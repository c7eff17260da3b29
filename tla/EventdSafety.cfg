SPECIFICATION Spec
CONSTANTS
  EventIds = {d, e}
  Names = {a, b}
  Funs = {f, g}
  Interfaces = {{f}, {f, g}}
  Nil = Nil
  Budget = 1
  MaxPending = 1
  MaxTriggers = 2
SYMMETRY Symmetry
INVARIANTS TypeOK NoLostWakeup
PROPERTIES UpdateLosesNothing ImplementsDelivery
