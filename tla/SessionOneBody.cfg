SPECIFICATION Spec
CONSTANTS
  Conns = {c1, c2}
  Races = {human, elf}
  Nil = Nil
  Kinds = {"new"}
  OldSaves = {"full"}
  MaxTimers = 2
INVARIANT OneBody
