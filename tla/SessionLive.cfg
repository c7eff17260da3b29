SPECIFICATION FairSpec
CONSTANTS
  Conns = {c1, c2}
  Races = {human, elf}
  Nil = Nil
  Kinds = {"new", "old", "wizard"}
  OldSaves = {"full"}
  MaxTimers = 2
INVARIANTS TypeOK OneConnection LinkDeadIsFound NamedIsInitialised
PROPERTIES ThingsKept LinkDeadSleeps DialoguesEnd
