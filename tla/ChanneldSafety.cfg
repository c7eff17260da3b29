SPECIFICATION Spec
CONSTANTS
  Players = {p, q}
  Grown = {p, q}
  Channels = {x}
  Fixed = {x}
  CHMASTER = CHMASTER
  Nil = Nil
  Texts = {t}
  StdInfo = t
  MAX_HIST_SIZE = 0
  MAX_CHANNELS = 1
  MaxZeros = 1
  MaxList = 2
INVARIANTS ChannelsOK
PROPERTIES ListSurvivesLogout
