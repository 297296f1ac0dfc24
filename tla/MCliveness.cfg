\* The same with fair threads: what must happen in the end.
SPECIFICATION FairSpec
CONSTANTS
  e1 = e1
  e2 = e2
  i1 = i1
  i2 = i2
  a = a
  p = p
  long = long
  short = short
  capitalA = capitalA
  None = None
  Mortal = {e1}
  ESI = {e1, e2}
  Inst = {i1}
  Key = {p}
  Value = {long}
  ShortValue = {}
  Windows = {}
  BLOCKED_KEYS <- PBlocked
  INIT_ID = 0
  EST_ZERO = 3
  ALPHA = 50
  PLAN_ALG = "FIFO"
  LowerCase <- Capitals
  Commands <- OnlyUnblockP
  MaxCommands = 1
  Script <- HerdScript
  NoNewline = {}
  DISTR_ALG = "EL"
  Q_ENTRIES = 2
PROPERTIES
  EveryoneSettles
  FreeKeyWakes
  AllFinish
