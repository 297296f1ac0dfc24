\* esi/src/launcher.c:181, refuted by OPERATION_ERROR telling only the coordinator.
SPECIFICATION FairSpec
CONSTANTS
  e1 = e1
  e2 = e2
  i1 = i1
  i2 = i2
  a = a
  p = p
  long = long
  short = short
  capitalA = capitalA
  None = None
  Mortal = {}
  ESI = {e1, e2}
  Inst = {i1, i2}
  Key = {a, p}
  Value = {long, short}
  ShortValue = {}
  Windows = {}
  BLOCKED_KEYS <- NoneBlocked
  INIT_ID = 0
  EST_ZERO = 3
  ALPHA = 50
  PLAN_ALG = "FIFO"
  LowerCase <- Capitals
  Commands <- OnlyUnblockP
  MaxCommands = 1
  Script <- ContentionScript
  NoNewline = {}
  DISTR_ALG = "EL"
  Q_ENTRIES = 2
PROPERTIES
  ErrorEndsExecution
CHECK_DEADLOCK FALSE
