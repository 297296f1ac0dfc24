\* One ESI that does not wait for the Instances.  The system may stop.
SPECIFICATION Spec
CONSTANTS
  e1 = e1
  e2 = e2
  i1 = i1
  i2 = i2
  a = a
  p = p
  long = long
  short = short
  capitalA = capitalA
  None = None
  Mortal = {e1, i1}
  ESI = {e1}
  Inst = {i1, i2}
  Key = {a, p}
  Value = {long, short}
  ShortValue = {}
  Windows = {"startup"}
  BLOCKED_KEYS <- NoneBlocked
  INIT_ID = 0
  EST_ZERO = 3
  ALPHA = 50
  PLAN_ALG = "FIFO"
  LowerCase <- Capitals
  Commands <- OnlyUnblockP
  MaxCommands = 0
  Script <- TwoKeysScript
  NoNewline = {}
  DISTR_ALG = "EL"
  Q_ENTRIES = 2
INVARIANTS
  ToldWhatHappened
  ToldInv
  TypeOK
  BlocksApart
  CrashesExplained
PROPERTIES
  ImplementsKeyStore
CHECK_DEADLOCK FALSE
