\* Any two commands, at any time.  The system may stop.
SPECIFICATION Spec
CONSTANTS
  e1 = e1
  e2 = e2
  i1 = i1
  i2 = i2
  a = a
  p = p
  long = long
  short = short
  capitalA = capitalA
  None = None
  Mortal = {}
  ESI = {e1, e2}
  Inst = {i1}
  Key = {a, p}
  Value = {long, short}
  ShortValue = {}
  Windows = {"console"}
  BLOCKED_KEYS <- PBlocked
  INIT_ID = 0
  EST_ZERO = 3
  ALPHA = 50
  PLAN_ALG = "FIFO"
  LowerCase <- Capitals
  Commands <- RaceCommands
  MaxCommands = 2
  Script <- ConsoleScript
  NoNewline = {}
  DISTR_ALG = "EL"
  Q_ENTRIES = 2
INVARIANTS
  PlannerInv
CHECK_DEADLOCK FALSE
