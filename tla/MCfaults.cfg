\* Faulty scripts, two Instances that share the operations of a key, and three
\* windows open.  The system may stop.
SPECIFICATION Spec
CONSTANTS
  e1 = e1
  e2 = e2
  i1 = i1
  i2 = i2
  a = a
  p = p
  long = long
  short = short
  capitalA = capitalA
  None = None
  Mortal = {}
  ESI = {e1, e2}
  Inst = {i1, i2}
  Key = {a, p}
  Value = {long, short}
  ShortValue = {short}
  Windows = {"handshake", "redo", "answers"}
  BLOCKED_KEYS <- PBlocked
  INIT_ID = 0
  EST_ZERO = 3
  ALPHA = 50
  PLAN_ALG = "FIFO"
  LowerCase <- Capitals
  Commands <- UnblockAny
  MaxCommands = 1
  Script <- FaultyScript
  NoNewline = {e1}
  DISTR_ALG = "EL"
  Q_ENTRIES = 2
INVARIANTS
  SingleRunning
  QueuePartition
  WaitersParked
  NoLostWakeup
PROPERTIES
  ImplementsLifecycle
CHECK_DEADLOCK FALSE
