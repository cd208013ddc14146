SPECIFICATION Spec
CONSTANTS
  Msgs = {m1, m2, m3}
  NeedAck = {m1, m2}
  Frames = {f1, f2, f3}
  Passing = {f1, f2}
  MAX_MSG_NUM = 1
  Clocks <- MCClocks
  OpenMayFail = TRUE
  SpuriousWakeups = TRUE
  MaxRestarts = 1
  NULL = null
INVARIANTS
  TransmitterTypeOK
  SuccessIsAcknowledged
PROPERTIES
  AcknowledgedLateInSecond
  ImplementsRelay
CHECK_DEADLOCK FALSE
