SPECIFICATION StartSpec
CONSTANTS
  Callers = {c1}
  NumSyncers = 2
  Msgs = {1, 2}
  Events = {"zero", "e1", "ff"}
  INVALID_EVENT = "ff"
  ZERO_EVENT = "zero"
  Wanted <- MCWanted
  EventOf <- MCEventOf
  Poster = poster
  NULL = null
  SpuriousWakeups = TRUE
  NestedCalls = FALSE
  Kinds = {"data", "act"}
  MAX_MSG_NUM = 2
  Msg_pkg = {1, 2}
  Blank = blank
  ConnectTries = 2
  Backlog = 1
  CreateMayFail = TRUE
INVARIANTS
  StartTypeOK
  StartIsSafeUnlessRaced
  StuckOnlyIfLeft
PROPERTIES
  FateAtStart
  SleepsOverMailForReason
  SendResultHolds
