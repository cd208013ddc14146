SPECIFICATION SyncSpec
CONSTANTS
  Callers = {c1, c2}
  NumSyncers = 2
  Msgs = {1, 2}
  Events = {"e1", "ff"}
  INVALID_EVENT = "ff"
  EventOf <- MCEventOfPair
  Poster = poster
  NULL = null
  SpuriousWakeups = FALSE
  NestedCalls = FALSE
  Kinds = {"data", "act", "none"}
PROPERTIES
  WaitReturns
  PostReturns
  SignalledSucceeds
