SPECIFICATION SyncSpec
CONSTANTS
  Callers = {c1, c2}
  NumSyncers = 2
  Msgs = {1, 2, 3}
  Events = {"e1", "e2", "ff"}
  INVALID_EVENT = "ff"
  EventOf <- MCEventOf
  Poster = poster
  NULL = null
  SpuriousWakeups = FALSE
  NestedCalls = FALSE
  Kinds = {"data", "act"}
SYMMETRY MCSymmetry
INVARIANT SyncedIsReceived
