SPECIFICATION EventSpec
CONSTANTS
  Callers = {c1}
  NumSyncers = 1
  Msgs = {1, 2, 3}
  Events = {"e1", "ff"}
  INVALID_EVENT = "ff"
  EventOf <- MCEventOf
  Poster = poster
  NULL = null
  SpuriousWakeups = FALSE
  NestedCalls = FALSE
  Kinds = {"data", "act"}
  MAX_MSG_NUM = 3
  Msg_pkg = {1, 2, 3}
  Blank = blank
PROPERTY DirectIsHandled
