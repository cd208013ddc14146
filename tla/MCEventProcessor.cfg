SPECIFICATION EventSpec
CONSTANTS
  Callers = {c1}
  NumSyncers = 1
  Msgs = {1, 2, 3}
  Events = {"e1", "ff"}
  INVALID_EVENT = "ff"
  EventOf <- MCEventOf
  Poster = poster
  NULL = null
  SpuriousWakeups = TRUE
  NestedCalls = FALSE
  Kinds = {"data", "act", "none"}
  MAX_MSG_NUM = 3
  Msg_pkg = {1, 2, 3}
  Blank = blank
INVARIANTS
  ProcessorTypeOK
  MailboxKeepsTheFirst
PROPERTIES
  NoSleepOverMail
  ImplementsSyncer
