SPECIFICATION SyncSpec
CONSTANTS
  Callers = {c1, c2, c3}
  NumSyncers = 2
  Msgs = {1, 2}
  Events = {"e1", "e2", "ff"}
  INVALID_EVENT = "ff"
  EventOf <- MCEventOfMixed
  Poster = poster
  NULL = null
  SpuriousWakeups = TRUE
  NestedCalls = TRUE
  Kinds = {"data", "act"}
SYMMETRY MCSymmetry
CHECK_DEADLOCK FALSE
INVARIANTS
  TypeOK
  SlotOwnership
  RegistrationIntegrity
  SignalledGetsOwnEvent
  SpuriousSeesNoOtherEvent
  StuckOnlyInLockCycle
PROPERTIES
  DirectOnlyWhenUnawaited
  SyncedHadWaiter
  LockCycleIsForever
  WrittenOnlyDuringItsCall
