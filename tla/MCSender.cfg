SPECIFICATION Spec
CONSTANTS
  Events = {16, 127, 128, 255, 256}
  Places <- MCPlaces
  Data <- MCData
  CmdTypes = {1, 200}
  SELF <- MCSelf
  SELF_PID = 100
  COMM_MATRIX = {100}
  CheckMayPass = TRUE
  NULL = null
INVARIANTS
  SenderTypeOK
  DeliveredAsSent
  OldArrivesIntact
PROPERTIES
  AcceptedIsDelivered
CHECK_DEADLOCK FALSE
