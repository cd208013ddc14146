SPECIFICATION Spec
CONSTANTS
  PKG = 7
  Frames = {"new0", "new1", "old1", "half", "alien", "zeros"}
  Bytes <- MCBytes
  Package <- MCPackage
  MaxSent = 3
  SELF_CARD = 1
CHECK_DEADLOCK FALSE
INVARIANT ReceivedIsForwarded
