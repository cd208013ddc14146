SPECIFICATION Spec
CONSTANTS
  MAX_MSG_NUM = 4
  Msg_pkg = {m1, m2}
  Blank = blank
INVARIANTS
  TypeOK
  TraverseIsTheWalk
PROPERTY ImplementsMailQueue
