\* One client resets its connection.
CONSTANTS
  NoPcb = NoPcb
  Pcbs = {p1, p2, p3}
  Slots = 2
  Window = 1
  MaxSessions = 4
  MaxAborts = 0
SPECIFICATION Spec
PROPERTIES ResetClosesNoOther
CHECK_DEADLOCK FALSE
