\* Every way a session can end, aborts by lwIP included.
CONSTANTS
  NoPcb = NoPcb
  Pcbs = {p1, p2, p3}
  Slots = 2
  Window = 2
  MaxSessions = 5
  MaxAborts = 2
SPECIFICATION Spec
INVARIANTS TypeOK OpenHasSlot SlotsAccounted ClosesLivePcbs
PROPERTIES FullEnds
\* Bounded sessions, and undefined behaviour, end a behaviour.
CHECK_DEADLOCK FALSE
