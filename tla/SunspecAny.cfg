\* Any clients, with resets and closes: the invariants of every behaviour.
CONSTANTS
  p1 = p1
  p2 = p2
  NoPcb = NoPcb
  Pcbs = {p1, p2}
  Slots = 2
  Cells = 2
  Window = 1
  MaxSessions = 3
  MaxResets = 1
  Pipelined = TRUE
SPECIFICATION Spec
SYMMETRY PcbSymmetry
VIEW Seen
INVARIANTS TypeOK SlotsAccounted OpenIsListed NoLostWakeup ReplyToRequester NothingInvented
\* A hard fault stops the program.
CHECK_DEADLOCK FALSE
