\* Clients that send a request only when their last one was answered.
CONSTANTS
  p1 = p1
  p2 = p2
  NoPcb = NoPcb
  Pcbs = {p1, p2}
  Slots = 2
  Cells = 2
  Window = 2
  MaxSessions = 2
  MaxResets = 0
  Pipelined = FALSE
SPECIFICATION Spec
CONSTRAINT FewRequests
PROPERTIES IsRequestService RequestAnswered
\* A hard fault stops the program.
CHECK_DEADLOCK FALSE
