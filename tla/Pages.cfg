\* Two loggers around a ring of three; two readers of the image; bodies around
\* the sizes of one, two and three frames.
CONSTANTS
  Loggers = {l1, l2}
  Size = 3
  PageRoom = 2
  MaxPushes = 5
  Clients = {c1, c2}
  Nobody = Nobody
  Meter = Meter
  MaxAge = 2
  Copies = 2
  BufSize = 9
  MaxChunks = 3
  Retries = 2
  SndBuf = 30
  Heads = {1, 2}
  Bodies = {0, 1, 3, 5, 6, 7, 8, 14, 15, 16, 17, 22, 23, 25}
SPECIFICATION Spec
INVARIANTS TypeOK RingIsNewest PageInOrder PageComplete ResponseWhole
PROPERTIES IsMeasurementBoard PageEnds SignFollows SendReturns
\* Bounded pushes end the log, and an endless loop in send_data the tcpip thread.
CHECK_DEADLOCK FALSE
