\* Webserver and USB console set values against the task.
CONSTANTS
  Web = web
  Usb = usb
  Setters = {web, usb}
  MaxSets = 2
  Long = {2}
  RetryPeriod = 4
  RetryAt = 3
  MaxRound = 2
SPECIFICATION Spec
INVARIANTS TypeOK TriedUnlessMissed FlashFollows
PROPERTIES NameAnnounced
