\* The USB console connects to another network.
CONSTANTS
  Web = web
  Usb = usb
  Setters = {usb}
  MaxSets = 3
  Long = {}
  RetryPeriod = 4
  RetryAt = 3
  MaxRound = 2
SPECIFICATION Spec
INVARIANT TriedAsStored
