\* What the callers of write() take PICO_OK for.
CONSTANTS
  web = web
  usb = usb
  NoTask = NoTask
  Tasks = {web, usb}
  Fields <- MCFields
  Offset <- MCOffset
  Size <- MCSize
  LayoutSize = 5
  FlashSize = 8
  Sector = 4
  Page = 2
  Bits = {1}
  Samples <- MCSamples
  Contents <- MCContents
  Faults = TRUE
SPECIFICATION Spec
INVARIANT OkMeansStored
