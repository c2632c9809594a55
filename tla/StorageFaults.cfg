\* Power failures and refused flash operations at every step.
CONSTANTS
  web = web
  usb = usb
  NoTask = NoTask
  Tasks = {web, usb}
  Fields <- MCFields
  Offset <- MCOffset
  Size <- MCSize
  LayoutSize = 5
  FlashSize = 8
  Sector = 4
  Page = 2
  Bits = {1}
  Samples <- MCSamples
  Contents <- MCContents
  Faults = TRUE
SPECIFICATION Spec
INVARIANTS TypeOK
PROPERTIES OnlyOwnWriteChanges
