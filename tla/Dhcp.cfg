\* Three clients for two addresses, over more than a wrap of the clock.
CONSTANTS
  c1 = c1
  c2 = c2
  c3 = c3
  NoMac = NoMac
  Macs = {c1, c2, c3}
  Slots = 2
  Lease = 3
  Unit = 2
  Units = 5
  MaxTime = 13
SPECIFICATION Spec
SYMMETRY MacSymmetry
INVARIANTS TypeOK NoDoubleLease OfferIsFree RefusedOnlyWhenFull
\* The clock is bounded, but messages keep coming: the model does not stop.
