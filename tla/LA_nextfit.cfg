\* All parents in a space of 16 addresses, with up to four stored networks of
\* any size, some of them narrower than a linknet or wider than the parent.
CONSTANTS
  Bits = 4
  Linknet = 2
  NoNetwork = NoNetwork
  NoIndex = NoIndex
  MaxNets = 4
SPECIFICATION Spec
INVARIANTS NextFreeIsFirstAfterCursor CapacityIsExact
