\* A generated segment that two instances use, and a host that comes once.
CONSTANTS
  s1 = s1
  s2 = s2
  g1 = g1
  i1 = i1
  i2 = i2
  Segment = {g1}
  Generated <- OneGenerated
  Owner <- OneOwner
  Instance = {i1, i2}
  Host = {m1}
  Handler = {h1, h2}
  Pool = {vni}
  Value = {v1}
  NoSegment = NoSegment
  NoValue = NoValue
  DrainPeriod = 2
  TxnLimit = 1
  MaxAttach = 1
SPECIFICATION LiveSpec
INVARIANTS NoAddressOnRemovedSegment
PROPERTIES DeletedSegmentsGo
