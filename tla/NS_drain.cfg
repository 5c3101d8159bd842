\* Two segments take the same values in turn, are deleted, drained and removed by
\* two runs, while an instance allocates and a host comes.
CONSTANTS
  s1 = s1
  s2 = s2
  g1 = g1
  i1 = i1
  i2 = i2
  Segment = {s1, s2}
  Generated <- NoneGenerated
  Owner <- NoOwner
  Instance = {i1}
  Host = {m1}
  Handler = {h1, h2}
  Pool = {vni, vlan}
  Value = {v1}
  NoSegment = NoSegment
  NoValue = NoValue
  DrainPeriod = 2
  TxnLimit = 1
  MaxAttach = 1
SPECIFICATION Spec
INVARIANTS TypeOK NoAddressOnRemovedSegment PoolsMatchSegments
SYMMETRY Symmetry
