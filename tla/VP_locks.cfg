\* Two requests want both IPv4 prefixes, one of them with an IPv6 linknet on top,
\* while other writers store and remove networks and prefixes are deleted.
CONSTANTS
  r1 = r1
  r2 = r2
  Prefix = {1, 2, 3}
  GroupOf <- Groups
  Capacity <- Capacities
  Request = {r1, r2}
  NoRequest = NoRequest
  Work = {1, 2, 3, 4, 5}
  RequestOf <- Requests
  WorkGroup <- WorkGroups
  Wanted <- WantedPrefixes
  PrimaryOf <- Primaries
  Automatic = Automatic
  Attempts = 2
  NoIndex = NoIndex
  MaxDirect = 1
  MaxDeleted = 2
SPECIFICATION Spec
INVARIANTS TypeOK AttachFindsSegment DrainedPrefixIsUnused NoWaitCycle LinknetsAreDisjoint
PROPERTIES NoLinknetAfterDeletion
CHECK_DEADLOCK FALSE
