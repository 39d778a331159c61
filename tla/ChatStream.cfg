SPECIFICATION FairSpec
CONSTANTS
  Streams = {s1, s2}
  Posts = {p1}
  Slots = 2
INVARIANTS ProxyTypeOK WireIsWellFormed ConnectionsHaveOwners
PROPERTIES CallsGetTheirTurn KeepsItsPromise
CHECK_DEADLOCK FALSE
