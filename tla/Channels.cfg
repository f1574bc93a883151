\* Two bridges and a chain with another application, four channel ends.
SPECIFICATION FairSpec
CONSTANTS
  a1 = a1
  a2 = a2
  b1 = b1
  c1 = c1
  A = A
  B = B
  C = C
  Ends = {a1, a2, b1, c1}
  ChainOf <- MCChainOf
  Bridges = {A, B}
  Versions = {"ics721-1", "other"}
  IBC_VERSION = "ics721-1"
  NoVersion = "unknown"
  NoEnd = NoEnd
INVARIANTS
  HandshakeInv
  OpenMeansIcs721
  NeverClosesFirst
PROPERTIES
  ClosingFollows
\* Every end is used.
CHECK_DEADLOCK FALSE
