\* Three chains in a row: owners burn vouchers or send them to a contract, and admins
\* clean up after them while other transfers go on.
SPECIFICATION RecoverySpec
CONSTANTS
  A = A
  B = B
  C = C
  ch0 = ch0
  ch1 = ch1
  coll = coll
  u1 = u1
  u2 = u2
  Chains = {A, B, C}
  ChannelIds = {ch0, ch1}
  Peer <- RowPeer
  Collections = {coll}
  HomeOf <- Home
  TokenIds = {t1}
  Users = {u1}
  Refusing = {}
  Vetoing = {}
  Receivers = {u1}
  Pausers = {}
  NoPauser = NoPauser
  Ics721 = Ics721
  BadAddress = BadAddress
  NoOne = NoOne
  NoChannel = NoChannel
  MaxHops = 2
  MaxPackets = 5
  MaxMigrations = 0
INVARIANTS
  IInv
  SingleEnd
  HomeEntriesEscrowed
\* Packets are bounded: the system stops when none is left.
CHECK_DEADLOCK FALSE
