\* Three chains in a row: an NFT and its collection are changed at home between the
\* journeys of the NFT, vouchers are burned and the admins clean up.
SPECIFICATION DataSpec
CONSTANTS
  A = A
  B = B
  C = C
  ch0 = ch0
  ch1 = ch1
  coll = coll
  t1 = t1
  t2 = t2
  e1 = e1
  Chains = {A, B, C}
  ChannelIds = {ch0, ch1}
  Peer <- RowPeer
  Collections = {coll}
  HomeOf <- Home
  TokenIds = {t1}
  Users = {u1}
  Refusing = {}
  Vetoing = {}
  Receivers = {u1}
  Pausers = {}
  NoPauser = NoPauser
  Ics721 = Ics721
  BadAddress = BadAddress
  NoOne = NoOne
  NoChannel = NoChannel
  MaxHops = 2
  MaxPackets = 3
  MaxMigrations = 0
  Stargaze = {C}
  Extensions = {e1, Blank}
  Blank = Blank
  NoData = NoData
  Infos = {i1, i2}
  QueriesOf <- OldQueries
  NoClass = NoClass
  NotSent = NotSent
  NoToken = NoToken
  QueryError = QueryError
  MaxEdits = 2
INVARIANTS
  DataInv
  DataAsSent
  HopsAgree
  OneDescription
  QueriesAnswer
\* Packets are bounded: the system stops when none is left.
CHECK_DEADLOCK FALSE
