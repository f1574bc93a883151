\* The NFT comes to a chain with sg-ics721 without on-chain data and goes on from there.
SPECIFICATION DataSpec
CONSTANTS
  A = A
  B = B
  C = C
  ch0 = ch0
  ch1 = ch1
  coll = coll
  t1 = t1
  t2 = t2
  e1 = e1
  Chains = {A, B, C}
  ChannelIds = {ch0, ch1}
  Peer <- RowPeer
  Collections = {coll}
  HomeOf <- Home
  TokenIds = {t1}
  Users = {u1}
  Refusing = {}
  Vetoing = {}
  Receivers = {u1}
  Pausers = {}
  NoPauser = NoPauser
  Ics721 = Ics721
  BadAddress = BadAddress
  NoOne = NoOne
  NoChannel = NoChannel
  MaxHops = 2
  MaxPackets = 2
  MaxMigrations = 0
  Stargaze = {B}
  Extensions = {Blank}
  Blank = Blank
  NoData = NoData
  Infos = {i1}
  QueriesOf <- OldQueries
  NoClass = NoClass
  NotSent = NotSent
  NoToken = NoToken
  QueryError = QueryError
  MaxEdits = 0
INVARIANTS
  FallbackOnlyAtHome
\* Packets are bounded: the system stops when none is left.
CHECK_DEADLOCK FALSE
