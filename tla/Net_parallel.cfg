\* Two chains, two parallel channels: returns by the same and by the other channel, late
\* acknowledgements, vouchers of vouchers, and relayers that bring every packet to an end.
SPECIFICATION FairSpec
CONSTANTS
  A = A
  B = B
  ch0 = ch0
  ch1 = ch1
  coll = coll
  u1 = u1
  u2 = u2
  Chains <- TwoChains
  ChannelIds = {ch0, ch1}
  Peer <- ParallelPeer
  Collections = {coll}
  HomeOf <- Home
  TokenIds = {t1}
  Users = {u1}
  Refusing = {}
  Vetoing = {}
  Receivers = {u1, BadAddress}
  Pausers = {}
  NoPauser = NoPauser
  Ics721 = Ics721
  BadAddress = BadAddress
  NoOne = NoOne
  NoChannel = NoChannel
  MaxHops = 2
  MaxPackets = 6
  MaxMigrations = 0
INVARIANTS
  InFlightLocked
  IncomingIsLastHop
  ReturnsRedeemable
  VouchersBacked
  SingleOwner
PROPERTIES
  PacketsResolve
\* Packets are bounded: the system stops when none is left.
CHECK_DEADLOCK FALSE
