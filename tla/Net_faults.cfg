\* One channel and everything that can make a transfer fail: vetoes, bad and
\* refusing receivers, pauses, migrations, owners that burn NFTs or send them to
\* the contract.
SPECIFICATION Spec
CONSTANTS
  A = A
  B = B
  ch0 = ch0
  ch1 = ch1
  coll = coll
  u1 = u1
  u2 = u2
  Chains <- TwoChains
  ChannelIds = {ch0}
  Peer <- SinglePeer
  Collections = {coll}
  HomeOf <- Home
  TokenIds = {t1}
  Users = {u1, u2}
  Refusing = {u2}
  Vetoing = {B}
  Receivers = {u1, u2, Ics721, BadAddress}
  Pausers = {guardian}
  NoPauser = NoPauser
  Ics721 = Ics721
  BadAddress = BadAddress
  NoOne = NoOne
  NoChannel = NoChannel
  MaxHops = 1
  MaxPackets = 3
  MaxMigrations = 1
INVARIANTS
  TypeOK
  OneBindingPacket
PROPERTIES
  PausedChainFrozen
  ImplementsCustody
\* Packets are bounded: the system stops when none is left.
CHECK_DEADLOCK FALSE
