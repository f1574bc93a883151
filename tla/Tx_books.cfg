\* Two channels, one of them with a collection that cannot be instantiated: what the
\* books say between transactions while callbacks fail, hand on, send on and pause.
SPECIFICATION Spec
CONSTANTS
  Channels = {ch0, ch1}
  Home = home
  Tokens = {t1}
  Users = {u1}
  Hook = hook
  Pausers = {hook}
  NoPauser = NoPauser
  Ics721 = Ics721
  NoOne = NoOne
  NoChannel = NoChannel
  Proxies <- AnyProxies
  Instantiable = {ch0}
  ResendsRedeemed = FALSE
  MaxPackets = 2
INVARIANTS
  TypeOK
  AwayIsRedeemable
  EscrowedIsAway
  VoucherBooks
  ResolveNeverReverts
PROPERTIES
  CallbackFailure
