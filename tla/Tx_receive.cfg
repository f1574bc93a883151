\* One channel, packets of one and of two tokens: what the incoming proxy and the
\* callback contract see from within a transaction, and what is left of it.
SPECIFICATION Spec
CONSTANTS
  Channels = {ch0}
  Home = home
  Tokens = {t1, t2}
  Users = {u1}
  Hook = hook
  Pausers = {hook}
  NoPauser = NoPauser
  Ics721 = Ics721
  NoOne = NoOne
  NoChannel = NoChannel
  Proxies <- BothProxies
  Instantiable = {ch0}
  ResendsRedeemed = FALSE
  MaxPackets = 1
SYMMETRY TokenSymmetry
INVARIANTS
  ReceiveAcknowledged
  ObserversSeeTransfer
  NoReceiptWhenPaused
PROPERTIES
  ImplementsLedger
