\* A callback contract sends on the NFT that is being redeemed for it.
SPECIFICATION Spec
CONSTANTS
  Channels = {ch0}
  Home = home
  Tokens = {t1}
  Users = {u1}
  Hook = hook
  Pausers = {hook}
  NoPauser = NoPauser
  Ics721 = Ics721
  NoOne = NoOne
  NoChannel = NoChannel
  Proxies <- AnyProxies
  Instantiable = {ch0}
  ResendsRedeemed = TRUE
  MaxPackets = 2
INVARIANTS
  AwayIsRedeemable
