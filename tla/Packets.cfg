\* Every packet of up to two tokens, against every state of two tokens.
SPECIFICATION Spec
CONSTANTS
  TokenIds = {t1, t2}
  Uris = {uri}
  Data = {d1, d2}
  None = None
  MaxTokens = 2
  Channel = Channel
  OtherChannel = OtherChannel
  NoChannel = NoChannel
  Ics721 = Ics721
  User = User
  NoOne = NoOne
  OldData = d1
INVARIANTS
  TypeOK
  EveryTokenArrives
  SuccessIffReceivable
\* A packet is received once.
CHECK_DEADLOCK FALSE
