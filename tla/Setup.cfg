\* One code for both proxies, two pausers, admins and code ids; any number of migrations.
SPECIFICATION Spec
CONSTANTS
  Pausers = {u1, u2}
  NoPauser = NoPauser
  Codes = {k1, k2}
  ProxyCodes = {p1}
  Proxies = {x1}
  Admins = {a1, a2}
  Lengths = {20}
  None = None
  Immutable = Immutable
  NoBridge = NoBridge
INVARIANTS
  SettingsAsTold
  PauseOnce
