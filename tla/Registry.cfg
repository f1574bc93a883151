\* A collection of this chain and two foreign classes, two codes and two address
\* lengths, of which the chain has one; with and without an older version.
SPECIFICATION Spec
CONSTANTS
  k1 = k1
  k2 = k2
  full = full
  short = short
  coll = coll
  voucher = voucher
  voucher2 = voucher2
  LocalContracts = {coll}
  ForeignClasses = {voucher, voucher2}
  Codes = {1, 2}
  Checksum <- MCChecksum
  Lengths = {full, short}
  ChainLength = full
  LegacyInfo <- MCLegacyInfo
  NoContract = NoContract
  MaxMigrations = 3
INVARIANTS
  VouchersKnown
  OneCollectionPerClass
PROPERTIES
  CollectionsStay
\* Everything is registered and no migration is left.
CHECK_DEADLOCK FALSE
