-------------------------- MODULE MCClassRegistry --------------------------
(* Constants for model checking ClassRegistry.                             *)
EXTENDS ClassRegistry, TLC

CONSTANTS k1, k2, full, short, coll, voucher, voucher2

\* Different codes.
MCChecksum == (1 :> k1) @@ (2 :> k2)

\* A collection of this chain and one of vouchers, made with the first code.
MCLegacyInfo ==
  (coll :> coll) @@ (voucher2 :> NoContract) @@
  (voucher :> [class |-> voucher, checksum |-> k1, length |-> full])
=============================================================================
