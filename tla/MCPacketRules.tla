--------------------------- MODULE MCPacketRules ---------------------------
(* Constants for model checking PacketRules.                               *)
EXTENDS PacketRules
=============================================================================
