---------------------------- MODULE MCBridgeSetup ----------------------------
(* Constants for model checking BridgeSetup.                                 *)
EXTENDS BridgeSetup
=============================================================================
