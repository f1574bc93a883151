------------------------- MODULE MCChannelHandshake -------------------------
(* Constants for model checking ChannelHandshake.                          *)
EXTENDS ChannelHandshake, TLC

CONSTANTS a1, a2, b1, c1, A, B, C

\* Two ends of one bridge, one of another, and one of a different application.
MCChainOf == (a1 :> A) @@ (a2 :> A) @@ (b1 :> B) @@ (c1 :> C)
=============================================================================
