-------------------------- MODULE MCAdminRecovery --------------------------
(* Constants for model checking AdminRecovery.                             *)
EXTENDS AdminRecovery, TLC

CONSTANTS A, B, C, ch0, ch1, coll, u1, u2

ChannelEnd(chain, channel) == [chain |-> chain, channel |-> channel]

\* Three chains in a row.
RowPeer ==
  (ChannelEnd(A, ch0) :> ChannelEnd(B, ch0)) @@ (ChannelEnd(B, ch0) :> ChannelEnd(A, ch0)) @@
  (ChannelEnd(B, ch1) :> ChannelEnd(C, ch0)) @@ (ChannelEnd(C, ch0) :> ChannelEnd(B, ch1))

Home == [c \in Collections |-> A]
=============================================================================
