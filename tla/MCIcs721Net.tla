---------------------------- MODULE MCIcs721Net ----------------------------
(* Topologies and constants for model checking Ics721Net.                  *)
EXTENDS Ics721Custody, TLC

CONSTANTS A, B, ch0, ch1, coll, u1, u2

End(chain, channel) == [chain |-> chain, channel |-> channel]

\* Two chains with two parallel channels.  Channel ids are local: ch1 of A
\* is linked to ch0 of B.
TwoChains == {A, B}
ParallelPeer == (End(A, ch0) :> End(B, ch1)) @@ (End(B, ch1) :> End(A, ch0)) @@
                (End(A, ch1) :> End(B, ch0)) @@ (End(B, ch0) :> End(A, ch1))

\* One channel.
SinglePeer == (End(A, ch0) :> End(B, ch0)) @@ (End(B, ch0) :> End(A, ch0))

Home == [c \in Collections |-> A]
=============================================================================
