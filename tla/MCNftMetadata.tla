--------------------------- MODULE MCNftMetadata ---------------------------
(* Constants for model checking NftMetadata.                               *)
EXTENDS NftMetadata, TLC

CONSTANTS A, B, C, ch0, ch1, coll, t1, t2, e1

ChannelEnd(chain, channel) == [chain |-> chain, channel |-> channel]

\* Two chains.
PairPeer == (ChannelEnd(A, ch0) :> ChannelEnd(B, ch0)) @@
            (ChannelEnd(B, ch0) :> ChannelEnd(A, ch0))

\* Three chains in a row.
RowPeer ==
  PairPeer @@
  (ChannelEnd(B, ch1) :> ChannelEnd(C, ch0)) @@ (ChannelEnd(C, ch0) :> ChannelEnd(B, ch1))

Home == [c \in Collections |-> A]

\* A collection of sg721 on an older cw721.
OldQueries == [c \in Collections |-> {"Minter", "ContractInfo", "NumTokens", "CollectionInfo"}]
=============================================================================
