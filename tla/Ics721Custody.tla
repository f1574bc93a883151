--------------------------- MODULE Ics721Custody ---------------------------
(***************************************************************************)
(* The network of bridges implements NftCustody: the place of an NFT is    *)
(* read off the owners on all chains and the packets that are not decided. *)
(* Escrowed NFTs, vouchers that wait to be burned and acknowledgements on  *)
(* their way disappear in the abstraction.                                 *)
(***************************************************************************)
EXTENDS Ics721Net

Items == Collections \X TokenIds

Copies(item) == {n \in Nfts : n.class.base = item[1] /\ n.token = item[2]}
HeldCopies(item) == {n \in Copies(item) : nftOwner[n] \in Users}
Carriers(item) == {p \in packets : Unresolved(p) /\ SourceNft(p) \in Copies(item)}

PlaceOf(item) ==
  IF HeldCopies(item) # {}
  THEN LET n == CHOOSE n \in HeldCopies(item) : TRUE
       IN  [chain |-> n.chain, user |-> nftOwner[n]]
  ELSE IF Carriers(item) # {}
  THEN LET p == CHOOSE p \in Carriers(item) : TRUE
       IN  [from |-> [chain |-> p.src.chain, user |-> p.sender],
            to |-> Dest(p).chain, receiver |-> p.receiver]
  ELSE [gone |-> TRUE]

Custody == INSTANCE NftCustody WITH place <- [item \in Items |-> PlaceOf(item)]

\* Every behaviour of the network, seen as places of NFTs, is one the custody
\* promise allows: transfers arrive at the receiver they name or are undone, and
\* no acknowledgement, timeout, burn or late packet moves an NFT otherwise
\* (receive_nft, receive_ibc_packet, ibc_packet_ack, handle_packet_fail).
ImplementsCustody == Custody!Spec
=============================================================================
