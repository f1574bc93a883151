--------------------------- MODULE AdminRecovery ---------------------------
(***************************************************************************)
(* The two messages by which the admin of a bridge contract takes an NFT   *)
(* out of the bridge "in case something goes wrong" (msg.rs), added to the *)
(* network of bridges.                                                     *)
(*                                                                         *)
(* The contract checks that the class and the collection belong together   *)
(* and who owns the NFT, but it cannot see the other chains.  `Settled` is *)
(* what the operators have to find out there before they use the messages: *)
(* the module shows that with this rule the books of the network stay      *)
(* right, whatever transfers go on at the same time.                       *)
(***************************************************************************)
EXTENDS Ics721Net

\* Leaves the metadata of the NFT behind.
FaultyCleanIncoming(nft) ==
  incoming' = [incoming EXCEPT ![nft] = NoChannel] /\ UNCHANGED metadata

CleanIncoming(nft) ==
  incoming' = [incoming EXCEPT ![nft] = NoChannel] /\ metadata' = metadata \ {nft}

\* Leaves the entry of the NFT behind.
FaultyCleanOutgoing(nft) == UNCHANGED outgoing

CleanOutgoing(nft) == outgoing' = [outgoing EXCEPT ![nft] = NoChannel]

\* AdminCleanAndBurnNft: removes the incoming channel and the metadata and burns the
\* NFT if it exists.  The owner has to be named, and a user has to approve.
AdminCleanAndBurnNft(nft, owner) ==
  /\ ErrorIfPaused(po[nft.chain]) /\ Registered(nft)
  /\ nftOwner[nft] \in {owner, NoOne}
  /\ CleanIncoming(nft)
  /\ nftOwner' = [nftOwner EXCEPT ![nft] = NoOne]
  /\ UNCHANGED <<outgoing, registry, po, packets, nextSeq, migrations>>

\* AdminCleanAndUnescrowNft: removes the outgoing channel and transfers the NFT if it
\* exists.
AdminCleanAndUnescrowNft(nft, recipient) ==
  /\ ErrorIfPaused(po[nft.chain]) /\ Registered(nft)
  /\ nftOwner[nft] = NoOne \/ TransferWorks(nft, recipient)
  /\ CleanOutgoing(nft)
  /\ nftOwner' = [nftOwner EXCEPT ![nft] = IF @ = NoOne THEN NoOne ELSE recipient]
  /\ UNCHANGED <<incoming, metadata, registry, po, packets, nextSeq, migrations>>

-----------------------------------------------------------------------------
\* The operators' rule: no packet holds the NFT, and no voucher stands for it on the
\* next chain - it has been burned there first.  Burning is for vouchers: the contract
\* calls the class the child class.
Settled(nft) ==
  /\ \A p \in packets : Binds(p) => SourceNft(p) # nft
  /\ \A voucher \in Nfts : IsVoucher(voucher) /\ Live(voucher) => Origin(voucher) # nft

AdminNext ==
  \E nft \in Nfts :
    /\ Settled(nft)
    /\ \/ IsVoucher(nft) /\ \E owner \in Accounts : AdminCleanAndBurnNft(nft, owner)
       \/ \E recipient \in Users : AdminCleanAndUnescrowNft(nft, recipient)

RecoverySpec == Init /\ [][Next \/ AdminNext]_vars

-----------------------------------------------------------------------------
\* What the proof of IInv lacks when the admin may release an NFT: on the way from
\* its home chain through all its vouchers, an NFT has a single end, that is one
\* that exists and that no voucher stands for.
End(nft) ==
  /\ Live(nft)
  /\ \A voucher \in Nfts : IsVoucher(voucher) /\ Live(voucher) => Origin(voucher) # nft

SingleEnd == \A m, n \in Nfts : SameNft(m, n) /\ End(m) /\ End(n) => m = n

=============================================================================
