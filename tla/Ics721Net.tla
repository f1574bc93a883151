----------------------------- MODULE Ics721Net -----------------------------
(***************************************************************************)
(* A network of chains that each run one instance of the ICS-721 bridge    *)
(* contract (packages/ics721), connected by unordered IBC channels.        *)
(*                                                                         *)
(* One action is one transaction of one chain.  CosmWasm runs a            *)
(* transaction with all its submessages atomically and rolls it back on an *)
(* error, so a handler and the callbacks it schedules on its own contract  *)
(* (execute.rs, CallbackMsg) are a single step here.  What interleaves is  *)
(* what the chains and the relayers do: sends, receives, late or           *)
(* reordered acknowledgements, timeouts, pauses, migrations and the        *)
(* owners' own use of their NFTs.                                          *)
(*                                                                         *)
(* External, modelled from how the contract uses it: cw721 collections     *)
(* (`nftOwner`), IBC core and its relayers (`packets`), incoming proxies   *)
(* and receive callbacks (`Vetoing`).                                      *)
(*                                                                         *)
(* An operator named Faulty... is a bug the code does not have.  Put in    *)
(* the place of the operator after it, it shows which property notices.    *)
(***************************************************************************)
EXTENDS Naturals, Sequences, PausePolicy

CONSTANTS Chains,       \* the chains
          ChannelIds,   \* channel ids, local to a chain: two chains may use the same
          Peer,         \* the counterparty of every open channel end
          Collections,  \* cw721 contracts that were not made by the bridge
          HomeOf,       \* the chain of each of them
          TokenIds,     \* token ids of a collection
          Users,        \* accounts that own NFTs
          Refusing,     \* accounts that a home collection's TransferNft fails for
          Vetoing,      \* chains whose proxy or receive callback may fail a packet
          Receivers,    \* what a sender writes in the packet as receiver
          Ics721,       \* the address of the bridge contract, on its chain
          BadAddress,   \* a receiver that addr_validate refuses
          NoOne,        \* the NFT does not exist
          NoChannel,    \* there is no entry in the channel map
          MaxHops,      \* bound: longest class id, in prefixes
          MaxPackets,   \* bound: packets ever sent
          MaxMigrations \* bound: migrations ever executed

Endpoints == DOMAIN Peer

ASSUME TopologyAssumption ==
  /\ Endpoints \subseteq [chain: Chains, channel: ChannelIds]
  /\ \A e \in Endpoints : Peer[e] \in Endpoints /\ Peer[Peer[e]] = e /\ Peer[e] # e
  /\ HomeOf \in [Collections -> Chains]

ASSUME AddressAssumption ==
  /\ Ics721 \notin Users /\ NoOne \notin Users \cup {Ics721}
  /\ BadAddress \notin Users \cup {Ics721}
  /\ Refusing \subseteq Users
  /\ Receivers \subseteq Users \cup {Ics721, BadAddress}
  /\ NoChannel \notin ChannelIds

ASSUME BoundAssumption ==
  MaxHops \in Nat /\ MaxPackets \in Nat /\ MaxMigrations \in Nat

-----------------------------------------------------------------------------
(* Class ids.  A class id is the address of a collection on its home chain *)
(* behind one "port/channel/" prefix per hop it travelled, the last hop    *)
(* first.  The port is the bridge's own on every chain, so a prefix is a   *)
(* channel id.                                                             *)

HopSeqs == UNION {[1..n -> ChannelIds] : n \in 0..MaxHops}
ClassIds == [hops: HopSeqs, base: Collections]

\* Takes the prefix of any channel for its own.
FaultyHasPrefix(endpoint, class) == class.hops # <<>>

\* class_id.strip_prefix(port/channel/) finds the prefix.
HasPrefix(endpoint, class) ==
  class.hops # <<>> /\ Head(class.hops) = endpoint.channel

StripPrefix(class) == [class EXCEPT !.hops = Tail(@)]

AddPrefix(endpoint, class) == [class EXCEPT !.hops = <<endpoint.channel>> \o @]

\* An NFT of a collection of one chain: the collection is known by the
\* class id that CLASS_ID_AND_NFT_CONTRACT_INFO maps it to.
Nfts == [chain: Chains, class: ClassIds, token: TokenIds]

\* Made by the bridge to stand for an NFT of another chain.
IsVoucher(nft) == nft.class.hops # <<>>
AtHome(nft) == ~ IsVoucher(nft) /\ HomeOf[nft.class.base] = nft.chain

Accounts == Users \cup {Ics721}

PacketStates == {"sent", "ok", "error"}
Packets == [seq: Nat, src: Endpoints, class: ClassIds, token: TokenIds,
            sender: Users, receiver: Receivers, state: PacketStates]

-----------------------------------------------------------------------------
VARIABLES
  nftOwner,    \* owner of every NFT, as its cw721 contract records it
  outgoing,    \* OUTGOING_CLASS_TOKEN_TO_CHANNEL of every chain
  incoming,    \* INCOMING_CLASS_TOKEN_TO_CHANNEL of every chain
  metadata,    \* the NFTs with an IBC_RECEIVE_TOKEN_METADATA entry
  registry,    \* the classes in CLASS_ID_AND_NFT_CONTRACT_INFO of every chain
  po,          \* the pause orchestrator of every chain
  packets,     \* packets of which the sender does not know the end yet
  nextSeq,     \* number of the next packet
  migrations   \* migrations executed

ledger == <<nftOwner, outgoing, incoming, metadata, registry>>
vars == <<nftOwner, outgoing, incoming, metadata, registry, po, packets,
          nextSeq, migrations>>

Dest(p) == Peer[p.src]

\* The NFT a packet moves, as the sending chain knows it.
SourceNft(p) == [chain |-> p.src.chain, class |-> p.class, token |-> p.token]

\* The NFT it becomes on the receiving chain.
LocalNft(p) ==
  [chain |-> Dest(p).chain,
   class |-> IF HasPrefix(p.src, p.class) THEN StripPrefix(p.class)
                                          ELSE AddPrefix(Dest(p), p.class),
   token |-> p.token]

Registered(nft) == nft.class \in registry[nft.chain]

\* cw721 TransferNft, as the contract may call it: only on what it owns.
TransferWorks(nft, to) ==
  nftOwner[nft] = Ics721 /\ (IsVoucher(nft) \/ to \notin Refusing)

\* cw721 Mint: the bridge is minter of the collections it instantiated.
MintWorks(nft) == IsVoucher(nft) /\ nftOwner[nft] = NoOne

-----------------------------------------------------------------------------
Init ==
  /\ \E owner \in [Collections \X TokenIds -> Users] :
       nftOwner = [n \in Nfts |-> IF AtHome(n) THEN owner[<<n.class.base, n.token>>]
                                               ELSE NoOne]
  /\ outgoing = [n \in Nfts |-> NoChannel]
  /\ incoming = [n \in Nfts |-> NoChannel]
  /\ metadata = {}
  /\ registry = [c \in Chains |-> {}]
  /\ \E pauser \in [Chains -> Pausers \cup {NoPauser}] :
       po = [c \in Chains |-> SetPauser(pauser[c])]
  /\ packets = {}
  /\ nextSeq = 1
  /\ migrations = 0

\* Takes an NFT that was not sent to the contract.
FaultyEscrow(nft) == UNCHANGED nftOwner

\* SendNft moves the NFT to the contract, which checks that it owns it now.
Escrow(nft) == nftOwner' = [nftOwner EXCEPT ![nft] = Ics721]

\* The owner calls SendNft on the collection: the NFT moves to the contract,
\* which registers an unknown collection, sends the packet and notes the
\* channel.
SendNft(nft, channel, receiver) ==
  LET src == [chain |-> nft.chain, channel |-> channel]
  IN  /\ nftOwner[nft] \in Users
      /\ ErrorIfPaused(po[nft.chain])
      /\ src \in Endpoints
      /\ nextSeq <= MaxPackets
      /\ HasPrefix(src, nft.class) \/ Len(nft.class.hops) < MaxHops
      /\ Escrow(nft)
      /\ outgoing' = [outgoing EXCEPT ![nft] = channel]
      /\ registry' = [registry EXCEPT ![nft.chain] = @ \cup {nft.class}]
      /\ packets' = packets \cup
           {[seq |-> nextSeq, src |-> src, class |-> nft.class, token |-> nft.token,
             sender |-> nftOwner[nft], receiver |-> receiver, state |-> "sent"]}
      /\ nextSeq' = nextSeq + 1
      /\ UNCHANGED <<incoming, metadata, po, migrations>>

-----------------------------------------------------------------------------
(* Receiving a packet.                                                     *)

Acknowledge(p, ack) ==
  packets' = (packets \ {p}) \cup {[p EXCEPT !.state = ack]}

\* The contract sent this NFT out on the channel it now comes in by.
IsRedemption(p) ==
  HasPrefix(p.src, p.class) /\ outgoing[LocalNft(p)] = Dest(p).channel

\* Receives while the contract is paused.
FaultyReceiveWhenPaused(p) == p.state = "sent" /\ p.receiver \in Accounts

\* Does not validate the receiver's address.
FaultyReceiveToAnyone(p) == p.state = "sent" /\ ErrorIfPaused(po[Dest(p).chain])

\* The guards that hold for both kinds of packet.
ReceiveAllowed(p) ==
  p.state = "sent" /\ ErrorIfPaused(po[Dest(p).chain]) /\ p.receiver \in Accounts

RedemptionWorks(p) ==
  /\ ReceiveAllowed(p) /\ IsRedemption(p)
  /\ Registered(LocalNft(p)) /\ TransferWorks(LocalNft(p), p.receiver)

CreationWorks(p) ==
  ReceiveAllowed(p) /\ ~ IsRedemption(p) /\ MintWorks(LocalNft(p))

RedeemOutgoingEntry(nft) == outgoing' = [outgoing EXCEPT ![nft] = NoChannel]

\* RedeemVouchers, then RedeemOutgoingChannelEntries.
RecvRedeem(p) ==
  /\ RedemptionWorks(p)
  /\ nftOwner' = [nftOwner EXCEPT ![LocalNft(p)] = p.receiver]
  /\ RedeemOutgoingEntry(LocalNft(p))
  /\ Acknowledge(p, "ok")
  /\ UNCHANGED <<incoming, metadata, registry, po, nextSeq, migrations>>

\* Notes the channel of the other chain.
FaultyAddIncomingEntry(nft, p) == incoming' = [incoming EXCEPT ![nft] = p.src.channel]

AddIncomingEntry(nft, p) == incoming' = [incoming EXCEPT ![nft] = Dest(p).channel]

\* CreateVouchers with its Mint, then AddIncomingChannelEntries.
RecvCreate(p) ==
  LET voucher == LocalNft(p)
  IN  /\ CreationWorks(p)
      /\ registry' = [registry EXCEPT ![voucher.chain] = @ \cup {voucher.class}]
      /\ metadata' = metadata \cup {voucher}
      /\ nftOwner' = [nftOwner EXCEPT ![voucher] = p.receiver]
      /\ AddIncomingEntry(voucher, p)
      /\ Acknowledge(p, "ok")
      /\ UNCHANGED <<outgoing, po, nextSeq, migrations>>

\* Anything that fails rolls everything back and acknowledges the error.
RecvFail(p) ==
  /\ p.state = "sent"
  /\ Dest(p).chain \in Vetoing \/ ~ (RedemptionWorks(p) \/ CreationWorks(p))
  /\ Acknowledge(p, "error")
  /\ UNCHANGED <<ledger, po, nextSeq, migrations>>

-----------------------------------------------------------------------------
(* The end of a packet on the chain that sent it.  A message that fails    *)
(* reverts the transaction: the packet stays and the relayer may retry.    *)

\* Takes every voucher that leaves for one that goes home.
FaultyReturningToSource(p) == incoming[SourceNft(p)] # NoChannel

\* The NFT had come in by the channel it was now sent out on.
ReturningToSource(p) == incoming[SourceNft(p)] = p.src.channel

\* Success of a return: the voucher and all that was kept for it disappear.
AckBurn(p) ==
  LET voucher == SourceNft(p)
  IN  /\ p.state = "ok" /\ Registered(voucher) /\ ReturningToSource(p)
      /\ nftOwner[voucher] = Ics721
      /\ nftOwner' = [nftOwner EXCEPT ![voucher] = NoOne]
      /\ incoming' = [incoming EXCEPT ![voucher] = NoChannel]
      /\ metadata' = metadata \ {voucher}
      /\ packets' = packets \ {p}
      /\ UNCHANGED <<outgoing, registry, po, nextSeq, migrations>>

\* Success of a transfer further away: the NFT stays escrowed.
AckKeep(p) ==
  /\ p.state = "ok" /\ Registered(SourceNft(p)) /\ ~ ReturningToSource(p)
  /\ packets' = packets \ {p}
  /\ UNCHANGED <<ledger, po, nextSeq, migrations>>

\* Gives the NFT back to the account it was meant for.
FaultyRefundee(p) == p.receiver

Refundee(p) == p.sender

\* handle_packet_fail: give the NFT back to the sender.
HandlePacketFail(p) ==
  LET nft == SourceNft(p)
  IN  /\ Registered(nft)
      /\ TransferWorks(nft, Refundee(p))
      /\ nftOwner' = [nftOwner EXCEPT ![nft] = Refundee(p)]
      /\ outgoing' = [outgoing EXCEPT ![nft] = NoChannel]
      /\ packets' = packets \ {p}
      /\ UNCHANGED <<incoming, metadata, registry, po, nextSeq, migrations>>

\* Takes a success it cannot parse for a failure.
FaultyAckFail(p) == p.state \in {"ok", "error"} /\ HandlePacketFail(p)

AckFail(p) == p.state = "error" /\ HandlePacketFail(p)

\* IBC core lets a packet time out only if it was never received.
Timeout(p) == p.state = "sent" /\ HandlePacketFail(p)

-----------------------------------------------------------------------------
(* What the owners and the operators of the contracts do.                  *)

\* TransferNft by the owner.  Sent to the contract this way, the NFT is
\* escrowed without the contract knowing.
UserTransfer(nft, to) ==
  /\ nftOwner[nft] \in Users \ {to}
  /\ IsVoucher(nft) \/ to \notin Refusing
  /\ nftOwner' = [nftOwner EXCEPT ![nft] = to]
  /\ UNCHANGED <<outgoing, incoming, metadata, registry, po, packets, nextSeq,
                 migrations>>

\* Burn by the owner, of which the contract hears nothing.
UserBurn(nft) ==
  /\ nftOwner[nft] \in Users
  /\ nftOwner' = [nftOwner EXCEPT ![nft] = NoOne]
  /\ UNCHANGED <<outgoing, incoming, metadata, registry, po, packets, nextSeq,
                 migrations>>

Pause(chain, sender) ==
  /\ PauseAllowed(po[chain], sender)
  /\ po' = [po EXCEPT ![chain] = PausedPolicy]
  /\ UNCHANGED <<ledger, packets, nextSeq, migrations>>

Migrate(chain, pauser) ==
  /\ migrations < MaxMigrations
  /\ po' = [po EXCEPT ![chain] = SetPauser(pauser)]
  /\ migrations' = migrations + 1
  /\ UNCHANGED <<ledger, packets, nextSeq>>

-----------------------------------------------------------------------------
\* A relayer delivers a packet, its acknowledgement or its timeout.
Receive(p) == RecvRedeem(p) \/ RecvCreate(p) \/ RecvFail(p)
Resolve(p) == AckBurn(p) \/ AckKeep(p) \/ AckFail(p) \/ Timeout(p)

Next ==
  \/ \E nft \in Nfts, channel \in ChannelIds, receiver \in Receivers :
       SendNft(nft, channel, receiver)
  \/ \E p \in packets : Receive(p)
  \/ \E p \in packets : Resolve(p)
  \/ \E nft \in Nfts, to \in Accounts : UserTransfer(nft, to)
  \/ \E nft \in Nfts : UserBurn(nft)
  \/ \E chain \in Chains, sender \in Pausers : Pause(chain, sender)
  \/ \E chain \in Chains, pauser \in Pausers \cup {NoPauser} : Migrate(chain, pauser)

Spec == Init /\ [][Next]_vars

\* Relayers keep trying every packet: a packet is received or times out, and
\* its end is reported to the sender.
RelayPacket(seq) == \E p \in packets : p.seq = seq /\ (Receive(p) \/ Resolve(p))

FairSpec == Spec /\ \A seq \in 1..MaxPackets : WF_vars(RelayPacket(seq))

-----------------------------------------------------------------------------
(* Type invariant: the storage items, the owners and the packets hold      *)
(* values of their types.                                                  *)
TypeOK ==
  /\ nftOwner \in [Nfts -> Accounts \cup {NoOne}]
  /\ outgoing \in [Nfts -> ChannelIds \cup {NoChannel}]
  /\ incoming \in [Nfts -> ChannelIds \cup {NoChannel}]
  /\ metadata \subseteq Nfts
  /\ registry \in [Chains -> SUBSET ClassIds]
  /\ po \in [Chains -> PauseOrchestrator]
  /\ packets \subseteq Packets
  /\ nextSeq \in Nat
  /\ migrations \in Nat

-----------------------------------------------------------------------------
(* Safety.                                                                 *)

\* The transfer is not decided, or its failure is not yet known to the sender.
Unresolved(p) == p.state \in {"sent", "error"}

\* The voucher was redeemed on the other chain and waits to be burned.
AwaitsBurn(p) == p.state = "ok" /\ HasPrefix(p.src, p.class)

\* The NFT may not move before this packet has ended.
Binds(p) == Unresolved(p) \/ AwaitsBurn(p)

\* While a transfer can still fail, or its voucher waits to be burned, the
\* contract owns the NFT and remembers the channel: nobody moved it in the
\* meantime, whatever other packets and acknowledgements of the same NFT did,
\* so that the transfer back of handle_packet_fail or the burn of
\* ibc_packet_ack cannot fail for want of the NFT.
InFlightLocked ==
  \A p \in packets : Binds(p) =>
    /\ nftOwner[SourceNft(p)] = Ics721
    /\ outgoing[SourceNft(p)] = p.src.channel
    /\ Registered(SourceNft(p))

\* An NFT is never bound by two packets at once: one NFT is not refunded
\* twice, nor refunded and burned.
OneBindingPacket ==
  \A p, q \in packets : Binds(p) /\ Binds(q) /\ SourceNft(p) = SourceNft(q) => p = q

\* The channel in INCOMING_CLASS_TOKEN_TO_CHANNEL is the last hop of the
\* voucher's class id, exactly for the vouchers that have metadata: an
\* acknowledgement burns the vouchers that returned where they came from
\* (ibc_packet_ack) and no others, however late it comes.
IncomingIsLastHop ==
  \A nft \in Nfts :
    /\ incoming[nft] # NoChannel => IsVoucher(nft) /\ incoming[nft] = Head(nft.class.hops)
    /\ nft \in metadata <=> incoming[nft] # NoChannel
    /\ IsVoucher(nft) /\ nftOwner[nft] # NoOne => incoming[nft] # NoChannel

\* The voucher exists and stands for an NFT: it was not redeemed already.
Live(nft) ==
  /\ nftOwner[nft] # NoOne
  /\ \A p \in packets : AwaitsBurn(p) => SourceNft(p) # nft

\* The channel end a voucher came in by, and the NFT it stands for.
LastHop(voucher) == [chain |-> voucher.chain, channel |-> Head(voucher.class.hops)]
Origin(voucher) ==
  [chain |-> Peer[LastHop(voucher)].chain,
   class |-> StripPrefix(voucher.class),
   token |-> voucher.token]

\* The NFT the voucher stands for is escrowed on the chain the voucher came
\* from, sent out on the channel it came by, and no packet there can release it.
Backed(voucher) ==
  /\ LastHop(voucher) \in Endpoints
  /\ nftOwner[Origin(voucher)] = Ics721
  /\ outgoing[Origin(voucher)] = Peer[LastHop(voucher)].channel
  /\ Registered(Origin(voucher))
  /\ \A p \in packets : Binds(p) => SourceNft(p) # Origin(voucher)

\* Every voucher that was not redeemed already can go back: the NFT it stands
\* for waits in escrow, and receive_ibc_packet will find the outgoing channel
\* it looks for.
VouchersBacked ==
  \A voucher \in Nfts : IsVoucher(voucher) /\ Live(voucher) => Backed(voucher)

\* Two names for the same NFT of the same home collection.
SameNft(m, n) == m.class.base = n.class.base /\ m.token = n.token

\* Where an NFT is to be found: with a user, or in a packet that is not decided.
Tip(nft) ==
  \/ nftOwner[nft] \in Users
  \/ \E p \in packets : Unresolved(p) /\ SourceNft(p) = nft

\* Over all chains and channels, at most one of an NFT and its vouchers is in
\* the hands of a user or on its way.
SingleTip == \A m, n \in Nfts : SameNft(m, n) /\ Tip(m) /\ Tip(n) => m = n

\* Nobody can use two copies of an NFT: of an NFT and all the vouchers made
\* for it on any chain, users own at most one.
SingleOwner ==
  \A m, n \in Nfts :
    SameNft(m, n) /\ nftOwner[m] \in Users /\ nftOwner[n] \in Users => m = n

\* A class id never holds a prefix that receiving it would have removed again,
\* and its last prefix is a channel end of the chain it is used on.
CanonicalClasses ==
  \A nft \in Nfts : IsVoucher(nft) /\ nftOwner[nft] # NoOne =>
    LastHop(nft) \in Endpoints /\ ~ HasPrefix(Peer[LastHop(nft)], StripPrefix(nft.class))

\* The bound on hops leaves room for the prefix the receiver may add.
PacketsFit ==
  \A p \in packets : HasPrefix(p.src, p.class) \/ Len(p.class.hops) < MaxHops

\* The inductive invariant: every part of it is needed to show that some step
\* preserves another part.
IInv ==
  /\ TypeOK
  /\ PacketsFit
  /\ InFlightLocked
  /\ OneBindingPacket
  /\ IncomingIsLastHop
  /\ CanonicalClasses
  /\ VouchersBacked
  /\ SingleTip

\* A packet that brings a voucher back finds the NFT redeemable, and a packet
\* of a foreign NFT is never taken for a redemption.
ReturnsRedeemable ==
  \A p \in packets : p.state = "sent" /\ HasPrefix(p.src, p.class) =>
    IsRedemption(p) /\ Registered(LocalNft(p)) /\ nftOwner[LocalNft(p)] = Ics721

\* On its home chain an NFT has an outgoing entry only while it is escrowed
\* (the ts-relayer tests read the entries of the home chain as the list of the
\* NFTs that are away).
HomeEntriesEscrowed ==
  \A nft \in Nfts : AtHome(nft) /\ outgoing[nft] # NoChannel => nftOwner[nft] = Ics721

-----------------------------------------------------------------------------
(* Steps and liveness.                                                     *)

\* A paused bridge sends nothing and mints, redeems and registers nothing, while
\* it goes on to refund and to burn (execute and receive_ibc_packet check PO,
\* ibc_packet_ack and ibc_packet_timeout do not).
PausedChainFrozen ==
  [][\A nft \in Nfts : po[nft.chain].paused =>
       /\ incoming'[nft] \in {incoming[nft], NoChannel}
       /\ outgoing'[nft] \in {outgoing[nft], NoChannel}
       /\ registry'[nft.chain] = registry[nft.chain]
       /\ nftOwner[nft] = Ics721 /\ nftOwner'[nft] \in Users =>
            \E p \in packets \ packets' :
              SourceNft(p) = nft /\ Unresolved(p) /\ nftOwner'[nft] = p.sender]_vars

\* Every transfer comes to an end on the chain that started it: no sequence of
\* other transfers leaves an acknowledgement or a timeout that cannot be executed.
PacketsResolve ==
  \A seq \in 1..MaxPackets :
    (\E p \in packets : p.seq = seq) ~> (\A p \in packets : p.seq # seq)

=============================================================================
