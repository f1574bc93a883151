-------------------------- MODULE Ics721Net_proofs --------------------------
(***************************************************************************)
(* IInv is an invariant of the network, for every topology, every set of   *)
(* users, tokens and collections and every bound.  From it follow the      *)
(* safety properties of the network and, in a second part, that it         *)
(* implements NftCustody; a third part adds the messages of the admin.     *)
(***************************************************************************)
EXTENDS Ics721Custody, AdminRecovery, SequenceTheorems, TLAPS

-----------------------------------------------------------------------------
(* What adding and removing a prefix does to a class id, and how the two   *)
(* ends of a packet name the same NFT.                                     *)

\* A bounded sequence of channel ids is a sequence of channel ids.
LEMMA HopSeqFacts ==
  ASSUME NEW h \in HopSeqs
  PROVE  h \in Seq(ChannelIds) /\ Len(h) \in 0..MaxHops
BY BoundAssumption DEF HopSeqs

LEMMA HopSeqIntro ==
  ASSUME NEW h \in Seq(ChannelIds), Len(h) <= MaxHops
  PROVE  h \in HopSeqs
BY BoundAssumption DEF HopSeqs

\* Removing the last hop of a voucher's class id gives a class id, one hop shorter.
LEMMA StripPrefixType ==
  ASSUME NEW class \in ClassIds, class.hops # <<>>
  PROVE  /\ StripPrefix(class) \in ClassIds
         /\ StripPrefix(class) # class
         /\ StripPrefix(class).base = class.base
         /\ Head(class.hops) \in ChannelIds
<1>1. class.hops \in Seq(ChannelIds) /\ Len(class.hops) \in 0..MaxHops
  BY HopSeqFacts DEF ClassIds
<1>2. Head(class.hops) \in ChannelIds
  BY <1>1
<1>3. Tail(class.hops) \in Seq(ChannelIds) /\ Len(Tail(class.hops)) = Len(class.hops) - 1
  BY <1>1
<1>4. Tail(class.hops) \in HopSeqs
  <2> DEFINE t == Tail(class.hops)
  <2>1. t \in Seq(ChannelIds) /\ Len(t) <= MaxHops
    BY <1>1, <1>3, BoundAssumption
  <2> HIDE DEF t
  <2>2. t \in HopSeqs
    BY <2>1, HopSeqIntro
  <2> QED
    BY <2>2 DEF t
<1>5. StripPrefix(class).hops = Tail(class.hops) /\ StripPrefix(class).base = class.base
  BY DEF StripPrefix, ClassIds
<1>6. StripPrefix(class) # class
  <2>1. Len(StripPrefix(class).hops) # Len(class.hops)
    BY <1>1, <1>3, <1>5
  <2> QED
    BY <2>1, Zenon
<1>7. StripPrefix(class) \in ClassIds
  BY <1>4 DEF StripPrefix, ClassIds
<1> QED
  BY <1>2, <1>5, <1>6, <1>7

\* Adding a hop gives a class id as long as the bound leaves room, and removing
\* it again gives back the class id it was added to.
LEMMA AddPrefixType ==
  ASSUME NEW class \in ClassIds, NEW e \in Endpoints, Len(class.hops) < MaxHops
  PROVE  /\ AddPrefix(e, class) \in ClassIds
         /\ AddPrefix(e, class).hops # <<>>
         /\ Head(AddPrefix(e, class).hops) = e.channel
         /\ StripPrefix(AddPrefix(e, class)) = class
         /\ AddPrefix(e, class).base = class.base
<1>1. class.hops \in Seq(ChannelIds) /\ Len(class.hops) \in 0..MaxHops
  BY HopSeqFacts DEF ClassIds
<1>2. e.channel \in ChannelIds
  BY TopologyAssumption
<1> DEFINE longer == <<e.channel>> \o class.hops
<1>3. longer \in Seq(ChannelIds) /\ Len(longer) = Len(class.hops) + 1
  BY <1>1, <1>2
<1>4. Len(longer) <= MaxHops
  BY <1>1, <1>3, BoundAssumption
<1>5. Head(longer) = e.channel /\ Tail(longer) = class.hops /\ longer # <<>>
  BY <1>1, <1>2, <1>3
<1> HIDE DEF longer
<1>6. longer \in HopSeqs
  BY <1>3, <1>4, HopSeqIntro
<1>7. AddPrefix(e, class) = [class EXCEPT !.hops = longer]
  BY DEF AddPrefix, longer
<1>8. AddPrefix(e, class) = [hops |-> longer, base |-> class.base]
  BY <1>7 DEF ClassIds
<1>9. AddPrefix(e, class) \in ClassIds
  BY <1>6, <1>8 DEF ClassIds
<1>10. StripPrefix(AddPrefix(e, class)) = class
  BY <1>5, <1>8 DEF StripPrefix, ClassIds
<1> QED
  BY <1>5, <1>8, <1>9, <1>10

-----------------------------------------------------------------------------
\* A channel end is known by its chain and its channel id.
LEMMA EndpointEqual ==
  ASSUME NEW e \in Endpoints, NEW f \in Endpoints,
         e.chain = f.chain, e.channel = f.channel
  PROVE  e = f
<1>1. e \in [chain: Chains, channel: ChannelIds] /\ f \in [chain: Chains, channel: ChannelIds]
  BY TopologyAssumption
<1> QED
  BY <1>1

\* The NFT a packet moves is an NFT of the sending chain.
LEMMA SourceNftType ==
  ASSUME NEW p \in Packets
  PROVE  /\ SourceNft(p) \in Nfts
         /\ p.src \in Endpoints /\ Dest(p) \in Endpoints
         /\ Peer[Dest(p)] = p.src
         /\ p.src = [chain |-> p.src.chain, channel |-> p.src.channel]
         /\ p.src.chain \in Chains /\ p.src.channel \in ChannelIds
BY TopologyAssumption DEF SourceNft, Packets, Nfts, Dest

\* Acknowledging changes neither the packet's NFT nor its channel.
LEMMA AckedPacket ==
  ASSUME NEW p \in Packets, NEW ack \in PacketStates
  PROVE  LET q == [p EXCEPT !.state = ack]
         IN  /\ q \in Packets /\ q.state = ack /\ q.src = p.src
             /\ q.class = p.class /\ q.sender = p.sender
             /\ SourceNft(q) = SourceNft(p)
BY DEF Packets, SourceNft

\* A packet that moves an NFT further from home becomes a voucher of it.
LEMMA ForwardPacket ==
  ASSUME NEW p \in Packets, ~ HasPrefix(p.src, p.class), Len(p.class.hops) < MaxHops
  PROVE  /\ LocalNft(p) \in Nfts
         /\ IsVoucher(LocalNft(p))
         /\ LastHop(LocalNft(p)) = Dest(p)
         /\ Origin(LocalNft(p)) = SourceNft(p)
         /\ StripPrefix(LocalNft(p).class) = p.class
         /\ SameNft(LocalNft(p), SourceNft(p))
<1>1. p.class \in ClassIds /\ p.token \in TokenIds /\ Dest(p) \in Endpoints
  BY SourceNftType DEF Packets
<1>2. /\ AddPrefix(Dest(p), p.class) \in ClassIds
      /\ AddPrefix(Dest(p), p.class).hops # <<>>
      /\ Head(AddPrefix(Dest(p), p.class).hops) = Dest(p).channel
      /\ StripPrefix(AddPrefix(Dest(p), p.class)) = p.class
      /\ AddPrefix(Dest(p), p.class).base = p.class.base
  BY <1>1, AddPrefixType
<1>3. LocalNft(p) = [chain |-> Dest(p).chain, class |-> AddPrefix(Dest(p), p.class),
                     token |-> p.token]
  BY DEF LocalNft
<1>4. /\ Dest(p) = [chain |-> Dest(p).chain, channel |-> Dest(p).channel]
      /\ Dest(p).chain \in Chains
      /\ Peer[Dest(p)] = p.src
  BY SourceNftType, TopologyAssumption
<1>5. LastHop(LocalNft(p)) = Dest(p)
  BY <1>2, <1>3, <1>4 DEF LastHop
<1> QED
  BY <1>1, <1>2, <1>3, <1>4, <1>5 DEF Nfts, IsVoucher, Origin, SourceNft, SameNft

\* A packet that takes a voucher back names the NFT the voucher stands for.
LEMMA BackPacket ==
  ASSUME NEW p \in Packets, HasPrefix(p.src, p.class)
  PROVE  /\ LocalNft(p) \in Nfts
         /\ IsVoucher(SourceNft(p))
         /\ LastHop(SourceNft(p)) = p.src
         /\ Origin(SourceNft(p)) = LocalNft(p)
         /\ LocalNft(p) # SourceNft(p)
         /\ SameNft(LocalNft(p), SourceNft(p))
<1>1. p.class \in ClassIds /\ p.token \in TokenIds /\ p.class.hops # <<>>
  BY DEF Packets, HasPrefix
<1>2. /\ StripPrefix(p.class) \in ClassIds /\ StripPrefix(p.class) # p.class
      /\ StripPrefix(p.class).base = p.class.base
  BY <1>1, StripPrefixType
<1>3. LocalNft(p) = [chain |-> Dest(p).chain, class |-> StripPrefix(p.class),
                     token |-> p.token]
  BY DEF LocalNft
<1>4. LastHop(SourceNft(p)) = p.src
  BY SourceNftType DEF LastHop, SourceNft, HasPrefix
<1>5. Dest(p).chain \in Chains
  BY SourceNftType, TopologyAssumption
<1> QED
  BY <1>1, <1>2, <1>3, <1>4, <1>5 DEF Nfts, IsVoucher, Origin, SourceNft, SameNft, Dest

\* The NFT a voucher stands for is an NFT of the chain at the other end.
LEMMA OriginType ==
  ASSUME NEW v \in Nfts, IsVoucher(v), LastHop(v) \in Endpoints
  PROVE  Origin(v) \in Nfts /\ Origin(v) # v /\ SameNft(Origin(v), v)
<1>1. v.class \in ClassIds /\ v.token \in TokenIds /\ v.class.hops # <<>>
  BY DEF Nfts, IsVoucher
<1>2. Peer[LastHop(v)].chain \in Chains
  BY TopologyAssumption
<1> QED
  BY <1>1, <1>2, StripPrefixType DEF Origin, Nfts, SameNft

\* A nonempty sequence is determined by its head and its tail.
LEMMA HeadTailDetermine ==
  ASSUME NEW S, NEW s \in Seq(S), NEW t \in Seq(S), s # <<>>, t # <<>>,
         Head(s) = Head(t), Tail(s) = Tail(t)
  PROVE  s = t
<1>1. /\ Len(Tail(s)) = Len(s) - 1 /\ Len(Tail(t)) = Len(t) - 1
      /\ \A i \in 1..Len(Tail(s)) : Tail(s)[i] = s[i+1]
      /\ \A i \in 1..Len(Tail(t)) : Tail(t)[i] = t[i+1]
  BY HeadTailProperties
<1>2. Len(s) = Len(t)
  <2>1. Len(s) - 1 = Len(t) - 1
    BY <1>1, Zenon
  <2>2. Len(s) \in Nat /\ Len(t) \in Nat
    OBVIOUS
  <2> QED
    BY <2>1, <2>2
<1>3. ASSUME NEW i \in 1..Len(s) PROVE s[i] = t[i]
  <2>1. CASE i = 1
    BY <2>1
  <2>2. CASE i # 1
    <3>1. i - 1 \in 1..(Len(s) - 1) /\ i - 1 \in 1..(Len(t) - 1)
      BY <1>2, <2>2
    <3>2. i - 1 \in 1..Len(Tail(s)) /\ i - 1 \in 1..Len(Tail(t))
      BY <1>1, <3>1, Zenon
    <3>3. Tail(s)[i - 1] = s[(i - 1) + 1] /\ Tail(t)[i - 1] = t[(i - 1) + 1]
      BY <1>1, <3>2, Zenon
    <3>4. (i - 1) + 1 = i
      OBVIOUS
    <3> QED
      BY <3>3, <3>4, Zenon
  <2> QED
    BY <2>1, <2>2
<1> QED
  BY <1>2, <1>3, SeqEqual

\* A voucher is known by the NFT it stands for and the channel end it came in by.
LEMMA VoucherOfOrigin ==
  ASSUME NEW m \in Nfts, NEW n \in Nfts, IsVoucher(m), IsVoucher(n),
         Origin(m) = Origin(n), LastHop(m) = LastHop(n)
  PROVE  m = n
<1>1. /\ m.chain = n.chain /\ m.token = n.token
      /\ Head(m.class.hops) = Head(n.class.hops)
      /\ StripPrefix(m.class) = StripPrefix(n.class)
  BY DEF Origin, LastHop
<1>2. /\ m.class.base = n.class.base
      /\ Tail(m.class.hops) = Tail(n.class.hops)
  BY <1>1 DEF StripPrefix, Nfts, ClassIds
<1>3. /\ m.class.hops \in Seq(ChannelIds) /\ m.class.hops # <<>>
      /\ n.class.hops \in Seq(ChannelIds) /\ n.class.hops # <<>>
  BY HopSeqFacts DEF Nfts, ClassIds, IsVoucher
<1>4. m.class.hops = n.class.hops
  BY <1>1, <1>2, <1>3, HeadTailDetermine
<1> QED
  BY <1>1, <1>2, <1>4 DEF Nfts, ClassIds

-----------------------------------------------------------------------------
(* The invariant.                                                          *)

\* The facts about one packet that every step about a packet starts from.
LEMMA PacketFacts ==
  ASSUME IInv, NEW p \in packets
  PROVE  /\ p \in Packets
         /\ SourceNft(p) \in Nfts
         /\ Binds(p) => /\ nftOwner[SourceNft(p)] = Ics721
                        /\ outgoing[SourceNft(p)] = p.src.channel
                        /\ Registered(SourceNft(p))
         /\ Binds(p) => \A q \in packets : Binds(q) /\ q # p => SourceNft(q) # SourceNft(p)
BY SourceNftType DEF IInv, TypeOK, InFlightLocked, OneBindingPacket

\* No live voucher stands for an NFT that a user owns or a packet binds.
LEMMA NoLiveVoucherOf ==
  ASSUME IInv, NEW nft \in Nfts,
         nftOwner[nft] # Ics721 \/ \E p \in packets : Binds(p) /\ SourceNft(p) = nft
  PROVE  \A v \in Nfts : IsVoucher(v) /\ Live(v) => Origin(v) # nft
BY DEF IInv, VouchersBacked, Backed

\* A live voucher is backed, by another NFT.
LEMMA LiveVoucherBacked ==
  ASSUME IInv, NEW v \in Nfts, IsVoucher(v), Live(v)
  PROVE  Backed(v) /\ Origin(v) \in Nfts /\ Origin(v) # v
BY OriginType DEF IInv, VouchersBacked, Backed

-----------------------------------------------------------------------------
\* receive_nft keeps the invariant.
LEMMA SendNftInv ==
  ASSUME IInv, NEW nft \in Nfts, NEW channel \in ChannelIds, NEW receiver \in Receivers,
         SendNft(nft, channel, receiver)
  PROVE  IInv'
<1> DEFINE src == [chain |-> nft.chain, channel |-> channel]
           new == [seq |-> nextSeq, src |-> src, class |-> nft.class, token |-> nft.token,
                   sender |-> nftOwner[nft], receiver |-> receiver, state |-> "sent"]
<1>1. /\ nftOwner[nft] \in Users /\ nftOwner[nft] # Ics721
      /\ src \in Endpoints
      /\ HasPrefix(src, nft.class) \/ Len(nft.class.hops) < MaxHops
      /\ packets' = packets \cup {new}
      /\ incoming' = incoming /\ metadata' = metadata
  BY AddressAssumption DEF SendNft
<1>2. /\ new \in Packets /\ SourceNft(new) = nft /\ Unresolved(new) /\ Binds(new)
      /\ ~ AwaitsBurn(new) /\ new.src = src /\ new.class = nft.class
  BY <1>1 DEF IInv, TypeOK, Packets, Nfts, SourceNft, Unresolved, Binds, AwaitsBurn,
             PacketStates
<1>3. /\ nftOwner' = [nftOwner EXCEPT ![nft] = Ics721]
      /\ outgoing' = [outgoing EXCEPT ![nft] = channel]
      /\ registry' = [registry EXCEPT ![nft.chain] = @ \cup {nft.class}]
      /\ nextSeq' = nextSeq + 1 /\ UNCHANGED <<po, migrations>>
  BY DEF SendNft, Escrow
<1>4. TypeOK'
  <2>1. nftOwner' \in [Nfts -> Accounts \cup {NoOne}]
    BY <1>3 DEF IInv, TypeOK, Accounts
  <2>2. outgoing' \in [Nfts -> ChannelIds \cup {NoChannel}]
    BY <1>3 DEF IInv, TypeOK
  <2>3. registry' \in [Chains -> SUBSET ClassIds]
    BY <1>3 DEF IInv, TypeOK, Nfts
  <2> QED
    BY <1>1, <1>2, <1>3, <2>1, <2>2, <2>3 DEF IInv, TypeOK
<1> HIDE DEF new, src
<1>5. /\ nftOwner'[nft] = Ics721 /\ outgoing'[nft] = channel
      /\ \A m \in Nfts : m # nft => nftOwner'[m] = nftOwner[m] /\ outgoing'[m] = outgoing[m]
  BY <1>3 DEF IInv, TypeOK
<1>6. Registered(nft)' /\ \A m \in Nfts : Registered(m) => Registered(m)'
  BY <1>3 DEF IInv, TypeOK, Registered, Nfts
<1>7. \A q \in packets : Binds(q) => SourceNft(q) # nft
  BY <1>1, PacketFacts
<1>8. \A m \in Nfts : Live(m)' => Live(m)
  BY <1>1, <1>2, <1>5, AddressAssumption DEF Live
<1>9. \A v \in Nfts : IsVoucher(v) /\ Live(v) => Origin(v) # nft
  BY <1>1, NoLiveVoucherOf
<1>10. PacketsFit'
  BY <1>1, <1>2 DEF IInv, PacketsFit
<1>11. InFlightLocked'
  <2> SUFFICES ASSUME NEW p \in packets', Binds(p)
               PROVE  /\ nftOwner'[SourceNft(p)] = Ics721
                      /\ outgoing'[SourceNft(p)] = p.src.channel
                      /\ Registered(SourceNft(p))'
    BY DEF InFlightLocked
  <2>1. CASE p = new
    BY <2>1, <1>2, <1>5, <1>6 DEF src
  <2>2. CASE p \in packets
    BY <2>2, <1>5, <1>6, <1>7, PacketFacts
  <2> QED
    BY <1>1, <2>1, <2>2
<1>12. OneBindingPacket'
  BY <1>1, <1>2, <1>7 DEF IInv, OneBindingPacket
<1>13. IncomingIsLastHop'
  BY <1>1, <1>5, AddressAssumption DEF IInv, IncomingIsLastHop
<1>14. CanonicalClasses'
  BY <1>1, <1>5, AddressAssumption DEF IInv, CanonicalClasses
<1>15. VouchersBacked'
  <2> SUFFICES ASSUME NEW v \in Nfts, IsVoucher(v), Live(v)'
               PROVE  Backed(v)'
    BY DEF VouchersBacked
  <2>1. Backed(v) /\ Origin(v) \in Nfts /\ Origin(v) # nft
    BY <1>8, <1>9, LiveVoucherBacked
  <2> QED
    BY <1>1, <1>2, <1>5, <1>6, <2>1 DEF Backed
<1>16. SingleTip'
  BY <1>1, <1>2, <1>5, AddressAssumption DEF IInv, SingleTip, Tip
<1> QED
  BY <1>4, <1>10, <1>11, <1>12, <1>13, <1>14, <1>15, <1>16 DEF IInv

-----------------------------------------------------------------------------
\* The sender of an undecided return still has its voucher alive, so that the
\* receiving chain takes the packet for a redemption.
LEMMA ReturnIsRedemption ==
  ASSUME IInv, NEW p \in packets, Unresolved(p), HasPrefix(p.src, p.class)
  PROVE  /\ IsRedemption(p) /\ Registered(LocalNft(p))
         /\ nftOwner[LocalNft(p)] = Ics721
         /\ \A q \in packets : Binds(q) => SourceNft(q) # LocalNft(p)
<1>1. p \in Packets /\ Binds(p) /\ ~ AwaitsBurn(p)
  BY PacketFacts DEF Binds, Unresolved, AwaitsBurn
<1>2. \A q \in packets : AwaitsBurn(q) => SourceNft(q) # SourceNft(p)
  BY <1>1, PacketFacts DEF Binds
<1>3. nftOwner[SourceNft(p)] = Ics721 /\ SourceNft(p) \in Nfts
  BY <1>1, PacketFacts
<1>4. Live(SourceNft(p)) /\ IsVoucher(SourceNft(p))
  BY <1>1, <1>2, <1>3, BackPacket, AddressAssumption DEF Live
<1>5. Backed(SourceNft(p))
  BY <1>3, <1>4, LiveVoucherBacked
<1> QED
  BY <1>1, <1>5, BackPacket DEF Backed, IsRedemption, Dest

\* RedeemVouchers and RedeemOutgoingChannelEntries keep the invariant.
LEMMA RecvRedeemInv ==
  ASSUME IInv, NEW p \in packets, RecvRedeem(p)
  PROVE  IInv'
<1> DEFINE old == SourceNft(p)
           nft == LocalNft(p)
           done == [p EXCEPT !.state = "ok"]
<1>1. /\ p \in Packets /\ p.state = "sent" /\ Unresolved(p) /\ Binds(p)
      /\ HasPrefix(p.src, p.class) /\ p.receiver \in Accounts
      /\ nftOwner[nft] = Ics721
  BY PacketFacts DEF RecvRedeem, RedemptionWorks, ReceiveAllowed, IsRedemption,
                     TransferWorks, Unresolved, Binds
<1>2. /\ nft \in Nfts /\ IsVoucher(old) /\ LastHop(old) = p.src /\ Origin(old) = nft
      /\ nft # old /\ SameNft(nft, old)
  BY <1>1, BackPacket
<1>3. /\ old \in Nfts /\ nftOwner[old] = Ics721 /\ outgoing[old] = p.src.channel
      /\ Registered(old)
      /\ \A q \in packets : Binds(q) /\ q # p => SourceNft(q) # old
  BY <1>1, PacketFacts
<1>4. /\ done \in Packets /\ SourceNft(done) = old /\ done.src = p.src
      /\ done.class = p.class
      /\ AwaitsBurn(done) /\ Binds(done) /\ ~ Unresolved(done)
  BY <1>1, AckedPacket DEF AwaitsBurn, Binds, Unresolved, PacketStates
<1>5. /\ packets' = (packets \ {p}) \cup {done}
      /\ nftOwner' = [nftOwner EXCEPT ![nft] = p.receiver]
      /\ outgoing' = [outgoing EXCEPT ![nft] = NoChannel]
      /\ UNCHANGED <<incoming, metadata, registry, po, nextSeq, migrations>>
  BY DEF RecvRedeem, Acknowledge, RedeemOutgoingEntry
<1>6. TypeOK'
  BY <1>1, <1>2, <1>4, <1>5 DEF IInv, TypeOK, Accounts
<1>7. /\ nftOwner'[nft] = p.receiver
      /\ \A m \in Nfts : m # nft => nftOwner'[m] = nftOwner[m] /\ outgoing'[m] = outgoing[m]
      /\ \A m \in Nfts : Registered(m)' <=> Registered(m)
  BY <1>2, <1>5 DEF IInv, TypeOK, Registered
<1>8. \A q \in packets : Binds(q) => SourceNft(q) # nft
  BY <1>1, ReturnIsRedemption
<1> HIDE DEF old, nft, done
<1>9. \A v \in Nfts : IsVoucher(v) /\ Live(v)' => Live(v) /\ v # old
  <2> SUFFICES ASSUME NEW v \in Nfts, IsVoucher(v), Live(v)'
               PROVE  Live(v) /\ v # old
    OBVIOUS
  <2>1. v # old
    BY <1>4, <1>5 DEF Live
  <2>2. nftOwner[v] # NoOne
    BY <1>1, <1>7, AddressAssumption DEF Live
  <2>3. \A q \in packets : AwaitsBurn(q) => SourceNft(q) # v
    BY <1>1, <1>5 DEF Live, AwaitsBurn
  <2> QED
    BY <2>1, <2>2, <2>3 DEF Live
<1>10. \A v \in Nfts : IsVoucher(v) /\ Live(v) /\ v # old => Origin(v) # nft
  <2> SUFFICES ASSUME NEW v \in Nfts, IsVoucher(v), Live(v), Origin(v) = nft
               PROVE  v = old
    OBVIOUS
  <2>1. /\ LastHop(v) \in Endpoints
        /\ Peer[LastHop(v)].channel = outgoing[nft]
        /\ Peer[LastHop(v)].chain = nft.chain
    BY LiveVoucherBacked DEF Backed, Origin
  <2>2. outgoing[nft] = Dest(p).channel /\ nft.chain = Dest(p).chain
    BY DEF RecvRedeem, RedemptionWorks, IsRedemption, LocalNft, nft
  <2>3. Peer[LastHop(v)] = Peer[p.src]
    <3>1. Peer[LastHop(v)] \in Endpoints /\ Dest(p) \in Endpoints
      BY <1>1, <2>1, SourceNftType, TopologyAssumption
    <3> QED
      BY <2>1, <2>2, <3>1, EndpointEqual DEF Dest
  <2>4. LastHop(v) = p.src
    BY <1>1, <2>1, <2>3, SourceNftType, TopologyAssumption
  <2> QED
    BY <1>2, <1>3, <2>4, VoucherOfOrigin
<1>11. PacketsFit'
  BY <1>4, <1>5 DEF IInv, PacketsFit
<1>12. InFlightLocked'
  <2> SUFFICES ASSUME NEW q \in packets', Binds(q)
               PROVE  /\ nftOwner'[SourceNft(q)] = Ics721
                      /\ outgoing'[SourceNft(q)] = q.src.channel
                      /\ Registered(SourceNft(q))'
    BY DEF InFlightLocked
  <2>1. CASE q = done
    BY <2>1, <1>2, <1>3, <1>4, <1>7
  <2>2. CASE q \in packets
    BY <2>2, <1>7, <1>8, PacketFacts
  <2> QED
    BY <1>5, <2>1, <2>2
<1>13. OneBindingPacket'
  BY <1>3, <1>4, <1>5 DEF IInv, OneBindingPacket
<1>14. IncomingIsLastHop'
  BY <1>1, <1>5, <1>7, AddressAssumption DEF IInv, IncomingIsLastHop
<1>15. CanonicalClasses'
  BY <1>1, <1>7, AddressAssumption DEF IInv, CanonicalClasses
<1>16. VouchersBacked'
  <2> SUFFICES ASSUME NEW v \in Nfts, IsVoucher(v), Live(v)'
               PROVE  Backed(v)'
    BY DEF VouchersBacked
  <2>1. Backed(v) /\ Origin(v) \in Nfts /\ Origin(v) # nft /\ v # old
    BY <1>9, <1>10, LiveVoucherBacked
  <2>2. Origin(v) # old
    BY <1>1, <1>9, NoLiveVoucherOf, <1>3 DEF old
  <2> QED
    BY <1>4, <1>5, <1>7, <2>1, <2>2 DEF Backed
<1>17. SingleTip'
  <2>1. \A m \in Nfts : Tip(m)' => m = nft \/ (Tip(m) /\ m # old)
    BY <1>2, <1>3, <1>4, <1>5, <1>7, AddressAssumption DEF Tip, Binds
  <2>2. Tip(old)
    BY <1>1 DEF Tip, old
  <2>3. \A m \in Nfts : SameNft(m, nft) /\ Tip(m)' => m = nft
    BY <1>2, <1>3, <2>1, <2>2 DEF IInv, SingleTip, SameNft
  <2> QED
    BY <1>2, <1>3, <2>1, <2>2, <2>3 DEF IInv, SingleTip, SameNft
<1> QED
  BY <1>6, <1>11, <1>12, <1>13, <1>14, <1>15, <1>16, <1>17 DEF IInv

-----------------------------------------------------------------------------
\* CreateVouchers, Mint and AddIncomingChannelEntries keep the invariant.
LEMMA RecvCreateInv ==
  ASSUME IInv, NEW p \in packets, RecvCreate(p)
  PROVE  IInv'
<1> DEFINE orig == SourceNft(p)
           nft == LocalNft(p)
           done == [p EXCEPT !.state = "ok"]
<1>1. /\ p \in Packets /\ p.state = "sent" /\ Unresolved(p) /\ Binds(p)
      /\ p.receiver \in Accounts /\ nftOwner[nft] = NoOne
  BY PacketFacts DEF RecvCreate, CreationWorks, ReceiveAllowed, MintWorks, Unresolved, Binds
<1>2. ~ HasPrefix(p.src, p.class)
  BY <1>1, ReturnIsRedemption DEF RecvCreate, CreationWorks
<1>3. Len(p.class.hops) < MaxHops
  BY <1>2 DEF IInv, PacketsFit
<1>4. /\ nft \in Nfts /\ IsVoucher(nft) /\ LastHop(nft) = Dest(p) /\ Origin(nft) = orig
      /\ StripPrefix(nft.class) = p.class /\ SameNft(nft, orig)
      /\ Dest(p) \in Endpoints /\ Peer[Dest(p)] = p.src /\ Dest(p).channel \in ChannelIds
      /\ Head(nft.class.hops) = Dest(p).channel
  <2>1. nft \in Nfts /\ IsVoucher(nft) /\ LastHop(nft) = Dest(p) /\ Origin(nft) = orig
        /\ StripPrefix(nft.class) = p.class /\ SameNft(nft, orig)
    BY <1>1, <1>2, <1>3, ForwardPacket
  <2>2. Dest(p) \in Endpoints /\ Peer[Dest(p)] = p.src /\ Dest(p).channel \in ChannelIds
    BY <1>1, SourceNftType, TopologyAssumption
  <2>3. LastHop(nft).channel = Head(nft.class.hops)
    BY DEF LastHop
  <2> QED
    BY <2>1, <2>2, <2>3
<1>5. /\ orig \in Nfts /\ nftOwner[orig] = Ics721 /\ outgoing[orig] = p.src.channel
      /\ Registered(orig) /\ orig # nft
      /\ \A q \in packets : Binds(q) /\ q # p => SourceNft(q) # orig
  BY <1>1, PacketFacts, AddressAssumption
<1>6. /\ done \in Packets /\ SourceNft(done) = orig /\ done.src = p.src
      /\ done.class = p.class /\ ~ AwaitsBurn(done) /\ ~ Binds(done) /\ ~ Unresolved(done)
  BY <1>1, <1>2, AckedPacket DEF AwaitsBurn, Binds, Unresolved, PacketStates
<1>7. /\ packets' = (packets \ {p}) \cup {done}
      /\ nftOwner' = [nftOwner EXCEPT ![nft] = p.receiver]
      /\ incoming' = [incoming EXCEPT ![nft] = Dest(p).channel]
      /\ registry' = [registry EXCEPT ![nft.chain] = @ \cup {nft.class}]
      /\ metadata' = metadata \cup {nft}
      /\ UNCHANGED <<outgoing, po, nextSeq, migrations>>
  BY DEF RecvCreate, Acknowledge, AddIncomingEntry
<1>8. TypeOK'
  <2>1. nftOwner' \in [Nfts -> Accounts \cup {NoOne}]
    BY <1>1, <1>4, <1>7 DEF IInv, TypeOK, Accounts
  <2>2. incoming' \in [Nfts -> ChannelIds \cup {NoChannel}]
    BY <1>4, <1>7 DEF IInv, TypeOK
  <2>3. registry' \in [Chains -> SUBSET ClassIds]
    BY <1>4, <1>7 DEF IInv, TypeOK, Nfts
  <2> QED
    BY <1>4, <1>6, <1>7, <2>1, <2>2, <2>3 DEF IInv, TypeOK
<1>9. /\ nftOwner'[nft] = p.receiver /\ incoming'[nft] = Dest(p).channel
      /\ \A m \in Nfts : m # nft => nftOwner'[m] = nftOwner[m] /\ incoming'[m] = incoming[m]
      /\ \A m \in Nfts : Registered(m) => Registered(m)'
  <2>1. \A m \in Nfts : Registered(m) => Registered(m)'
    BY <1>4, <1>7 DEF IInv, TypeOK, Registered, Nfts
  <2> QED
    BY <1>4, <1>7, <2>1 DEF IInv, TypeOK
<1>10. \A q \in packets : Binds(q) => SourceNft(q) # nft
  BY <1>1, PacketFacts, AddressAssumption
<1> HIDE DEF orig, nft, done
<1>11. \A q \in packets' : Binds(q) => q \in packets /\ q # p
  BY <1>6, <1>7
<1>12. \A v \in Nfts : Live(v)' /\ v # nft => Live(v)
  <2> SUFFICES ASSUME NEW v \in Nfts, Live(v)', v # nft
               PROVE  Live(v)
    OBVIOUS
  <2>1. nftOwner[v] # NoOne
    BY <1>9 DEF Live
  <2>2. \A q \in packets : AwaitsBurn(q) => SourceNft(q) # v
    BY <1>1, <1>7 DEF Live, AwaitsBurn
  <2> QED
    BY <2>1, <2>2 DEF Live
<1>13. \A v \in Nfts : IsVoucher(v) /\ Live(v) => Origin(v) # nft
  BY <1>1, <1>4, NoLiveVoucherOf, AddressAssumption
<1>14. PacketsFit'
  BY <1>6, <1>7 DEF IInv, PacketsFit
<1>15. InFlightLocked'
  <2> SUFFICES ASSUME NEW q \in packets', Binds(q)
               PROVE  /\ nftOwner'[SourceNft(q)] = Ics721
                      /\ outgoing'[SourceNft(q)] = q.src.channel
                      /\ Registered(SourceNft(q))'
    BY DEF InFlightLocked
  <2> QED
    BY <1>7, <1>9, <1>10, <1>11, PacketFacts
<1>16. OneBindingPacket'
  BY <1>11 DEF IInv, OneBindingPacket
<1>17. IncomingIsLastHop'
  BY <1>4, <1>7, <1>9, AddressAssumption DEF IInv, IncomingIsLastHop
<1>18. CanonicalClasses'
  BY <1>2, <1>4, <1>9 DEF IInv, CanonicalClasses
<1>19. VouchersBacked'
  <2> SUFFICES ASSUME NEW v \in Nfts, IsVoucher(v), Live(v)'
               PROVE  Backed(v)'
    BY DEF VouchersBacked
  <2>1. CASE v = nft
    <3>1. \A q \in packets' : Binds(q) => SourceNft(q) # orig
      BY <1>5, <1>11
    <3> QED
      BY <2>1, <1>4, <1>5, <1>7, <1>9, <3>1 DEF Backed
  <2>2. CASE v # nft
    <3>1. Backed(v) /\ Origin(v) \in Nfts /\ Origin(v) # nft
      BY <2>2, <1>12, <1>13, LiveVoucherBacked
    <3> QED
      BY <1>7, <1>9, <1>11, <3>1 DEF Backed
  <2> QED
    BY <2>1, <2>2
<1>20. SingleTip'
  <2>1. \A m \in Nfts : Tip(m)' => m = nft \/ (Tip(m) /\ m # orig)
    BY <1>5, <1>6, <1>7, <1>9, AddressAssumption DEF Tip, Binds
  <2>2. Tip(orig)
    BY <1>1 DEF Tip, orig
  <2>3. \A m \in Nfts : SameNft(m, nft) /\ Tip(m)' => m = nft
    BY <1>4, <1>5, <2>1, <2>2 DEF IInv, SingleTip, SameNft
  <2> QED
    BY <1>4, <1>5, <2>1, <2>2, <2>3 DEF IInv, SingleTip, SameNft
<1> QED
  BY <1>8, <1>14, <1>15, <1>16, <1>17, <1>18, <1>19, <1>20 DEF IInv

-----------------------------------------------------------------------------
\* A failed receive keeps the invariant.
LEMMA RecvFailInv ==
  ASSUME IInv, NEW p \in packets, RecvFail(p)
  PROVE  IInv'
<1> DEFINE done == [p EXCEPT !.state = "error"]
<1>1. /\ p \in Packets /\ p.state = "sent" /\ Unresolved(p) /\ Binds(p)
  BY PacketFacts DEF RecvFail, Unresolved, Binds
<1>2. /\ done \in Packets /\ SourceNft(done) = SourceNft(p) /\ done.src = p.src
      /\ done.class = p.class /\ ~ AwaitsBurn(done) /\ Binds(done) /\ Unresolved(done)
  BY <1>1, AckedPacket DEF AwaitsBurn, Binds, Unresolved, PacketStates
<1>3. /\ packets' = (packets \ {p}) \cup {done}
      /\ UNCHANGED <<nftOwner, outgoing, incoming, metadata, registry, po, nextSeq, migrations>>
  BY DEF RecvFail, Acknowledge, ledger
<1>4. TypeOK'
  BY <1>2, <1>3 DEF IInv, TypeOK
<1> HIDE DEF done
<1>5. /\ \A q \in packets' : Binds(q) =>
           \E r \in packets : Binds(r) /\ SourceNft(r) = SourceNft(q) /\ r.src = q.src
                              /\ (q = done => r = p) /\ (q # done => r = q)
      /\ \A m \in Nfts : Registered(m)' <=> Registered(m)
  BY <1>1, <1>2, <1>3 DEF Registered
<1>6. PacketsFit'
  BY <1>2, <1>3 DEF IInv, PacketsFit
<1>7. InFlightLocked'
  BY <1>3, <1>5, PacketFacts DEF InFlightLocked
<1>8. OneBindingPacket'
  BY <1>1, <1>2, <1>3 DEF IInv, OneBindingPacket
<1>9. IncomingIsLastHop'
  BY <1>3 DEF IInv, IncomingIsLastHop
<1>10. CanonicalClasses'
  BY <1>3 DEF IInv, CanonicalClasses
<1>11. VouchersBacked'
  <2> SUFFICES ASSUME NEW v \in Nfts, IsVoucher(v), Live(v)'
               PROVE  Backed(v)'
    BY DEF VouchersBacked
  <2>1. Live(v)
    BY <1>1, <1>3 DEF Live, AwaitsBurn
  <2>2. Backed(v) /\ Origin(v) \in Nfts
    BY <2>1, LiveVoucherBacked
  <2> QED
    BY <1>3, <1>5, <2>2 DEF Backed
<1>12. SingleTip'
  <2>1. \A m \in Nfts : Tip(m)' => Tip(m)
    BY <1>1, <1>2, <1>3 DEF Tip
  <2> QED
    BY <2>1 DEF IInv, SingleTip
<1> QED
  BY <1>4, <1>6, <1>7, <1>8, <1>9, <1>10, <1>11, <1>12 DEF IInv

-----------------------------------------------------------------------------
(* Steps that only take a packet away or change one owner.                 *)

\* Packets that end free their NFT and bind nothing else.
LEMMA FewerPackets ==
  ASSUME IInv, packets' \subseteq packets,
         \A n \in Nfts : nftOwner'[n] # NoOne => nftOwner[n] # NoOne,
         \A n \in Nfts : nftOwner'[n] # NoOne =>
           \A q \in packets \ packets' : AwaitsBurn(q) => SourceNft(q) # n
  PROVE  /\ PacketsFit' /\ OneBindingPacket'
         /\ \A v \in Nfts : Live(v)' => Live(v)
<1>1. PacketsFit' /\ OneBindingPacket'
  BY DEF IInv, PacketsFit, OneBindingPacket
<1>2. \A v \in Nfts : Live(v)' => Live(v)
  BY DEF Live
<1> QED
  BY <1>1, <1>2

\* Giving the NFT of a failed transfer back keeps the invariant.
LEMMA HandlePacketFailInv ==
  ASSUME IInv, NEW p \in packets, Unresolved(p), HandlePacketFail(p)
  PROVE  IInv'
<1> DEFINE nft == SourceNft(p)
<1>1. /\ p \in Packets /\ Binds(p) /\ ~ AwaitsBurn(p) /\ nft \in Nfts
      /\ p.sender \in Users /\ nftOwner[nft] = Ics721
      /\ \A q \in packets : Binds(q) /\ q # p => SourceNft(q) # nft
  BY PacketFacts DEF Binds, Unresolved, AwaitsBurn, Packets
<1>2. /\ packets' = packets \ {p}
      /\ nftOwner' = [nftOwner EXCEPT ![nft] = p.sender]
      /\ outgoing' = [outgoing EXCEPT ![nft] = NoChannel]
      /\ UNCHANGED <<incoming, metadata, registry, po, nextSeq, migrations>>
  BY DEF HandlePacketFail, Refundee
<1>3. TypeOK'
  BY <1>1, <1>2 DEF IInv, TypeOK, Accounts
<1>4. /\ nftOwner'[nft] = p.sender
      /\ \A m \in Nfts : m # nft => nftOwner'[m] = nftOwner[m] /\ outgoing'[m] = outgoing[m]
      /\ \A m \in Nfts : Registered(m)' <=> Registered(m)
  BY <1>1, <1>2 DEF IInv, TypeOK, Registered
<1>5. \A v \in Nfts : IsVoucher(v) /\ Live(v) => Origin(v) # nft
  BY <1>1, NoLiveVoucherOf
<1>6. Tip(nft)
  BY DEF Tip
<1> HIDE DEF nft
<1>7. PacketsFit' /\ OneBindingPacket' /\ \A v \in Nfts : Live(v)' => Live(v)
  BY <1>1, <1>2, <1>4, AddressAssumption, FewerPackets
<1>8. InFlightLocked'
  BY <1>1, <1>2, <1>4, PacketFacts DEF InFlightLocked
<1>9. IncomingIsLastHop'
  BY <1>1, <1>2, <1>4, AddressAssumption DEF IInv, IncomingIsLastHop
<1>10. CanonicalClasses'
  BY <1>1, <1>4, AddressAssumption DEF IInv, CanonicalClasses
<1>11. VouchersBacked'
  <2> SUFFICES ASSUME NEW v \in Nfts, IsVoucher(v), Live(v)'
               PROVE  Backed(v)'
    BY DEF VouchersBacked
  <2>1. Backed(v) /\ Origin(v) \in Nfts /\ Origin(v) # nft
    BY <1>5, <1>7, LiveVoucherBacked
  <2> QED
    BY <1>2, <1>4, <2>1 DEF Backed
<1>12. SingleTip'
  <2>1. \A m \in Nfts : Tip(m)' => Tip(m)
    BY <1>2, <1>4, <1>6 DEF Tip
  <2> QED
    BY <2>1 DEF IInv, SingleTip
<1> QED
  BY <1>3, <1>7, <1>8, <1>9, <1>10, <1>11, <1>12 DEF IInv

\* Only vouchers that wait for it are burned, and burning one keeps the invariant.
LEMMA AckBurnInv ==
  ASSUME IInv, NEW p \in packets, AckBurn(p)
  PROVE  IInv'
<1> DEFINE nft == SourceNft(p)
<1>1. p \in Packets /\ nft \in Nfts /\ p.src.channel \in ChannelIds
  BY PacketFacts, SourceNftType
<1>2. HasPrefix(p.src, p.class)
  BY <1>1, AddressAssumption
     DEF IInv, IncomingIsLastHop, AckBurn, ReturningToSource, HasPrefix, IsVoucher, SourceNft
<1>3. /\ Binds(p) /\ ~ Unresolved(p) /\ nftOwner[nft] = Ics721
      /\ \A q \in packets : Binds(q) /\ q # p => SourceNft(q) # nft
  BY <1>2, PacketFacts DEF Binds, AwaitsBurn, AckBurn, Unresolved
<1>4. /\ packets' = packets \ {p}
      /\ nftOwner' = [nftOwner EXCEPT ![nft] = NoOne]
      /\ incoming' = [incoming EXCEPT ![nft] = NoChannel]
      /\ metadata' = metadata \ {nft}
      /\ UNCHANGED <<outgoing, registry, po, nextSeq, migrations>>
  BY DEF AckBurn
<1>5. TypeOK'
  BY <1>1, <1>4 DEF IInv, TypeOK
<1>6. /\ nftOwner'[nft] = NoOne /\ incoming'[nft] = NoChannel
      /\ \A m \in Nfts : m # nft => nftOwner'[m] = nftOwner[m] /\ incoming'[m] = incoming[m]
      /\ \A m \in Nfts : Registered(m)' <=> Registered(m)
  BY <1>1, <1>4 DEF IInv, TypeOK, Registered
<1>7. \A v \in Nfts : IsVoucher(v) /\ Live(v) => Origin(v) # nft
  BY <1>1, <1>3, NoLiveVoucherOf
<1> HIDE DEF nft
<1>8. PacketsFit' /\ OneBindingPacket' /\ \A v \in Nfts : Live(v)' => Live(v)
  <2>1. \A n \in Nfts : nftOwner'[n] # NoOne => n # nft /\ nftOwner[n] # NoOne
    BY <1>6
  <2>2. \A q \in packets \ packets' : SourceNft(q) = nft
    BY <1>4 DEF nft
  <2> QED
    BY <1>4, <2>1, <2>2, FewerPackets
<1>9. InFlightLocked'
  BY <1>3, <1>4, <1>6, PacketFacts DEF InFlightLocked
<1>10. IncomingIsLastHop'
  BY <1>4, <1>6, AddressAssumption DEF IInv, IncomingIsLastHop
<1>11. CanonicalClasses'
  BY <1>6 DEF IInv, CanonicalClasses
<1>12. VouchersBacked'
  <2> SUFFICES ASSUME NEW v \in Nfts, IsVoucher(v), Live(v)'
               PROVE  Backed(v)'
    BY DEF VouchersBacked
  <2>1. Backed(v) /\ Origin(v) \in Nfts /\ Origin(v) # nft
    BY <1>7, <1>8, LiveVoucherBacked
  <2> QED
    BY <1>4, <1>6, <2>1 DEF Backed
<1>13. SingleTip'
  <2>1. \A m \in Nfts : Tip(m)' => Tip(m)
    BY <1>4, <1>6, AddressAssumption DEF Tip
  <2> QED
    BY <2>1 DEF IInv, SingleTip
<1> QED
  BY <1>5, <1>8, <1>9, <1>10, <1>11, <1>12, <1>13 DEF IInv

\* An acknowledgement that burns nothing was of a packet that bound nothing.
LEMMA AckKeepInv ==
  ASSUME IInv, NEW p \in packets, AckKeep(p)
  PROVE  IInv'
<1>1. p \in Packets /\ SourceNft(p) \in Nfts /\ p.src.channel \in ChannelIds
  BY PacketFacts, SourceNftType
<1>2. ~ AwaitsBurn(p)
  <2> SUFFICES ASSUME AwaitsBurn(p) PROVE FALSE
    OBVIOUS
  <2>1. nftOwner[SourceNft(p)] # NoOne /\ IsVoucher(SourceNft(p))
    BY <1>1, PacketFacts, AddressAssumption, BackPacket DEF AwaitsBurn, Binds
  <2>2. incoming[SourceNft(p)] = p.src.channel
    BY <1>1, <2>1 DEF IInv, IncomingIsLastHop, AwaitsBurn, HasPrefix, SourceNft
  <2> QED
    BY <2>2 DEF AckKeep, ReturningToSource
<1>3. ~ Binds(p)
  BY <1>2 DEF AckKeep, Binds, Unresolved
<1>4. /\ packets' = packets \ {p}
      /\ UNCHANGED <<nftOwner, outgoing, incoming, metadata, registry, po, nextSeq, migrations>>
  BY DEF AckKeep, ledger
<1>5. TypeOK'
  BY <1>4 DEF IInv, TypeOK
<1>6. PacketsFit' /\ OneBindingPacket' /\ \A v \in Nfts : Live(v)' => Live(v)
  BY <1>2, <1>4, FewerPackets
<1>7. \A m \in Nfts : Registered(m)' <=> Registered(m)
  BY <1>4 DEF Registered
<1>8. InFlightLocked'
  BY <1>4, <1>7, PacketFacts DEF InFlightLocked
<1>9. IncomingIsLastHop' /\ CanonicalClasses'
  BY <1>4 DEF IInv, IncomingIsLastHop, CanonicalClasses
<1>10. VouchersBacked'
  <2> SUFFICES ASSUME NEW v \in Nfts, IsVoucher(v), Live(v)'
               PROVE  Backed(v)'
    BY DEF VouchersBacked
  <2>1. Backed(v) /\ Origin(v) \in Nfts
    BY <1>6, LiveVoucherBacked
  <2> QED
    BY <1>4, <1>7, <2>1 DEF Backed
<1>11. SingleTip'
  BY <1>4 DEF IInv, SingleTip, Tip
<1> QED
  BY <1>5, <1>6, <1>8, <1>9, <1>10, <1>11 DEF IInv

-----------------------------------------------------------------------------
\* What a user does with an NFT of his own keeps the invariant.
LEMMA OwnerStepInv ==
  ASSUME IInv, NEW nft \in Nfts, NEW to \in Accounts \cup {NoOne},
         nftOwner[nft] \in Users,
         nftOwner' = [nftOwner EXCEPT ![nft] = to],
         UNCHANGED <<outgoing, incoming, metadata, registry, po, packets, nextSeq, migrations>>
  PROVE  IInv'
<1>1. nftOwner[nft] # Ics721 /\ nftOwner[nft] # NoOne
  BY AddressAssumption
<1>2. TypeOK'
  BY DEF IInv, TypeOK
<1>3. /\ nftOwner'[nft] = to
      /\ \A m \in Nfts : m # nft => nftOwner'[m] = nftOwner[m]
      /\ \A m \in Nfts : Registered(m)' <=> Registered(m)
  BY DEF IInv, TypeOK, Registered
<1>4. PacketsFit' /\ OneBindingPacket'
  BY DEF IInv, PacketsFit, OneBindingPacket
<1>5. \A v \in Nfts : Live(v)' => Live(v)
  BY <1>1, <1>3 DEF Live
<1>6. InFlightLocked'
  BY <1>1, <1>3, PacketFacts DEF InFlightLocked
<1>7. IncomingIsLastHop'
  BY <1>1, <1>3 DEF IInv, IncomingIsLastHop
<1>8. CanonicalClasses'
  BY <1>1, <1>3 DEF IInv, CanonicalClasses
<1>9. VouchersBacked'
  <2> SUFFICES ASSUME NEW v \in Nfts, IsVoucher(v), Live(v)'
               PROVE  Backed(v)'
    BY DEF VouchersBacked
  <2>1. Backed(v) /\ Origin(v) \in Nfts /\ Origin(v) # nft
    BY <1>1, <1>5, LiveVoucherBacked, NoLiveVoucherOf
  <2> QED
    BY <1>3, <2>1 DEF Backed
<1>10. SingleTip'
  <2>1. \A m \in Nfts : Tip(m)' => Tip(m)
    BY <1>3 DEF Tip
  <2> QED
    BY <2>1 DEF IInv, SingleTip
<1> QED
  BY <1>2, <1>4, <1>6, <1>7, <1>8, <1>9, <1>10 DEF IInv

\* Pausing and migrating touch nothing but the pause policy.
LEMMA OperatorStepInv ==
  ASSUME IInv, po' \in [Chains -> PauseOrchestrator], migrations' \in Nat,
         UNCHANGED <<ledger, packets, nextSeq>>
  PROVE  IInv'
<1>1. UNCHANGED <<nftOwner, outgoing, incoming, metadata, registry>>
  BY DEF ledger
<1>2. TypeOK'
  BY <1>1 DEF IInv, TypeOK
<1>3. \A m \in Nfts : (Registered(m)' <=> Registered(m)) /\ (Live(m)' <=> Live(m))
  BY <1>1 DEF Registered, Live
<1>4. PacketsFit' /\ OneBindingPacket' /\ IncomingIsLastHop' /\ CanonicalClasses'
  BY <1>1 DEF IInv, PacketsFit, OneBindingPacket, IncomingIsLastHop, CanonicalClasses
<1>5. InFlightLocked'
  BY <1>1, <1>3, PacketFacts DEF InFlightLocked
<1>6. VouchersBacked'
  <2> SUFFICES ASSUME NEW v \in Nfts, IsVoucher(v), Live(v)'
               PROVE  Backed(v)'
    BY DEF VouchersBacked
  <2>1. Backed(v) /\ Origin(v) \in Nfts
    BY <1>3, LiveVoucherBacked
  <2> QED
    BY <1>1, <1>3, <2>1 DEF Backed
<1>7. SingleTip'
  BY <1>1 DEF IInv, SingleTip, Tip
<1> QED
  BY <1>2, <1>4, <1>5, <1>6, <1>7 DEF IInv

-----------------------------------------------------------------------------
\* Before any transfer the users own their NFTs on the home chains and nothing
\* else exists.
LEMMA InitInv == Init => IInv
<1> SUFFICES ASSUME Init PROVE IInv
  OBVIOUS
<1>1. PICK owner \in [Collections \X TokenIds -> Users] :
        nftOwner = [n \in Nfts |-> IF AtHome(n) THEN owner[<<n.class.base, n.token>>]
                                                ELSE NoOne]
  BY DEF Init
<1>2. \A n \in Nfts : n.class.base \in Collections /\ n.token \in TokenIds
  BY DEF Nfts, ClassIds
<1>3. \A n \in Nfts : nftOwner[n] = (IF AtHome(n) THEN owner[<<n.class.base, n.token>>]
                                                  ELSE NoOne)
  BY <1>1
<1>4. \A n \in Nfts : AtHome(n) => owner[<<n.class.base, n.token>>] \in Users
  BY <1>2
<1>5. nftOwner \in [Nfts -> Accounts \cup {NoOne}]
  BY <1>1, <1>3, <1>4, Zenon DEF Accounts
<1>6. packets = {} /\ metadata = {} /\ nextSeq = 1 /\ migrations = 0
  BY DEF Init
<1>7. /\ outgoing = [n \in Nfts |-> NoChannel]
      /\ incoming = [n \in Nfts |-> NoChannel]
      /\ registry = [c \in Chains |-> {}]
  BY DEF Init
<1>8. po \in [Chains -> PauseOrchestrator]
  BY DEF Init, SetPauser, PauseOrchestrator
<1>9. TypeOK
  <2>1. nextSeq \in Nat /\ migrations \in Nat
    BY <1>6
  <2>2. packets \subseteq Packets /\ metadata \subseteq Nfts
    BY <1>6
  <2>3. /\ outgoing \in [Nfts -> ChannelIds \cup {NoChannel}]
        /\ incoming \in [Nfts -> ChannelIds \cup {NoChannel}]
        /\ registry \in [Chains -> SUBSET ClassIds]
    BY <1>7
  <2> QED
    BY <1>5, <1>8, <2>1, <2>2, <2>3 DEF TypeOK
<1>10. PacketsFit /\ InFlightLocked /\ OneBindingPacket
  BY <1>6 DEF PacketsFit, InFlightLocked, OneBindingPacket
<1>11. \A n \in Nfts : IsVoucher(n) => nftOwner[n] = NoOne
  BY <1>3 DEF AtHome
<1>12. IncomingIsLastHop
  BY <1>6, <1>7, <1>11 DEF IncomingIsLastHop
<1>13. CanonicalClasses /\ VouchersBacked
  BY <1>11 DEF CanonicalClasses, VouchersBacked, Live
<1>14. SingleTip
  <2> SUFFICES ASSUME NEW m \in Nfts, NEW n \in Nfts, SameNft(m, n), Tip(m), Tip(n)
               PROVE  m = n
    BY DEF SingleTip
  <2>1. AtHome(m) /\ AtHome(n)
    BY <1>3, <1>6, AddressAssumption DEF Tip
  <2>2. m.chain = n.chain /\ m.token = n.token /\ m.class.base = n.class.base
    BY <2>1 DEF AtHome, SameNft
  <2>3. m.class.hops = n.class.hops
    BY <2>1 DEF AtHome, IsVoucher
  <2> QED
    BY <2>2, <2>3 DEF Nfts, ClassIds
<1> QED
  BY <1>9, <1>10, <1>12, <1>13, <1>14 DEF IInv

\* Every step of the network keeps the invariant.
LEMMA NextInv == IInv /\ [Next]_vars => IInv'
<1> SUFFICES ASSUME IInv, [Next]_vars PROVE IInv'
  OBVIOUS
<1>1. ASSUME NEW nft \in Nfts, NEW channel \in ChannelIds, NEW receiver \in Receivers,
             SendNft(nft, channel, receiver)
      PROVE  IInv'
  BY <1>1, SendNftInv
<1>2. ASSUME NEW p \in packets, Receive(p) PROVE IInv'
  BY <1>2, RecvRedeemInv, RecvCreateInv, RecvFailInv DEF Receive
<1>3. ASSUME NEW p \in packets, Resolve(p) PROVE IInv'
  BY <1>3, AckBurnInv, AckKeepInv, HandlePacketFailInv
     DEF Resolve, AckFail, Timeout, Unresolved
<1>4. ASSUME NEW nft \in Nfts, NEW to \in Accounts, UserTransfer(nft, to) PROVE IInv'
  BY <1>4, OwnerStepInv DEF UserTransfer
<1>5. ASSUME NEW nft \in Nfts, UserBurn(nft) PROVE IInv'
  BY <1>5, OwnerStepInv DEF UserBurn
<1>6. ASSUME NEW chain \in Chains, NEW sender \in Pausers, Pause(chain, sender) PROVE IInv'
  <2>1. po' \in [Chains -> PauseOrchestrator] /\ migrations' \in Nat
    BY <1>6 DEF Pause, IInv, TypeOK, PauseOrchestrator, PausedPolicy
  <2> QED
    BY <1>6, <2>1, OperatorStepInv DEF Pause
<1>7. ASSUME NEW chain \in Chains, NEW pauser \in Pausers \cup {NoPauser},
             Migrate(chain, pauser)
      PROVE  IInv'
  <2>1. po' \in [Chains -> PauseOrchestrator] /\ migrations' \in Nat
    BY <1>7 DEF Migrate, IInv, TypeOK, PauseOrchestrator, SetPauser
  <2> QED
    BY <1>7, <2>1, OperatorStepInv DEF Migrate
<1>8. CASE UNCHANGED vars
  <2>1. po' \in [Chains -> PauseOrchestrator] /\ migrations' \in Nat
    BY <1>8 DEF vars, IInv, TypeOK
  <2> QED
    BY <1>8, <2>1, OperatorStepInv DEF vars, ledger
<1> QED
  BY <1>1, <1>2, <1>3, <1>4, <1>5, <1>6, <1>7, <1>8 DEF Next

\* The inductive invariant holds in every reachable state.
THEOREM Invariance == Spec => []IInv
BY InitInv, NextInv, PTL DEF Spec

\* Every storage item, owner and packet keeps its type.
THEOREM TypeCorrect == Spec => []TypeOK
<1>1. IInv => TypeOK
  BY DEF IInv
<1> QED
  BY <1>1, Invariance, PTL

\* The NFT of an undecided transfer, or of a redeemed voucher, stays escrowed
\* with its channel entry until handle_packet_fail or ibc_packet_ack needs it.
THEOREM InFlightSafe == Spec => []InFlightLocked
<1>1. IInv => InFlightLocked
  BY DEF IInv
<1> QED
  BY <1>1, Invariance, PTL

\* No two packets wait for the same NFT of a chain: an acknowledgement never burns what
\* another one may still have to give back (ibc_packet_ack, handle_packet_fail).
THEOREM BoundOnce == Spec => []OneBindingPacket
<1>1. IInv => OneBindingPacket
  BY DEF IInv
<1> QED
  BY <1>1, Invariance, PTL

\* An acknowledgement burns the vouchers that went back where they came from
\* and no others, on any topology and in any order of acknowledgements.
THEOREM BurnsOnlyReturned == Spec => []IncomingIsLastHop
<1>1. IInv => IncomingIsLastHop
  BY DEF IInv
<1> QED
  BY <1>1, Invariance, PTL

\* Every live voucher on every chain is backed by one escrowed NFT.
THEOREM AllVouchersBacked == Spec => []VouchersBacked
<1>1. IInv => VouchersBacked
  BY DEF IInv
<1> QED
  BY <1>1, Invariance, PTL

\* Of an NFT and all its vouchers on all chains, users own at most one.
THEOREM NoDuplication == Spec => []SingleOwner
<1>1. IInv => SingleOwner
  BY DEF IInv, SingleTip, Tip, SingleOwner
<1> QED
  BY <1>1, Invariance, PTL

\* A voucher that travels back always meets an NFT that can be redeemed.
THEOREM WayBackOpen == Spec => []ReturnsRedeemable
<1>1. IInv => ReturnsRedeemable
  BY ReturnIsRedemption DEF ReturnsRedeemable, Unresolved
<1> QED
  BY <1>1, Invariance, PTL

-----------------------------------------------------------------------------
\* Every step keeps the entries of the home chain exact: a redemption or a
\* refund that releases the NFT removes its entry, and nobody else moves it.
LEMMA HomeEntriesStep ==
  ASSUME IInv, HomeEntriesEscrowed, [Next]_vars
  PROVE  HomeEntriesEscrowed'
<1> SUFFICES ASSUME NEW n \in Nfts, AtHome(n), outgoing'[n] # NoChannel
             PROVE  nftOwner'[n] = Ics721
  BY DEF HomeEntriesEscrowed
<1>1. /\ nftOwner \in [Nfts -> Accounts \cup {NoOne}]
      /\ outgoing \in [Nfts -> ChannelIds \cup {NoChannel}]
  BY DEF IInv, TypeOK
<1>2. outgoing[n] # NoChannel => nftOwner[n] = Ics721
  BY DEF HomeEntriesEscrowed
<1>3. ASSUME NEW nft \in Nfts, NEW channel \in ChannelIds, NEW receiver \in Receivers,
             SendNft(nft, channel, receiver)
      PROVE  nftOwner'[n] = Ics721
  BY <1>1, <1>2, <1>3 DEF SendNft, Escrow
<1>4. ASSUME NEW p \in packets, RecvRedeem(p) PROVE nftOwner'[n] = Ics721
  <2>1. LocalNft(p) \in Nfts
    BY <1>4, PacketFacts, BackPacket DEF RecvRedeem, RedemptionWorks, IsRedemption
  <2> QED
    BY <1>1, <1>2, <1>4, <2>1 DEF RecvRedeem, RedeemOutgoingEntry
<1>5. ASSUME NEW p \in packets, RecvCreate(p) PROVE nftOwner'[n] = Ics721
  <2>1. LocalNft(p) # n
    BY <1>5 DEF RecvCreate, CreationWorks, MintWorks, AtHome
  <2> QED
    BY <1>1, <1>2, <1>5, <2>1 DEF RecvCreate
<1>6. ASSUME NEW p \in packets, HandlePacketFail(p) PROVE nftOwner'[n] = Ics721
  BY <1>1, <1>2, <1>6, PacketFacts DEF HandlePacketFail
<1>7. ASSUME NEW p \in packets, AckBurn(p) PROVE nftOwner'[n] = Ics721
  <2>1. SourceNft(p) \in Nfts /\ p.src.channel \in ChannelIds
    BY PacketFacts, SourceNftType
  <2>2. IsVoucher(SourceNft(p))
    BY <1>7, <2>1, AddressAssumption DEF AckBurn, ReturningToSource, IInv, IncomingIsLastHop
  <2> QED
    BY <1>1, <1>2, <1>7, <2>1, <2>2 DEF AckBurn, AtHome
<1>8. ASSUME NEW nft \in Nfts, NEW to \in Accounts, UserTransfer(nft, to)
      PROVE  nftOwner'[n] = Ics721
  BY <1>1, <1>2, <1>8, AddressAssumption DEF UserTransfer
<1>9. ASSUME NEW nft \in Nfts, UserBurn(nft) PROVE nftOwner'[n] = Ics721
  BY <1>1, <1>2, <1>9, AddressAssumption DEF UserBurn
<1>10. CASE UNCHANGED <<nftOwner, outgoing>>
  BY <1>2, <1>10
<1> QED
  BY <1>3, <1>4, <1>5, <1>6, <1>7, <1>8, <1>9, <1>10
     DEF Next, Receive, Resolve, RecvFail, AckKeep, AckFail, Timeout, Pause, Migrate, vars,
         ledger

\* On its home chain an NFT has an outgoing entry only while it is escrowed.
THEOREM HomeEntriesExact == Spec => []HomeEntriesEscrowed
<1>1. Init => HomeEntriesEscrowed
  BY DEF Init, HomeEntriesEscrowed
<1>2. IInv /\ HomeEntriesEscrowed /\ [Next]_vars => HomeEntriesEscrowed'
  BY HomeEntriesStep
<1> QED
  BY <1>1, <1>2, Invariance, PTL DEF Spec

-----------------------------------------------------------------------------
\* What one step may do to an NFT of a paused chain.
FrozenStep(nft) ==
  /\ incoming'[nft] \in {incoming[nft], NoChannel}
  /\ outgoing'[nft] \in {outgoing[nft], NoChannel}
  /\ registry'[nft.chain] = registry[nft.chain]
  /\ nftOwner[nft] = Ics721 /\ nftOwner'[nft] \in Users =>
       \E p \in packets \ packets' :
         SourceNft(p) = nft /\ Unresolved(p) /\ nftOwner'[nft] = p.sender

\* On a paused chain every step is a refund, a burn, or about another chain.
LEMMA PausedStep ==
  ASSUME IInv, [Next]_vars, NEW n \in Nfts, po[n.chain].paused
  PROVE  FrozenStep(n)
<1>1. /\ nftOwner \in [Nfts -> Accounts \cup {NoOne}]
      /\ outgoing \in [Nfts -> ChannelIds \cup {NoChannel}]
      /\ incoming \in [Nfts -> ChannelIds \cup {NoChannel}]
      /\ registry \in [Chains -> SUBSET ClassIds]
      /\ n.chain \in Chains
  BY DEF IInv, TypeOK, Nfts
<1>2. ASSUME NEW nft \in Nfts, NEW channel \in ChannelIds, NEW receiver \in Receivers,
             SendNft(nft, channel, receiver)
      PROVE  FrozenStep(n)
  <2>1. nft.chain # n.chain /\ nft # n
    BY <1>2 DEF SendNft, ErrorIfPaused
  <2> QED
    BY <1>1, <1>2, <2>1, AddressAssumption DEF SendNft, Escrow, FrozenStep
<1>3. ASSUME NEW p \in packets, RecvRedeem(p) PROVE FrozenStep(n)
  <2>1. LocalNft(p).chain # n.chain /\ LocalNft(p) # n
    BY <1>3 DEF RecvRedeem, RedemptionWorks, ReceiveAllowed, ErrorIfPaused, LocalNft
  <2>2. registry' = registry /\ incoming' = incoming
        /\ nftOwner'[n] = nftOwner[n] /\ outgoing'[n] = outgoing[n]
    BY <1>1, <1>3, <2>1 DEF RecvRedeem, RedeemOutgoingEntry
  <2> QED
    BY <2>2, AddressAssumption DEF FrozenStep
<1>4. ASSUME NEW p \in packets, RecvCreate(p) PROVE FrozenStep(n)
  <2>1. LocalNft(p).chain # n.chain /\ LocalNft(p) # n
    BY <1>4 DEF RecvCreate, CreationWorks, ReceiveAllowed, ErrorIfPaused, LocalNft
  <2>2. /\ registry'[n.chain] = registry[n.chain] /\ incoming'[n] = incoming[n]
        /\ nftOwner'[n] = nftOwner[n] /\ outgoing' = outgoing
    BY <1>1, <1>4, <2>1 DEF RecvCreate, AddIncomingEntry
  <2> QED
    BY <2>2, AddressAssumption DEF FrozenStep
<1>5. ASSUME NEW p \in packets, Unresolved(p), HandlePacketFail(p) PROVE FrozenStep(n)
  <2>1. /\ SourceNft(p) \in Nfts /\ packets' = packets \ {p}
        /\ nftOwner' = [nftOwner EXCEPT ![SourceNft(p)] = p.sender]
        /\ outgoing' = [outgoing EXCEPT ![SourceNft(p)] = NoChannel]
        /\ incoming' = incoming /\ registry' = registry
    BY <1>5, PacketFacts DEF HandlePacketFail, Refundee
  <2>2. CASE n = SourceNft(p)
    BY <1>1, <1>5, <2>1, <2>2 DEF FrozenStep
  <2>3. CASE n # SourceNft(p)
    BY <1>1, <2>1, <2>3, AddressAssumption DEF FrozenStep
  <2> QED
    BY <2>2, <2>3
<1>6. ASSUME NEW p \in packets, AckBurn(p) PROVE FrozenStep(n)
  <2>1. SourceNft(p) \in Nfts
    BY PacketFacts
  <2> QED
    BY <1>1, <1>6, <2>1, AddressAssumption DEF AckBurn, FrozenStep
<1>7. ASSUME NEW nft \in Nfts, NEW to \in Accounts, UserTransfer(nft, to)
      PROVE  FrozenStep(n)
  BY <1>1, <1>7, AddressAssumption DEF UserTransfer, FrozenStep
<1>8. ASSUME NEW nft \in Nfts, UserBurn(nft) PROVE FrozenStep(n)
  BY <1>1, <1>8, AddressAssumption DEF UserBurn, FrozenStep
<1>9. CASE UNCHANGED <<nftOwner, outgoing, incoming, registry>>
  BY <1>9, AddressAssumption DEF FrozenStep
<1> QED
  BY <1>2, <1>3, <1>4, <1>5, <1>6, <1>7, <1>8, <1>9
     DEF Next, Receive, Resolve, RecvFail, AckKeep, AckFail, Timeout, Pause, Migrate, vars,
         ledger, Unresolved

\* A paused bridge sends, mints, redeems and registers nothing, but it goes on
\* to refund and to burn.
THEOREM PauseFreezes == Spec => PausedChainFrozen
<1>1. IInv /\ [Next]_vars => [\A nft \in Nfts : po[nft.chain].paused =>
       /\ incoming'[nft] \in {incoming[nft], NoChannel}
       /\ outgoing'[nft] \in {outgoing[nft], NoChannel}
       /\ registry'[nft.chain] = registry[nft.chain]
       /\ nftOwner[nft] = Ics721 /\ nftOwner'[nft] \in Users =>
            \E p \in packets \ packets' :
              SourceNft(p) = nft /\ Unresolved(p) /\ nftOwner'[nft] = p.sender]_vars
  BY PausedStep DEF FrozenStep
<1> QED
  BY <1>1, Invariance, PTL DEF Spec, PausedChainFrozen

-----------------------------------------------------------------------------
(***************************************************************************)
(* The network of bridges implements NftCustody, for every topology.       *)
(***************************************************************************)

ItemOf(n) == <<n.class.base, n.token>>

LEMMA ItemOfType ==
  ASSUME NEW n \in Nfts
  PROVE  ItemOf(n) \in Items /\ n \in Copies(ItemOf(n))
BY DEF ItemOf, Items, Copies, Nfts, ClassIds

\* Copies of an item are the copies of one NFT.
LEMMA CopiesAreSame ==
  ASSUME NEW m \in Nfts, NEW n \in Copies(ItemOf(m))
  PROVE  n \in Nfts /\ SameNft(m, n) /\ ItemOf(n) = ItemOf(m)
BY DEF Copies, SameNft, ItemOf

\* An NFT that a user owns is with that user.
LEMMA HeldPlace ==
  ASSUME IInv, NEW n \in Nfts, nftOwner[n] \in Users
  PROVE  PlaceOf(ItemOf(n)) = [chain |-> n.chain, user |-> nftOwner[n]]
<1>1. HeldCopies(ItemOf(n)) = {n}
  BY ItemOfType, CopiesAreSame DEF HeldCopies, IInv, SingleTip, Tip
<1>2. (CHOOSE m \in HeldCopies(ItemOf(n)) : TRUE) = n
  BY <1>1
<1> QED
  BY <1>1, <1>2 DEF PlaceOf

\* An NFT that an undecided packet moves is in transit.
LEMMA MovingPlace ==
  ASSUME IInv, NEW p \in packets, Unresolved(p)
  PROVE  PlaceOf(ItemOf(SourceNft(p))) =
           [from |-> [chain |-> p.src.chain, user |-> p.sender],
            to |-> Dest(p).chain, receiver |-> p.receiver]
<1> DEFINE n == SourceNft(p)
<1>1. n \in Nfts /\ nftOwner[n] = Ics721 /\ Tip(n)
  BY PacketFacts DEF Binds, Tip
<1>2. HeldCopies(ItemOf(n)) = {}
  BY <1>1, CopiesAreSame, AddressAssumption DEF HeldCopies, IInv, SingleTip, Tip
<1>3. ASSUME NEW q \in Carriers(ItemOf(n)) PROVE q = p
  <2>1. q \in packets /\ Unresolved(q) /\ SourceNft(q) \in Copies(ItemOf(n))
    BY <1>3 DEF Carriers
  <2>2. SourceNft(q) = n
    BY <1>1, <2>1, CopiesAreSame DEF IInv, SingleTip, Tip
  <2> QED
    BY <2>1, <2>2 DEF IInv, OneBindingPacket, Binds
<1>4. p \in Carriers(ItemOf(n))
  BY <1>1, ItemOfType DEF Carriers
<1>5. Carriers(ItemOf(n)) = {p}
  BY <1>3, <1>4
<1>6. (CHOOSE q \in Carriers(ItemOf(n)) : TRUE) = p
  BY <1>5
<1> HIDE DEF n
<1> QED
  BY <1>2, <1>5, <1>6 DEF PlaceOf, n

\* An NFT that nobody owns and no undecided packet moves is gone.
LEMMA GonePlace ==
  ASSUME NEW item \in Items,
         \A n \in Copies(item) : ~ Tip(n)
  PROVE  PlaceOf(item) = [gone |-> TRUE]
<1>1. HeldCopies(item) = {}
  BY DEF HeldCopies, Tip, Copies
<1>2. Carriers(item) = {}
  BY DEF Carriers, Tip
<1> QED
  BY <1>1, <1>2 DEF PlaceOf

\* The place of an item depends on its owners and undecided packets alone.
LEMMA SamePlace ==
  ASSUME NEW item \in Items,
         \A n \in Copies(item) :
           nftOwner'[n] = nftOwner[n] \/ (nftOwner[n] \notin Users /\ nftOwner'[n] \notin Users),
         \A q : SourceNft(q) \in Copies(item) /\ Unresolved(q) =>
           (q \in packets' <=> q \in packets)
  PROVE  PlaceOf(item)' = PlaceOf(item)
<1>1. HeldCopies(item)' = HeldCopies(item)
  BY DEF HeldCopies, Copies
<1>2. Carriers(item)' = Carriers(item)
  BY DEF Carriers
<1>3. HeldCopies(item) # {} =>
        LET n == CHOOSE n \in HeldCopies(item) : TRUE IN nftOwner'[n] = nftOwner[n]
  BY DEF HeldCopies
<1> QED
  BY <1>1, <1>2, <1>3 DEF PlaceOf

\* How the place of an NFT is read off a state.
PlacesRead ==
  /\ \A n \in Nfts : nftOwner[n] \in Users =>
       PlaceOf(ItemOf(n)) = [chain |-> n.chain, user |-> nftOwner[n]]
  /\ \A p \in packets : Unresolved(p) =>
       PlaceOf(ItemOf(SourceNft(p))) =
         [from |-> [chain |-> p.src.chain, user |-> p.sender],
          to |-> Dest(p).chain, receiver |-> p.receiver]
  /\ \A item \in Items : (\A n \in Copies(item) : ~ Tip(n)) =>
       PlaceOf(item) = [gone |-> TRUE]

LEMMA ReadPlaces == IInv => PlacesRead
<1>1. ASSUME IInv PROVE PlacesRead
  BY <1>1, HeldPlace, MovingPlace, GonePlace DEF PlacesRead
<1> QED
  BY <1>1

LEMMA ReadPlacesNext == IInv' => PlacesRead'
BY ReadPlaces, PTL

-----------------------------------------------------------------------------
\* A step that changes the place of one item moves it.
LEMMA MoveStep ==
  ASSUME NEW item \in Items, NEW where, PlaceOf(item)' = where,
         \A other \in Items \ {item} : PlaceOf(other)' = PlaceOf(other)
  PROVE  Custody!Move(item, where)
BY DEF Custody!Move

LEMMA StutterStep ==
  ASSUME \A item \in Items : PlaceOf(item)' = PlaceOf(item)
  PROVE  UNCHANGED [item \in Items |-> PlaceOf(item)]
OBVIOUS

\* A step about one NFT leaves the other items alone.
LEMMA OtherItems ==
  ASSUME NEW nft \in Nfts, NEW other \in Items \ {ItemOf(nft)},
         \A m \in Nfts : ~ SameNft(m, nft) => nftOwner'[m] = nftOwner[m],
         \A q : Unresolved(q) /\ ~ SameNft(SourceNft(q), nft) =>
                  (q \in packets' <=> q \in packets)
  PROVE  PlaceOf(other)' = PlaceOf(other)
<1>1. \A n \in Copies(other) : n \in Nfts /\ ~ SameNft(n, nft)
  BY DEF Copies, SameNft, ItemOf, Items
<1> QED
  BY <1>1, SamePlace

LEMMA SameItem ==
  ASSUME NEW m \in Nfts, NEW n \in Nfts, SameNft(m, n)
  PROVE  ItemOf(m) = ItemOf(n)
BY DEF SameNft, ItemOf

\* Once no copy of an NFT is with a user or undecided, it is gone.
LEMMA GoneNext ==
  ASSUME PlacesRead', NEW nft \in Nfts, \A m \in Nfts : SameNft(m, nft) => ~ Tip(m)'
  PROVE  PlaceOf(ItemOf(nft))' = [gone |-> TRUE]
<1>1. \A m \in Copies(ItemOf(nft)) : m \in Nfts /\ SameNft(m, nft)
  BY DEF Copies, ItemOf, SameNft
<1> QED
  BY <1>1, ItemOfType DEF PlacesRead

-----------------------------------------------------------------------------
\* Sending an NFT departs.
LEMMA SendDeparts ==
  ASSUME IInv, IInv', NEW nft \in Nfts, NEW channel \in ChannelIds,
         NEW receiver \in Receivers, SendNft(nft, channel, receiver)
  PROVE  Custody!Next
<1> DEFINE src == [chain |-> nft.chain, channel |-> channel]
           new == [seq |-> nextSeq, src |-> src, class |-> nft.class, token |-> nft.token,
                   sender |-> nftOwner[nft], receiver |-> receiver, state |-> "sent"]
           item == ItemOf(nft)
<1>1. /\ nftOwner[nft] \in Users /\ src \in Endpoints
      /\ packets' = packets \cup {new}
      /\ nftOwner' = [nftOwner EXCEPT ![nft] = Ics721]
  BY DEF SendNft, Escrow
<1>2. SourceNft(new) = nft /\ Unresolved(new) /\ Dest(new).chain \in Chains
      /\ new.src.chain = nft.chain /\ new.sender = nftOwner[nft] /\ new.receiver = receiver
  BY <1>1, TopologyAssumption DEF SourceNft, Unresolved, Dest, Nfts
<1>3. item \in Items /\ nft.chain \in Chains
  BY ItemOfType DEF Nfts
<1>4. PlaceOf(item) = [chain |-> nft.chain, user |-> nftOwner[nft]]
  BY <1>1, ReadPlaces DEF PlacesRead
<1> HIDE DEF new
<1>5. PlaceOf(item)' = [from |-> [chain |-> nft.chain, user |-> nftOwner[nft]],
                        to |-> Dest(new).chain, receiver |-> receiver]
  BY <1>1, <1>2, ReadPlacesNext DEF PlacesRead
<1>6. \A m \in Nfts : ~ SameNft(m, nft) => nftOwner'[m] = nftOwner[m]
  BY <1>1 DEF IInv, TypeOK, SameNft
<1>7. SameNft(nft, nft)
  BY DEF SameNft
<1>8. \A other \in Items \ {item} : PlaceOf(other)' = PlaceOf(other)
  BY <1>1, <1>2, <1>6, <1>7, OtherItems
<1>9. PlaceOf(item) \in Custody!Held
  BY <1>1, <1>3, <1>4 DEF Custody!Held
<1>10. Custody!Depart(item, Dest(new).chain, receiver)
  BY <1>3, <1>4, <1>5, <1>8, <1>9, MoveStep DEF Custody!Depart
<1> QED
  BY <1>2, <1>3, <1>10 DEF Custody!Next

\* A successful receive, of either kind, arrives at the receiver or, if the
\* packet names the contract itself, loses the NFT.
LEMMA ReceiveArrives ==
  ASSUME IInv, IInv', NEW p \in packets, Unresolved(p),
         LocalNft(p) \in Nfts, SameNft(LocalNft(p), SourceNft(p)),
         LocalNft(p) # SourceNft(p),
         p.receiver \in Accounts,
         nftOwner' = [nftOwner EXCEPT ![LocalNft(p)] = p.receiver],
         Acknowledge(p, "ok")
  PROVE  Custody!Next
<1> DEFINE old == SourceNft(p)
           nft == LocalNft(p)
           item == ItemOf(old)
           done == [p EXCEPT !.state = "ok"]
<1>1. /\ p \in Packets /\ old \in Nfts /\ nftOwner[old] = Ics721 /\ Binds(p)
      /\ \A q \in packets : Binds(q) /\ q # p => SourceNft(q) # old
  BY PacketFacts DEF Binds
<1>2. /\ p.sender \in Users /\ p.receiver \in Receivers
      /\ p.src.chain \in Chains /\ Dest(p).chain \in Chains
  BY <1>1, SourceNftType, TopologyAssumption DEF Packets
<1>3. packets' = (packets \ {p}) \cup {done} /\ ~ Unresolved(done) /\ SourceNft(done) = old
  BY <1>1, AckedPacket DEF Acknowledge, Unresolved, PacketStates
<1>4. item \in Items /\ ItemOf(nft) = item /\ nft.chain = Dest(p).chain
  BY <1>1, ItemOfType, SameItem DEF LocalNft
<1>5. PlaceOf(item) = [from |-> [chain |-> p.src.chain, user |-> p.sender],
                       to |-> Dest(p).chain, receiver |-> p.receiver]
  BY ReadPlaces DEF PlacesRead
<1>6. PlaceOf(item) \in Custody!InTransit
  BY <1>2, <1>5 DEF Custody!InTransit, Custody!Held
<1>7. nftOwner'[nft] = p.receiver /\ \A m \in Nfts \ {nft} : nftOwner'[m] = nftOwner[m]
  BY DEF IInv, TypeOK
<1> HIDE DEF done, old, nft
<1>8. \A other \in Items \ {item} : PlaceOf(other)' = PlaceOf(other)
  <2>1. \A m \in Nfts : ~ SameNft(m, old) => nftOwner'[m] = nftOwner[m]
    BY <1>7 DEF nft, old
  <2>2. SameNft(old, old) /\ SourceNft(p) = old
    BY DEF SameNft, old
  <2> QED
    BY <1>1, <1>3, <2>1, <2>2, OtherItems
<1>9. CASE p.receiver \in Users
  <2>1. PlaceOf(ItemOf(nft))' = [chain |-> nft.chain, user |-> p.receiver]
    BY <1>7, <1>9, ReadPlacesNext DEF PlacesRead, nft
  <2>2. Custody!Arrive(item)
    BY <1>4, <1>5, <1>6, <1>8, <1>9, <2>1, MoveStep DEF Custody!Arrive
  <2> QED
    BY <1>4, <2>2 DEF Custody!Next
<1>10. CASE p.receiver \notin Users
  <2>1. \A m \in Nfts : SameNft(m, old) => ~ Tip(m)'
    <3> SUFFICES ASSUME NEW m \in Nfts, SameNft(m, old), Tip(m)' PROVE FALSE
      OBVIOUS
    <3>1. m # old
      BY <1>1, <1>3, <1>7, AddressAssumption DEF Tip, Binds, nft, old
    <3>2. Tip(m) \/ m = nft
      BY <1>3, <1>7 DEF Tip
    <3>3. Tip(old)
      BY DEF Tip, old
    <3>4. m = nft
      BY <1>1, <3>1, <3>2, <3>3 DEF IInv, SingleTip
    <3>5. Tip(nft)
      BY <1>3, <1>7, <1>10, <3>4 DEF Tip, nft
    <3> QED
      BY <1>1, <3>1, <3>3, <3>4, <3>5 DEF IInv, SingleTip, nft, old
  <2>2. PlaceOf(item)' = [gone |-> TRUE]
    BY <1>1, <2>1, GoneNext, ReadPlacesNext
  <2>3. Custody!Lose(item)
    <3>1. Custody!Move(item, [gone |-> TRUE])
      BY <1>4, <1>8, <2>2, MoveStep, Zenon
    <3>2. PlaceOf(item).receiver = p.receiver
      BY <1>5
    <3> QED
      BY <1>4, <1>6, <1>10, <3>1, <3>2 DEF Custody!Lose, Custody!Gone
  <2> QED
    BY <1>4, <2>3 DEF Custody!Next
<1> QED
  BY <1>9, <1>10

\* A failed transfer is refunded.
LEMMA FailRefunds ==
  ASSUME IInv, IInv', NEW p \in packets, Unresolved(p), HandlePacketFail(p)
  PROVE  Custody!Next
<1> DEFINE nft == SourceNft(p)
           item == ItemOf(nft)
<1>1. p \in Packets /\ nft \in Nfts /\ nft.chain = p.src.chain
  BY PacketFacts DEF SourceNft
<1>2. /\ p.sender \in Users /\ p.receiver \in Receivers
      /\ p.src.chain \in Chains /\ Dest(p).chain \in Chains
  BY <1>1, SourceNftType, TopologyAssumption DEF Packets
<1>3. packets' = packets \ {p} /\ nftOwner' = [nftOwner EXCEPT ![nft] = p.sender]
  BY DEF HandlePacketFail, Refundee
<1>4. item \in Items
  BY <1>1, ItemOfType
<1>5. PlaceOf(item) = [from |-> [chain |-> p.src.chain, user |-> p.sender],
                       to |-> Dest(p).chain, receiver |-> p.receiver]
  BY ReadPlaces DEF PlacesRead
<1>6. PlaceOf(item) \in Custody!InTransit
  BY <1>2, <1>5 DEF Custody!InTransit, Custody!Held
<1>7. nftOwner'[nft] = p.sender /\ \A m \in Nfts \ {nft} : nftOwner'[m] = nftOwner[m]
  BY <1>1, <1>3 DEF IInv, TypeOK
<1>8. PlaceOf(item)' = [chain |-> p.src.chain, user |-> p.sender]
  BY <1>1, <1>2, <1>7, ReadPlacesNext DEF PlacesRead
<1>9. SameNft(nft, nft)
  BY DEF SameNft
<1>10. \A other \in Items \ {item} : PlaceOf(other)' = PlaceOf(other)
  BY <1>1, <1>3, <1>7, <1>9, OtherItems
<1> HIDE DEF nft
<1>11. PlaceOf(item)' = PlaceOf(item).from
  BY <1>5, <1>8
<1>12. Custody!Refund(item)
  BY <1>4, <1>6, <1>10, <1>11, MoveStep DEF Custody!Refund
<1> QED
  BY <1>4, <1>12 DEF Custody!Next

\* What a user does with an NFT of his own is a hand-over or the loss of the NFT.
LEMMA OwnerHandsOver ==
  ASSUME IInv, IInv', NEW nft \in Nfts, NEW to \in Accounts \cup {NoOne},
         nftOwner[nft] \in Users,
         nftOwner' = [nftOwner EXCEPT ![nft] = to],
         UNCHANGED packets
  PROVE  Custody!Next
<1> DEFINE item == ItemOf(nft)
<1>1. item \in Items /\ nft.chain \in Chains
  BY ItemOfType DEF Nfts
<1>2. PlaceOf(item) = [chain |-> nft.chain, user |-> nftOwner[nft]]
  BY ReadPlaces DEF PlacesRead
<1>3. PlaceOf(item) \in Custody!Held
  BY <1>1, <1>2 DEF Custody!Held
<1>4. nftOwner'[nft] = to /\ \A m \in Nfts \ {nft} : nftOwner'[m] = nftOwner[m]
  BY DEF IInv, TypeOK
<1>5. SameNft(nft, nft)
  BY DEF SameNft
<1>6. \A other \in Items \ {item} : PlaceOf(other)' = PlaceOf(other)
  BY <1>4, <1>5, OtherItems
<1>7. CASE to \in Users
  <2>1. PlaceOf(item)' = [chain |-> nft.chain, user |-> to]
    BY <1>4, <1>7, ReadPlacesNext DEF PlacesRead
  <2>2. PlaceOf(item)' = [PlaceOf(item) EXCEPT !.user = to]
    BY <1>2, <2>1
  <2>3. Custody!HandOver(item, to)
    BY <1>1, <1>3, <1>6, <2>2, MoveStep DEF Custody!HandOver
  <2> QED
    BY <1>1, <1>7, <2>3 DEF Custody!Next
<1>8. CASE to \notin Users
  <2>1. \A m \in Nfts : SameNft(m, nft) => ~ Tip(m)'
    <3> SUFFICES ASSUME NEW m \in Nfts, SameNft(m, nft), Tip(m)' PROVE FALSE
      OBVIOUS
    <3>1. Tip(nft) /\ (m = nft \/ Tip(m))
      BY <1>4 DEF Tip
    <3>2. m = nft
      BY <3>1 DEF IInv, SingleTip
    <3>3. PICK p \in packets : Unresolved(p) /\ SourceNft(p) = nft
      BY <1>4, <1>8, <3>2 DEF Tip
    <3> QED
      BY <3>3, PacketFacts, AddressAssumption DEF Binds
  <2>2. PlaceOf(item)' = [gone |-> TRUE]
    BY <2>1, GoneNext, ReadPlacesNext
  <2>3. Custody!Move(item, [gone |-> TRUE])
    BY <1>1, <1>6, <2>2, MoveStep, Zenon
  <2>4. Custody!Lose(item)
    BY <1>1, <1>3, <2>3 DEF Custody!Lose, Custody!Gone
  <2> QED
    BY <1>1, <2>4 DEF Custody!Next
<1> QED
  BY <1>7, <1>8

-----------------------------------------------------------------------------
\* Acknowledgements of successes, failed receives, pauses and migrations do not
\* show in the custody of NFTs.
LEMMA HiddenSteps ==
  ASSUME IInv, IInv',
         \A n \in Nfts : nftOwner'[n] = nftOwner[n] \/
                           (nftOwner[n] \notin Users /\ nftOwner'[n] \notin Users),
         \A q : Unresolved(q) => (q \in packets' <=> q \in packets)
  PROVE  UNCHANGED [item \in Items |-> PlaceOf(item)]
<1>1. \A item \in Items : PlaceOf(item)' = PlaceOf(item)
  BY SamePlace DEF Copies
<1> QED
  BY <1>1, StutterStep

LEMMA FailureHidden ==
  ASSUME IInv, IInv', NEW p \in packets, RecvFail(p)
  PROVE  UNCHANGED [item \in Items |-> PlaceOf(item)]
<1> DEFINE old == SourceNft(p)
           item == ItemOf(old)
           done == [p EXCEPT !.state = "error"]
<1>1. p \in Packets /\ old \in Nfts /\ Unresolved(p)
  BY PacketFacts DEF RecvFail, Unresolved
<1>2. /\ SourceNft(done) = old /\ Unresolved(done) /\ done.src = p.src
      /\ done.sender = p.sender /\ done.receiver = p.receiver
  BY <1>1, AckedPacket DEF Unresolved, Packets, PacketStates
<1>3. packets' = (packets \ {p}) \cup {done} /\ nftOwner' = nftOwner
  BY DEF RecvFail, Acknowledge, ledger
<1> HIDE DEF done
<1>4. PlaceOf(item)' = PlaceOf(item)
  <2>1. PlaceOf(item) = [from |-> [chain |-> p.src.chain, user |-> p.sender],
                         to |-> Dest(p).chain, receiver |-> p.receiver]
    BY <1>1, ReadPlaces DEF PlacesRead
  <2>2. done \in packets'
    BY <1>3
  <2>3. PlaceOf(item)' = [from |-> [chain |-> done.src.chain, user |-> done.sender],
                          to |-> Dest(done).chain, receiver |-> done.receiver]
    BY <1>2, <2>2, ReadPlacesNext DEF PlacesRead
  <2> QED
    BY <1>2, <2>1, <2>3 DEF Dest
<1>5. SameNft(old, old)
  BY DEF SameNft
<1>6. \A other \in Items \ {item} : PlaceOf(other)' = PlaceOf(other)
  BY <1>1, <1>2, <1>3, <1>5, OtherItems
<1> QED
  BY <1>4, <1>6, StutterStep

-----------------------------------------------------------------------------
LEMMA InitRefines == Init => Custody!Init
<1> SUFFICES ASSUME Init PROVE Custody!Init
  OBVIOUS
<1>1. IInv
  BY InitInv
<1>2. ASSUME NEW item \in Items PROVE PlaceOf(item) \in Custody!Held
  <2>1. PICK base \in Collections, token \in TokenIds : item = <<base, token>>
    BY DEF Items
  <2> DEFINE n == [chain |-> HomeOf[base], class |-> [hops |-> <<>>, base |-> base],
                   token |-> token]
  <2>2. <<>> \in HopSeqs
    <3>1. <<>> \in Seq(ChannelIds) /\ Len(<<>>) <= MaxHops
      BY BoundAssumption
    <3> QED
      BY <3>1, HopSeqIntro, Zenon
  <2>3. n \in Nfts /\ AtHome(n) /\ ItemOf(n) = item
    BY <2>1, <2>2, TopologyAssumption DEF Nfts, ClassIds, AtHome, IsVoucher, ItemOf
  <2>4. nftOwner[n] \in Users
    BY <2>1, <2>3 DEF Init
  <2>5. n.chain \in Chains
    BY <2>3 DEF Nfts
  <2> HIDE DEF n
  <2>6. PlaceOf(item) = [chain |-> n.chain, user |-> nftOwner[n]]
    BY <1>1, <2>3, <2>4, HeldPlace
  <2> QED
    BY <2>4, <2>5, <2>6 DEF Custody!Held
<1> QED
  BY <1>2 DEF Custody!Init

LEMMA StepRefines ==
  IInv /\ IInv' /\ [Next]_vars => [Custody!Next]_[item \in Items |-> PlaceOf(item)]
<1> SUFFICES ASSUME IInv, IInv', [Next]_vars
             PROVE  Custody!Next \/ UNCHANGED [item \in Items |-> PlaceOf(item)]
  OBVIOUS
<1>1. ASSUME NEW nft \in Nfts, NEW channel \in ChannelIds, NEW receiver \in Receivers,
             SendNft(nft, channel, receiver)
      PROVE  Custody!Next
  BY <1>1, SendDeparts
<1>2. ASSUME NEW p \in packets, RecvRedeem(p) PROVE Custody!Next
  <2>1. p \in Packets /\ Unresolved(p) /\ HasPrefix(p.src, p.class) /\ p.receiver \in Accounts
    BY <1>2, PacketFacts
       DEF RecvRedeem, RedemptionWorks, ReceiveAllowed, IsRedemption, Unresolved
  <2> QED
    BY <1>2, <2>1, BackPacket, ReceiveArrives DEF RecvRedeem
<1>3. ASSUME NEW p \in packets, RecvCreate(p) PROVE Custody!Next
  <2>1. /\ p \in Packets /\ Unresolved(p) /\ p.receiver \in Accounts
        /\ nftOwner[LocalNft(p)] = NoOne /\ ~ IsRedemption(p)
    BY <1>3, PacketFacts
       DEF RecvCreate, CreationWorks, ReceiveAllowed, MintWorks, Unresolved
  <2>2. ~ HasPrefix(p.src, p.class)
    BY <2>1, ReturnIsRedemption
  <2>3. Len(p.class.hops) < MaxHops
    BY <2>2 DEF IInv, PacketsFit
  <2>4. LocalNft(p) # SourceNft(p)
    BY <2>1, PacketFacts, AddressAssumption DEF Binds
  <2> QED
    BY <1>3, <2>1, <2>2, <2>3, <2>4, ForwardPacket, ReceiveArrives DEF RecvCreate
<1>4. ASSUME NEW p \in packets, RecvFail(p)
      PROVE  UNCHANGED [item \in Items |-> PlaceOf(item)]
  BY <1>4, FailureHidden
<1>5. ASSUME NEW p \in packets, AckBurn(p)
      PROVE  UNCHANGED [item \in Items |-> PlaceOf(item)]
  <2>1. packets' = packets \ {p} /\ ~ Unresolved(p)
        /\ nftOwner[SourceNft(p)] = Ics721
        /\ nftOwner' = [nftOwner EXCEPT ![SourceNft(p)] = NoOne]
    BY <1>5 DEF AckBurn, Unresolved
  <2> QED
    BY <2>1, HiddenSteps, AddressAssumption DEF IInv, TypeOK
<1>6. ASSUME NEW p \in packets, AckKeep(p)
      PROVE  UNCHANGED [item \in Items |-> PlaceOf(item)]
  <2>1. packets' = packets \ {p} /\ ~ Unresolved(p) /\ nftOwner' = nftOwner
    BY <1>6 DEF AckKeep, Unresolved, ledger
  <2> QED
    BY <2>1, HiddenSteps
<1>7. ASSUME NEW p \in packets, AckFail(p) \/ Timeout(p) PROVE Custody!Next
  BY <1>7, FailRefunds DEF AckFail, Timeout, Unresolved
<1>8. ASSUME NEW nft \in Nfts, NEW to \in Accounts, UserTransfer(nft, to)
      PROVE  Custody!Next
  BY <1>8, OwnerHandsOver DEF UserTransfer
<1>9. ASSUME NEW nft \in Nfts, UserBurn(nft) PROVE Custody!Next
  BY <1>9, OwnerHandsOver DEF UserBurn
<1>10. CASE UNCHANGED <<nftOwner, packets>>
  BY <1>10, HiddenSteps
<1> QED
  BY <1>1, <1>2, <1>3, <1>4, <1>5, <1>6, <1>7, <1>8, <1>9, <1>10
     DEF Next, Receive, Resolve, Pause, Migrate, vars, ledger

\* The network implements the custody promise: at every moment every NFT is with
\* one user, in one transfer or gone, and every step moves it as promised.
THEOREM CustodyRefinement == Spec => ImplementsCustody
<1>1. Init => Custody!Init
  BY InitRefines
<1>2. IInv /\ IInv' /\ [Next]_vars => [Custody!Next]_[item \in Items |-> PlaceOf(item)]
  BY StepRefines
<1> QED
  BY <1>1, <1>2, Invariance, PTL DEF Spec, ImplementsCustody, Custody!Spec

-----------------------------------------------------------------------------
(***************************************************************************)
(* With the operators' rule, the admin messages keep the invariant of the  *)
(* network.  IInv alone is not enough: when the admin releases an escrowed *)
(* NFT, nothing in IInv says that no other copy of it is with a user.      *)
(* SingleEnd does, and it is inductive together with IInv.                 *)
(***************************************************************************)

(* How ends move.                                                          *)

\* What a user holds or an undecided packet carries is an end.
LEMMA TipIsEnd ==
  ASSUME IInv, NEW n \in Nfts, Tip(n)
  PROVE  End(n)
<1>1. CASE nftOwner[n] \in Users
  <2>1. nftOwner[n] # Ics721 /\ nftOwner[n] # NoOne
    BY <1>1, AddressAssumption
  <2>2. \A p \in packets : AwaitsBurn(p) => SourceNft(p) # n
    BY <2>1, PacketFacts DEF Binds
  <2> QED
    BY <2>1, <2>2, NoLiveVoucherOf DEF End, Live
<1>2. ASSUME NEW p \in packets, Unresolved(p), SourceNft(p) = n
      PROVE  End(n)
  <2>1. Binds(p) /\ ~ AwaitsBurn(p)
    BY <1>2 DEF Binds, Unresolved, AwaitsBurn
  <2>2. nftOwner[n] # NoOne
    BY <1>2, <2>1, PacketFacts, AddressAssumption
  <2>3. \A q \in packets : AwaitsBurn(q) => SourceNft(q) # n
    BY <1>2, <2>1, PacketFacts DEF Binds
  <2> QED
    BY <1>2, <2>1, <2>2, <2>3, NoLiveVoucherOf DEF End, Live
<1> QED
  BY <1>1, <1>2 DEF Tip

\* Where nothing is made and nothing disappears, the ends stay.
LEMMA EndsStay ==
  ASSUME SingleEnd, \A n \in Nfts : Live(n)' <=> Live(n)
  PROVE  SingleEnd'
<1>1. \A n \in Nfts : End(n)' => End(n)
  BY DEF End
<1> QED
  BY <1>1 DEF SingleEnd

\* An end that moves leaves its old place.
LEMMA EndMoves ==
  ASSUME SingleEnd, NEW old \in Nfts, NEW new \in Nfts, SameNft(new, old), End(old),
         \A n \in Nfts : End(n)' => n = new \/ (End(n) /\ n # old)
  PROVE  SingleEnd'
<1> SUFFICES ASSUME NEW m \in Nfts, NEW n \in Nfts, SameNft(m, n), End(m)', End(n)'
             PROVE  m = n
  BY DEF SingleEnd
<1>1. ASSUME NEW k \in Nfts, End(k)', SameNft(k, new) PROVE k = new
  BY <1>1 DEF SingleEnd, SameNft
<1>2. CASE m = new \/ n = new
  BY <1>1, <1>2 DEF SameNft
<1>3. CASE m # new /\ n # new
  BY <1>3 DEF SingleEnd
<1> QED
  BY <1>2, <1>3

\* An NFT that disappears was the end, and what it stood for is the end now.
LEMMA EndBurned ==
  ASSUME IInv, SingleEnd, NEW nft \in Nfts, End(nft),
         \A n \in Nfts : Live(n)' <=> Live(n) /\ n # nft
  PROVE  SingleEnd'
<1>1. CASE IsVoucher(nft)
  <2>1. Origin(nft) \in Nfts /\ SameNft(Origin(nft), nft)
    BY <1>1, LiveVoucherBacked, OriginType DEF End, Backed
  <2>2. \A n \in Nfts : End(n)' => n = Origin(nft) \/ (End(n) /\ n # nft)
    BY DEF End
  <2> QED
    BY <2>1, <2>2, EndMoves
<1>2. CASE ~ IsVoucher(nft)
  <2>1. \A n \in Nfts : End(n)' => End(n) /\ n # nft
    BY <1>2 DEF End
  <2>2. SameNft(nft, nft)
    BY DEF SameNft
  <2> QED
    BY <2>1, <2>2, EndMoves
<1> QED
  BY <1>1, <1>2

-----------------------------------------------------------------------------
(* The steps of the network keep a single end.                             *)

\* Sending moves nothing but the owner.
LEMMA SendNftEnd ==
  ASSUME IInv, SingleEnd, NEW nft \in Nfts, NEW channel \in ChannelIds,
         NEW receiver \in Receivers, SendNft(nft, channel, receiver)
  PROVE  SingleEnd'
<1> DEFINE src == [chain |-> nft.chain, channel |-> channel]
           new == [seq |-> nextSeq, src |-> src, class |-> nft.class, token |-> nft.token,
                   sender |-> nftOwner[nft], receiver |-> receiver, state |-> "sent"]
<1>1. /\ packets' = packets \cup {new} /\ ~ AwaitsBurn(new)
      /\ nftOwner' = [nftOwner EXCEPT ![nft] = Ics721] /\ nftOwner[nft] \in Users
  BY DEF SendNft, Escrow, AwaitsBurn
<1> HIDE DEF new
<1>2. \A n \in Nfts : nftOwner'[n] = NoOne <=> nftOwner[n] = NoOne
  BY <1>1, AddressAssumption DEF IInv, TypeOK
<1>3. \A n \in Nfts : Live(n)' <=> Live(n)
  BY <1>1, <1>2 DEF Live
<1> QED
  BY <1>3, EndsStay

\* A redemption moves the end from the voucher to what it stood for.
LEMMA RecvRedeemEnd ==
  ASSUME IInv, SingleEnd, NEW p \in packets, RecvRedeem(p)
  PROVE  SingleEnd'
<1> DEFINE old == SourceNft(p)
           nft == LocalNft(p)
           done == [p EXCEPT !.state = "ok"]
<1>1. /\ p \in Packets /\ old \in Nfts /\ p.state = "sent" /\ Unresolved(p)
      /\ HasPrefix(p.src, p.class) /\ p.receiver \in Accounts /\ nftOwner[nft] = Ics721
  BY PacketFacts DEF RecvRedeem, RedemptionWorks, ReceiveAllowed, IsRedemption,
                     TransferWorks, Unresolved
<1>2. nft \in Nfts /\ Origin(old) = nft /\ SameNft(nft, old)
  BY <1>1, BackPacket
<1>3. /\ SourceNft(done) = old /\ AwaitsBurn(done) /\ ~ AwaitsBurn(p)
      /\ packets' = (packets \ {p}) \cup {done}
      /\ nftOwner' = [nftOwner EXCEPT ![nft] = p.receiver]
  BY <1>1, AckedPacket DEF AwaitsBurn, PacketStates, RecvRedeem, Acknowledge
<1>4. End(old)
  BY <1>1, TipIsEnd DEF Tip
<1> HIDE DEF old, nft, done
<1>5. \A n \in Nfts : nftOwner'[n] = NoOne <=> nftOwner[n] = NoOne
  BY <1>1, <1>2, <1>3, AddressAssumption DEF IInv, TypeOK, Accounts
<1>6. \A n \in Nfts : Live(n)' <=> Live(n) /\ n # old
  BY <1>3, <1>5 DEF Live
<1>7. \A n \in Nfts : End(n)' => n = nft \/ (End(n) /\ n # old)
  BY <1>2, <1>6 DEF End
<1> QED
  BY <1>1, <1>2, <1>4, <1>7, EndMoves

\* A creation moves the end to the new voucher.
LEMMA RecvCreateEnd ==
  ASSUME IInv, SingleEnd, NEW p \in packets, RecvCreate(p)
  PROVE  SingleEnd'
<1> DEFINE orig == SourceNft(p)
           nft == LocalNft(p)
           done == [p EXCEPT !.state = "ok"]
<1>1. /\ p \in Packets /\ orig \in Nfts /\ p.state = "sent" /\ Unresolved(p) /\ Binds(p)
      /\ p.receiver \in Accounts /\ nftOwner[nft] = NoOne
  BY PacketFacts DEF RecvCreate, CreationWorks, ReceiveAllowed, MintWorks, Unresolved, Binds
<1>2. ~ HasPrefix(p.src, p.class)
  BY <1>1, ReturnIsRedemption DEF RecvCreate, CreationWorks
<1>3. nft \in Nfts /\ IsVoucher(nft) /\ Origin(nft) = orig /\ SameNft(nft, orig)
  BY <1>1, <1>2, ForwardPacket DEF IInv, PacketsFit
<1>4. /\ ~ AwaitsBurn(done) /\ ~ AwaitsBurn(p)
      /\ packets' = (packets \ {p}) \cup {done}
      /\ nftOwner' = [nftOwner EXCEPT ![nft] = p.receiver]
  BY <1>1, <1>2, AckedPacket DEF AwaitsBurn, PacketStates, RecvCreate, Acknowledge
<1>5. End(orig)
  BY <1>1, TipIsEnd DEF Tip
<1>6. \A q \in packets : AwaitsBurn(q) => SourceNft(q) # nft
  BY <1>1, PacketFacts, AddressAssumption DEF Binds
<1> HIDE DEF orig, nft, done
<1>7. /\ nftOwner'[nft] # NoOne
      /\ \A n \in Nfts : n # nft => nftOwner'[n] = nftOwner[n]
  BY <1>1, <1>3, <1>4, AddressAssumption DEF IInv, TypeOK, Accounts
<1>8. \A n \in Nfts : Live(n)' <=> Live(n) \/ n = nft
  BY <1>1, <1>4, <1>6, <1>7 DEF Live
<1>9. \A n \in Nfts : End(n)' => n = nft \/ (End(n) /\ n # orig)
  BY <1>3, <1>8 DEF End
<1> QED
  BY <1>1, <1>3, <1>5, <1>9, EndMoves

\* Failing, refunding and acknowledging make and unmake nothing that was live.
LEMMA ResolveLive ==
  ASSUME IInv, NEW p \in packets, RecvFail(p) \/ Resolve(p)
  PROVE  \A n \in Nfts : Live(n)' <=> Live(n)
<1>1. p \in Packets /\ SourceNft(p) \in Nfts
  BY PacketFacts
<1>2. CASE RecvFail(p)
  <2> DEFINE done == [p EXCEPT !.state = "error"]
  <2>1. /\ ~ AwaitsBurn(p) /\ ~ AwaitsBurn(done)
        /\ packets' = (packets \ {p}) \cup {done} /\ nftOwner' = nftOwner
    BY <1>1, <1>2, AckedPacket DEF RecvFail, Acknowledge, AwaitsBurn, PacketStates, ledger
  <2> HIDE DEF done
  <2> QED
    BY <2>1 DEF Live
<1>3. CASE AckBurn(p)
  <2>1. AwaitsBurn(p)
    BY <1>1, <1>3, SourceNftType, AddressAssumption
       DEF IInv, IncomingIsLastHop, AckBurn, ReturningToSource, HasPrefix, IsVoucher,
           SourceNft, AwaitsBurn
  <2>2. /\ packets' = packets \ {p}
        /\ nftOwner' = [nftOwner EXCEPT ![SourceNft(p)] = NoOne]
    BY <1>3 DEF AckBurn
  <2>3. /\ nftOwner'[SourceNft(p)] = NoOne
        /\ \A n \in Nfts : n # SourceNft(p) => nftOwner'[n] = nftOwner[n]
    BY <1>1, <2>2 DEF IInv, TypeOK
  <2> QED
    BY <2>1, <2>2, <2>3 DEF Live
<1>4. CASE AckKeep(p)
  <2>1. /\ p.state = "ok" /\ ~ ReturningToSource(p)
        /\ packets' = packets \ {p} /\ nftOwner' = nftOwner
    BY <1>4 DEF AckKeep, ledger
  <2>2. ~ AwaitsBurn(p)
    <3> SUFFICES ASSUME AwaitsBurn(p) PROVE FALSE
      OBVIOUS
    <3>1. nftOwner[SourceNft(p)] # NoOne /\ IsVoucher(SourceNft(p))
      BY <1>1, PacketFacts, AddressAssumption, BackPacket DEF AwaitsBurn, Binds
    <3>2. incoming[SourceNft(p)] = p.src.channel
      BY <1>1, <3>1 DEF IInv, IncomingIsLastHop, AwaitsBurn, HasPrefix, SourceNft
    <3> QED
      BY <2>1, <3>2 DEF ReturningToSource
  <2> QED
    BY <2>1, <2>2 DEF Live
<1>5. CASE Unresolved(p) /\ HandlePacketFail(p)
  <2>1. /\ ~ AwaitsBurn(p) /\ packets' = packets \ {p} /\ p.sender \in Users
        /\ nftOwner[SourceNft(p)] = Ics721
        /\ nftOwner' = [nftOwner EXCEPT ![SourceNft(p)] = p.sender]
    BY <1>1, <1>5 DEF HandlePacketFail, Refundee, TransferWorks, Unresolved, AwaitsBurn,
                      Packets
  <2>2. \A n \in Nfts : nftOwner'[n] = NoOne <=> nftOwner[n] = NoOne
    BY <1>1, <2>1, AddressAssumption DEF IInv, TypeOK
  <2> QED
    BY <2>1, <2>2 DEF Live
<1> QED
  BY <1>2, <1>3, <1>4, <1>5 DEF Resolve, AckFail, Timeout, Unresolved

\* An owner hands an end on, or burns it.
LEMMA OwnerEnd ==
  ASSUME IInv, SingleEnd, NEW nft \in Nfts, NEW to \in Accounts,
         UserTransfer(nft, to) \/ UserBurn(nft)
  PROVE  SingleEnd'
<1>1. nftOwner[nft] \in Users /\ packets' = packets
  BY DEF UserTransfer, UserBurn
<1>2. CASE UserTransfer(nft, to)
  <2>1. \A n \in Nfts : nftOwner'[n] = NoOne <=> nftOwner[n] = NoOne
    BY <1>1, <1>2, AddressAssumption DEF UserTransfer, IInv, TypeOK, Accounts
  <2>2. \A n \in Nfts : Live(n)' <=> Live(n)
    BY <1>1, <2>1 DEF Live
  <2> QED
    BY <2>2, EndsStay
<1>3. CASE UserBurn(nft)
  <2>1. /\ nftOwner'[nft] = NoOne
        /\ \A n \in Nfts : n # nft => nftOwner'[n] = nftOwner[n]
    BY <1>3 DEF UserBurn, IInv, TypeOK
  <2>2. End(nft)
    BY <1>1, TipIsEnd DEF Tip
  <2>3. \A n \in Nfts : Live(n)' <=> Live(n) /\ n # nft
    BY <1>1, <2>1 DEF Live
  <2> QED
    BY <2>2, <2>3, EndBurned
<1> QED
  BY <1>2, <1>3

\* Every step of the network keeps a single end.
LEMMA NextEnd ==
  ASSUME IInv, SingleEnd, [Next]_vars
  PROVE  SingleEnd'
<1>1. ASSUME NEW p \in packets, Receive(p) PROVE SingleEnd'
  BY <1>1, RecvRedeemEnd, RecvCreateEnd, ResolveLive, EndsStay DEF Receive
<1>2. CASE UNCHANGED <<nftOwner, packets>>
  BY <1>2, EndsStay DEF Live
<1> QED
  BY <1>1, <1>2, SendNftEnd, ResolveLive, EndsStay, OwnerEnd, AddressAssumption
     DEF Next, Pause, Migrate, vars, ledger, Accounts

-----------------------------------------------------------------------------
(* The admin messages.                                                     *)

\* Burning a settled voucher keeps the invariants, whoever owned it.
LEMMA CleanAndBurnInv ==
  ASSUME IInv, SingleEnd, NEW nft \in Nfts, NEW owner \in Accounts, Settled(nft),
         IsVoucher(nft), AdminCleanAndBurnNft(nft, owner)
  PROVE  IInv' /\ SingleEnd'
<1>1. /\ nftOwner' = [nftOwner EXCEPT ![nft] = NoOne]
      /\ incoming' = [incoming EXCEPT ![nft] = NoChannel]
      /\ metadata' = metadata \ {nft}
      /\ UNCHANGED <<outgoing, registry, po, packets, nextSeq, migrations>>
  BY DEF AdminCleanAndBurnNft, CleanIncoming
<1>2. /\ \A p \in packets : Binds(p) => SourceNft(p) # nft
      /\ \A v \in Nfts : IsVoucher(v) /\ Live(v) => Origin(v) # nft
  BY DEF Settled
<1>3. TypeOK'
  BY <1>1 DEF IInv, TypeOK
<1>4. /\ nftOwner'[nft] = NoOne /\ incoming'[nft] = NoChannel
      /\ \A m \in Nfts : m # nft => nftOwner'[m] = nftOwner[m] /\ incoming'[m] = incoming[m]
      /\ \A m \in Nfts : Registered(m)' <=> Registered(m)
  BY <1>1 DEF IInv, TypeOK, Registered
<1>5. \A m \in Nfts : Live(m)' <=> Live(m) /\ m # nft
  BY <1>1, <1>4 DEF Live
<1>6. PacketsFit' /\ OneBindingPacket'
  BY <1>1 DEF IInv, PacketsFit, OneBindingPacket
<1>7. InFlightLocked'
  BY <1>1, <1>2, <1>4, PacketFacts DEF InFlightLocked
<1>8. IncomingIsLastHop'
  BY <1>1, <1>4 DEF IInv, IncomingIsLastHop
<1>9. CanonicalClasses'
  BY <1>4 DEF IInv, CanonicalClasses
<1>10. VouchersBacked'
  <2> SUFFICES ASSUME NEW v \in Nfts, IsVoucher(v), Live(v)'
               PROVE  Backed(v)'
    BY DEF VouchersBacked
  <2>1. Backed(v) /\ Origin(v) \in Nfts /\ Origin(v) # nft
    BY <1>2, <1>5, LiveVoucherBacked
  <2> QED
    BY <1>1, <1>4, <2>1 DEF Backed
<1>11. SingleTip'
  <2>1. \A m \in Nfts : Tip(m)' => Tip(m)
    BY <1>1, <1>4, AddressAssumption DEF Tip
  <2> QED
    BY <2>1 DEF IInv, SingleTip
<1>12. SingleEnd'
  <2>1. CASE nftOwner[nft] = NoOne
    <3>1. \A m \in Nfts : Live(m)' <=> Live(m)
      BY <1>5, <2>1 DEF Live
    <3> QED
      BY <3>1, EndsStay
  <2>2. CASE nftOwner[nft] # NoOne
    <3>1. End(nft)
      BY <1>2, <2>2 DEF End, Live, Binds
    <3> QED
      BY <1>5, <3>1, EndBurned
  <2> QED
    BY <2>1, <2>2
<1> QED
  BY <1>3, <1>6, <1>7, <1>8, <1>9, <1>10, <1>11, <1>12 DEF IInv

\* Releasing a settled NFT gives a user the only end there is.
LEMMA CleanAndUnescrowInv ==
  ASSUME IInv, SingleEnd, NEW nft \in Nfts, NEW recipient \in Users, Settled(nft),
         AdminCleanAndUnescrowNft(nft, recipient)
  PROVE  IInv' /\ SingleEnd'
<1>1. /\ nftOwner' = [nftOwner EXCEPT ![nft] = IF @ = NoOne THEN NoOne ELSE recipient]
      /\ outgoing' = [outgoing EXCEPT ![nft] = NoChannel]
      /\ UNCHANGED <<incoming, metadata, registry, po, packets, nextSeq, migrations>>
  BY DEF AdminCleanAndUnescrowNft, CleanOutgoing
<1>2. /\ \A p \in packets : Binds(p) => SourceNft(p) # nft
      /\ \A v \in Nfts : IsVoucher(v) /\ Live(v) => Origin(v) # nft
  BY DEF Settled
<1>3. TypeOK'
  BY <1>1 DEF IInv, TypeOK, Accounts
<1>4. /\ \A m \in Nfts : m # nft => nftOwner'[m] = nftOwner[m] /\ outgoing'[m] = outgoing[m]
      /\ \A m \in Nfts : nftOwner'[m] = NoOne <=> nftOwner[m] = NoOne
      /\ \A m \in Nfts : Registered(m)' <=> Registered(m)
  BY <1>1, AddressAssumption DEF IInv, TypeOK, Registered
<1>5. \A m \in Nfts : Live(m)' <=> Live(m)
  BY <1>1, <1>4 DEF Live
<1>6. PacketsFit' /\ OneBindingPacket'
  BY <1>1 DEF IInv, PacketsFit, OneBindingPacket
<1>7. InFlightLocked'
  BY <1>1, <1>2, <1>4, PacketFacts DEF InFlightLocked
<1>8. IncomingIsLastHop'
  BY <1>1, <1>4 DEF IInv, IncomingIsLastHop
<1>9. CanonicalClasses'
  BY <1>4 DEF IInv, CanonicalClasses
<1>10. VouchersBacked'
  <2> SUFFICES ASSUME NEW v \in Nfts, IsVoucher(v), Live(v)'
               PROVE  Backed(v)'
    BY DEF VouchersBacked
  <2>1. Backed(v) /\ Origin(v) \in Nfts /\ Origin(v) # nft
    BY <1>2, <1>5, LiveVoucherBacked
  <2> QED
    BY <1>1, <1>4, <2>1 DEF Backed
<1>11. SingleTip'
  <2> SUFFICES ASSUME NEW m \in Nfts, NEW n \in Nfts, SameNft(m, n), Tip(m)', Tip(n)'
               PROVE  m = n
    BY DEF SingleTip
  <2>1. ASSUME NEW k \in Nfts, Tip(k)' PROVE End(k)
    <3>1. CASE k = nft
      <4>1. nftOwner[nft] # NoOne
        BY <1>1, <1>2, <1>4, <2>1, <3>1, AddressAssumption DEF Tip, Binds
      <4> QED
        BY <1>2, <3>1, <4>1 DEF End, Live, Binds
    <3>2. CASE k # nft
      BY <1>1, <1>4, <2>1, <3>2, TipIsEnd DEF Tip
    <3> QED
      BY <3>1, <3>2
  <2> QED
    BY <2>1 DEF SingleEnd
<1>12. SingleEnd'
  BY <1>5, EndsStay
<1> QED
  BY <1>3, <1>6, <1>7, <1>8, <1>9, <1>10, <1>11, <1>12 DEF IInv

\* Neither message leaves an entry for an NFT of the home chain that is not escrowed.
LEMMA AdminHomeEntries ==
  ASSUME IInv, HomeEntriesEscrowed, AdminNext
  PROVE  HomeEntriesEscrowed'
<1> SUFFICES ASSUME NEW n \in Nfts, AtHome(n), outgoing'[n] # NoChannel
             PROVE  nftOwner'[n] = Ics721
  BY DEF HomeEntriesEscrowed
<1>1. /\ nftOwner \in [Nfts -> Accounts \cup {NoOne}]
      /\ outgoing \in [Nfts -> ChannelIds \cup {NoChannel}]
      /\ outgoing[n] # NoChannel => nftOwner[n] = Ics721
  BY DEF IInv, TypeOK, HomeEntriesEscrowed
<1>2. ASSUME NEW nft \in Nfts, NEW owner \in Accounts, IsVoucher(nft),
             AdminCleanAndBurnNft(nft, owner)
      PROVE  nftOwner'[n] = Ics721
  BY <1>1, <1>2 DEF AdminCleanAndBurnNft, AtHome
<1>3. ASSUME NEW nft \in Nfts, NEW recipient \in Users,
             AdminCleanAndUnescrowNft(nft, recipient)
      PROVE  nftOwner'[n] = Ics721
  BY <1>1, <1>3 DEF AdminCleanAndUnescrowNft, CleanOutgoing
<1> QED
  BY <1>2, <1>3 DEF AdminNext

-----------------------------------------------------------------------------
\* Before any transfer the home NFTs are the only ones there are.
LEMMA InitEnd ==
  ASSUME Init
  PROVE  SingleEnd
<1> SUFFICES ASSUME NEW m \in Nfts, NEW n \in Nfts, SameNft(m, n), End(m), End(n)
             PROVE  m = n
  BY DEF SingleEnd
<1>1. AtHome(m) /\ AtHome(n)
  BY DEF Init, End, Live
<1>2. m.chain = n.chain /\ m.token = n.token /\ m.class.base = n.class.base
      /\ m.class.hops = n.class.hops
  BY <1>1 DEF AtHome, IsVoucher, SameNft
<1> QED
  BY <1>2 DEF Nfts, ClassIds

\* Whatever the admins clean up by the rule, and whatever transfers go on in the
\* meantime, the books of the network stay right and an NFT keeps a single end.
THEOREM RecoverySafe == RecoverySpec => [](IInv /\ SingleEnd /\ HomeEntriesEscrowed)
<1> DEFINE Inv == IInv /\ SingleEnd /\ HomeEntriesEscrowed
<1>1. Init => Inv
  BY InitInv, InitEnd DEF Init, HomeEntriesEscrowed
<1>2. Inv /\ [Next]_vars => Inv'
  BY NextInv, NextEnd, HomeEntriesStep
<1>3. Inv /\ AdminNext => Inv'
  BY CleanAndBurnInv, CleanAndUnescrowInv, AdminHomeEntries DEF AdminNext
<1>4. Inv /\ [Next \/ AdminNext]_vars => Inv'
  BY <1>2, <1>3
<1> QED
  BY <1>1, <1>4, PTL DEF RecoverySpec

\* Nobody can use two copies of an NFT after an admin released one.
THEOREM RecoveryKeepsOneOwner == RecoverySpec => []SingleOwner
<1>1. IInv => SingleOwner
  BY DEF IInv, SingleTip, Tip, SingleOwner
<1> QED
  BY <1>1, RecoverySafe, PTL

=============================================================================
