------------------------ MODULE NftMetadata_proofs -------------------------
(***************************************************************************)
(* Along every path, a voucher's data is the data its NFT was sent with,   *)
(* and a collection has one description, for every topology and all data.  *)
(* DataInv is inductive given IInv, which says who can still send what.    *)
(***************************************************************************)
EXTENDS NftMetadata, Ics721Net_proofs

\* Every step is a step of the network or of an admin.
LEMMA DataStepIsStep ==
  ASSUME [DataNext]_<<vars, data>>
  PROVE  [Next \/ AdminNext]_vars
<1>1. CASE OtherStep /\ Forget
  BY <1>1, Zenon DEF OtherStep, Next, Receive
<1>2. ASSUME NEW nft \in Nfts, NEW channel \in ChannelIds, NEW receiver \in Receivers,
             SendWithData(nft, channel, receiver)
      PROVE  Next
  BY <1>2, Zenon DEF SendWithData, Next
<1>3. ASSUME NEW p \in packets, CreateWithData(p) PROVE Next
  BY <1>3, Zenon DEF CreateWithData, Next, Receive
<1>4. CASE UNCHANGED vars
  BY <1>4
<1> QED
  BY <1>1, <1>2, <1>3, <1>4 DEF DataNext, EditNft, EditCollection

\* A collection is a class on its home chain.
LEMMA HomeClassType ==
  ASSUME NEW k \in Collections
  PROVE  HomeOf[k] \in Chains /\ HomeClass(k) \in ClassIds
<1> DEFINE empty == <<>>
<1>1. empty \in Seq(ChannelIds) /\ Len(empty) = 0 /\ 0 <= MaxHops
  BY BoundAssumption
<1> HIDE DEF empty
<1>2. empty \in HopSeqs
  BY <1>1, HopSeqIntro
<1> QED
  BY <1>2, TopologyAssumption DEF HomeClass, ClassIds, empty

-----------------------------------------------------------------------------
\* What is sent is data, and the class of what exists is described.
LEMMA SentIsData ==
  ASSUME IInv, DataInv, NEW nft \in Nfts, nftOwner[nft] # NoOne
  PROVE  /\ TokenMetadata(nft) \in Data /\ TokenMetadata(nft) # NotSent
         /\ ClassOf(nft) \in Infos /\ ClassOf(nft) # NoClass
         /\ nft.chain \in Chains /\ nft.class \in ClassIds
         /\ nft.class.base \in Collections
         /\ Registered(nft) <=> classData[nft.chain][nft.class] # NoClass
<1>1. /\ nft.chain \in Chains /\ nft.class \in ClassIds /\ nft.class.base \in Collections
  BY DEF Nfts, ClassIds
<1>2. Registered(nft) <=> classData[nft.chain][nft.class] # NoClass
  BY DEF DataInv, ClassesDescribed, QueryClassMetadata
<1>3. stored[nft] \in Data /\ content[nft] \in Data /\ info[nft.class.base] \in Infos
      /\ classData[nft.chain][nft.class] \in Infos \cup {NoClass}
  BY <1>1 DEF DataInv, DataTypeOK
<1>4. TokenMetadata(nft) \in Data /\ TokenMetadata(nft) # NotSent
  BY <1>3, DataAssumption DEF TokenMetadata
<1>5. ClassOf(nft) \in Infos /\ ClassOf(nft) # NoClass
  BY <1>2, <1>3, DataAssumption DEF ClassOf
<1> QED
  BY <1>1, <1>2, <1>4, <1>5

\* Sending keeps the data right: nobody has a voucher of what a user owns.
LEMMA SendDataInv ==
  ASSUME IInv, DataInv, NEW nft \in Nfts, NEW channel \in ChannelIds,
         NEW receiver \in Receivers, SendWithData(nft, channel, receiver)
  PROVE  DataInv'
<1> DEFINE token == TokenMetadata(nft)
           new == ClassOf(nft)
           pkt == [seq |-> nextSeq, src |-> [chain |-> nft.chain, channel |-> channel],
                   class |-> nft.class, token |-> nft.token, sender |-> nftOwner[nft],
                   receiver |-> receiver, state |-> "sent"]
<1>1. /\ nftOwner[nft] \in Users /\ nftOwner[nft] # NoOne /\ nftOwner[nft] # Ics721
      /\ nextSeq <= MaxPackets /\ nextSeq' = nextSeq + 1
      /\ packets' = packets \cup {pkt}
      /\ nftOwner' = [nftOwner EXCEPT ![nft] = Ics721]
      /\ registry' = [registry EXCEPT ![nft.chain] = @ \cup {nft.class}]
      /\ metadata' = metadata
  BY AddressAssumption DEF SendWithData, SendNft, Escrow
<1>2. /\ classData' = [classData EXCEPT ![nft.chain][nft.class] = new]
      /\ carried' = [carried EXCEPT ![nextSeq] = [class |-> new, token |-> token]]
      /\ sent' = [sent EXCEPT ![nft] = token]
      /\ UNCHANGED <<content, info, stored, edits>>
  BY DEF SendWithData
<1>3. /\ token \in Data /\ token # NotSent /\ new \in Infos /\ new # NoClass
      /\ nft.chain \in Chains /\ nft.class \in ClassIds /\ nft.class.base \in Collections
      /\ Registered(nft) <=> classData[nft.chain][nft.class] # NoClass
      /\ Registered(nft) => new = classData[nft.chain][nft.class]
  BY <1>1, SentIsData DEF ClassOf
<1>4. /\ SourceNft(pkt) = nft /\ pkt.seq = nextSeq /\ pkt.class = nft.class
      /\ ~ AwaitsBurn(pkt)
  BY DEF SourceNft, Nfts, AwaitsBurn
<1>5. \A q \in packets : q.seq < nextSeq /\ q.seq \in 1..MaxPackets /\ q \in Packets
  BY PacketFacts DEF DataInv, PacketsCarrySent
<1>6. \A q \in packets : Binds(q) => SourceNft(q) # nft
  BY <1>1, PacketFacts
<1>7. nextSeq \in 1..MaxPackets /\ nextSeq \in Nat
  BY <1>1, BoundAssumption DEF DataInv, DataTypeOK
<1> HIDE DEF token, new, pkt
<1>8. /\ carried'[nextSeq] = [class |-> new, token |-> token]
      /\ \A q \in packets : carried'[q.seq] = carried[q.seq]
  BY <1>2, <1>5, <1>7 DEF DataInv, DataTypeOK
<1>9. /\ sent'[nft] = token
      /\ \A n \in Nfts : n # nft => sent'[n] = sent[n] /\ nftOwner'[n] = nftOwner[n]
      /\ nftOwner'[nft] = Ics721
  BY <1>1, <1>2 DEF DataInv, DataTypeOK, IInv, TypeOK
<1>10. \A c \in Chains, id \in ClassIds :
         classData'[c][id] = IF c = nft.chain /\ id = nft.class THEN new ELSE classData[c][id]
  BY <1>2, <1>3 DEF DataInv, DataTypeOK
<1>11. \A m \in Nfts :
         Registered(m)' <=> Registered(m) \/ (m.chain = nft.chain /\ m.class = nft.class)
  BY <1>1, <1>3 DEF IInv, TypeOK, Registered, Nfts
<1>12. \A m \in Nfts : Live(m)' => Live(m)
  BY <1>1, <1>4, <1>9 DEF Live
<1>13. DataTypeOK'
  <2>1. classData' \in [Chains -> [ClassIds -> Infos \cup {NoClass}]]
    BY <1>2, <1>3 DEF DataInv, DataTypeOK
  <2>2. carried' \in [1..MaxPackets -> [class: Infos \cup {NoClass}, token: Data]]
    BY <1>2, <1>3, <1>7 DEF DataInv, DataTypeOK
  <2>3. sent' \in [Nfts -> Data \cup {NotSent}]
    BY <1>2, <1>3 DEF DataInv, DataTypeOK
  <2> QED
    BY <1>1, <1>2, <1>7, <2>1, <2>2, <2>3 DEF DataInv, DataTypeOK
<1>14. ClassesDescribed'
  <2>1. ASSUME NEW m \in Nfts
        PROVE  Registered(m)' <=> classData'[m.chain][m.class] # NoClass
    <3>1. /\ Registered(m) <=> classData[m.chain][m.class] # NoClass
          /\ m.chain \in Chains /\ m.class \in ClassIds
      BY DEF DataInv, ClassesDescribed, QueryClassMetadata, Nfts
    <3> QED
      BY <1>3, <1>10, <1>11, <3>1
  <2>2. \A m \in metadata : m \in Nfts /\ Registered(m)
    BY DEF DataInv, ClassesDescribed, IInv, TypeOK
  <2>3. \A m \in Nfts : IsVoucher(m) /\ nftOwner'[m] # NoOne => Registered(m)
    BY <1>1, <1>9 DEF DataInv, ClassesDescribed
  <2> QED
    BY <1>1, <1>11, <2>1, <2>2, <2>3 DEF ClassesDescribed, QueryClassMetadata
<1>15. PacketsCarrySent'
  <2> SUFFICES ASSUME NEW q \in packets'
               PROVE  /\ q.seq \in 1..MaxPackets /\ q.seq < nextSeq'
                      /\ carried'[q.seq].class # NoClass
                      /\ Unresolved(q) => carried'[q.seq].token = sent'[SourceNft(q)]
    BY DEF PacketsCarrySent
  <2>1. CASE q = pkt
    BY <2>1, <1>1, <1>3, <1>4, <1>7, <1>8, <1>9
  <2>2. CASE q \in packets
    <3>1. q.seq < nextSeq'
      BY <2>2, <1>1, <1>5, <1>7
    <3>2. Unresolved(q) => SourceNft(q) # nft /\ SourceNft(q) \in Nfts
      BY <2>2, <1>6, PacketFacts DEF Binds
    <3> QED
      BY <2>2, <1>5, <1>8, <1>9, <3>1, <3>2 DEF DataInv, PacketsCarrySent
  <2> QED
    BY <1>1, <2>1, <2>2
<1>16. DataAsSent'
  <2> SUFFICES ASSUME NEW v \in Nfts, IsVoucher(v), Live(v)'
               PROVE  QueryTokenMetadata(v)' = TokenAnswer(sent'[Origin(v)])
    BY DEF DataAsSent
  <2>1. Live(v) /\ Origin(v) \in Nfts
    BY <1>12, LiveVoucherBacked
  <2>2. Origin(v) # nft
    BY <1>1, <2>1, NoLiveVoucherOf
  <2>3. QueryTokenMetadata(v) = TokenAnswer(sent[Origin(v)])
    BY <2>1 DEF DataInv, DataAsSent
  <2>4. v \in metadata /\ Registered(v) /\ nftOwner[v] # NoOne /\ nftOwner'[v] # NoOne
    BY <2>1 DEF DataInv, ClassesDescribed, IInv, IncomingIsLastHop, Live
  <2>5. QueryTokenMetadata(v)' = TokenAnswer(stored'[v])
    BY <1>1, <1>11, <2>4 DEF QueryTokenMetadata
  <2>6. QueryTokenMetadata(v) = TokenAnswer(stored[v])
    BY <2>4 DEF QueryTokenMetadata
  <2> QED
    BY <1>2, <1>9, <2>1, <2>2, <2>3, <2>5, <2>6
<1>17. SentOnAsReceived'
  <2>1. IsVoucher(nft) => nft \in metadata
    BY <1>1 DEF IInv, IncomingIsLastHop
  <2>2. IsVoucher(nft) /\ stored[nft] # NoData => token = stored[nft]
    BY <2>1 DEF TokenMetadata, token
  <2> QED
    BY <1>2, <1>9, <2>2 DEF DataInv, SentOnAsReceived
<1>18. OnlyHomeUnprefixed'
  BY <1>1, <1>9 DEF DataInv, OnlyHomeUnprefixed
<1>19. OneDescription'
  <2> SUFFICES ASSUME NEW k \in Collections
               PROVE  LET home == classData'[HomeOf[k]][HomeClass(k)]
                      IN  /\ \A c \in Chains, id \in ClassIds :
                               id.base = k => classData'[c][id] \in {NoClass, home}
                          /\ \A q \in packets' :
                               q.class.base = k => carried'[q.seq].class = home
    BY DEF OneDescription
  <2> DEFINE home == classData[HomeOf[k]][HomeClass(k)]
             home1 == classData'[HomeOf[k]][HomeClass(k)]
  <2>1. /\ \A c \in Chains, id \in ClassIds :
             id.base = k => classData[c][id] \in {NoClass, home}
        /\ \A q \in packets : q.class.base = k => carried[q.seq].class = home
        /\ \A q \in packets : carried[q.seq].class # NoClass
    BY DEF DataInv, OneDescription, PacketsCarrySent
  <2>2. HomeOf[k] \in Chains /\ HomeClass(k) \in ClassIds
    BY HomeClassType
  <2>3. CASE nft.class.base # k \/ Registered(nft)
    <3>1. \A c \in Chains, id \in ClassIds : id.base = k => classData'[c][id] = classData[c][id]
      BY <1>3, <1>10, <2>3
    <3>2. home1 = home
      BY <2>2, <3>1 DEF HomeClass
    <3>3. nft.class.base = k => new = home
      BY <1>3, <2>1, <2>3
    <3> HIDE DEF home, home1
    <3>4. \A q \in packets' : q.class.base = k => carried'[q.seq].class = home
      BY <1>1, <1>4, <1>8, <2>1, <3>3
    <3> QED
      BY <2>1, <3>1, <3>2, <3>4 DEF home1
  <2>4. CASE nft.class.base = k /\ ~ Registered(nft)
    <3>1. ~ IsVoucher(nft) /\ AtHome(nft)
      BY <1>1, <2>4 DEF DataInv, ClassesDescribed, OnlyHomeUnprefixed
    <3>2. nft.chain = HomeOf[k] /\ nft.class = HomeClass(k)
      BY <1>3, <2>4, <3>1 DEF AtHome, IsVoucher, HomeClass, ClassIds
    <3>3. home = NoClass /\ home1 = new
      BY <1>3, <1>10, <2>2, <2>4, <3>2
    <3> HIDE DEF home, home1
    <3>4. \A q \in packets : q.class.base # k
      BY <2>1, <3>3
    <3>5. \A q \in packets' : q.class.base = k => carried'[q.seq].class = new
      BY <1>1, <1>4, <1>8, <3>4
    <3> QED
      BY <1>10, <2>1, <3>3, <3>5 DEF home1
  <2> QED
    BY <2>3, <2>4
<1> QED
  BY <1>13, <1>14, <1>15, <1>16, <1>17, <1>18, <1>19 DEF DataInv

-----------------------------------------------------------------------------
\* Creating a voucher writes down what its packet carries.
LEMMA CreateDataInv ==
  ASSUME IInv, DataInv, NEW p \in packets, CreateWithData(p)
  PROVE  DataInv'
<1> DEFINE orig == SourceNft(p)
           nft == LocalNft(p)
           done == [p EXCEPT !.state = "ok"]
           new == carried[p.seq]
<1>1. /\ p \in Packets /\ orig \in Nfts /\ p.state = "sent" /\ Unresolved(p) /\ Binds(p)
      /\ p.receiver \in Accounts /\ p.receiver # NoOne /\ nftOwner[nft] = NoOne
      /\ nftOwner[orig] = Ics721
  BY PacketFacts, AddressAssumption
     DEF CreateWithData, RecvCreate, CreationWorks, ReceiveAllowed, MintWorks, Unresolved,
         Binds, Accounts
<1>2. ~ HasPrefix(p.src, p.class)
  BY <1>1, ReturnIsRedemption DEF CreateWithData, RecvCreate, CreationWorks
<1>3. /\ nft \in Nfts /\ IsVoucher(nft) /\ Origin(nft) = orig /\ orig # nft
      /\ nft.class.base = p.class.base
  BY <1>1, <1>2, ForwardPacket, AddressAssumption DEF IInv, PacketsFit, SameNft, SourceNft
<1>4. /\ nft.chain \in Chains /\ nft.class \in ClassIds
      /\ p.class.base \in Collections /\ p.class \in ClassIds
  BY <1>1, <1>3 DEF Nfts, Packets, ClassIds
<1>5. /\ p.seq \in 1..MaxPackets
      /\ new.token \in Data /\ new.class \in Infos /\ new.class # NoClass
      /\ new.token = sent[orig]
      /\ new.class = classData[HomeOf[p.class.base]][HomeClass(p.class.base)]
  <2>1. /\ p.seq \in 1..MaxPackets /\ new.class # NoClass /\ new.token = sent[orig]
        /\ new.class = classData[HomeOf[p.class.base]][HomeClass(p.class.base)]
    BY <1>1, <1>4 DEF DataInv, PacketsCarrySent, OneDescription
  <2>2. new \in [class: Infos \cup {NoClass}, token: Data]
    BY <2>1 DEF DataInv, DataTypeOK
  <2> QED
    BY <2>1, <2>2
<1>6. /\ done.seq = p.seq /\ done.class = p.class /\ ~ Unresolved(done)
      /\ ~ AwaitsBurn(done) /\ ~ AwaitsBurn(p)
  BY <1>1, <1>2, AckedPacket DEF AwaitsBurn, Unresolved, PacketStates, Packets
<1>7. /\ packets' = (packets \ {p}) \cup {done}
      /\ nftOwner' = [nftOwner EXCEPT ![nft] = p.receiver]
      /\ registry' = [registry EXCEPT ![nft.chain] = @ \cup {nft.class}]
      /\ metadata' = metadata \cup {nft}
      /\ classData' = [classData EXCEPT ![nft.chain][nft.class] = new.class]
      /\ stored' = [stored EXCEPT ![nft] = new.token]
      /\ content' = [content EXCEPT ![nft] = MintedContent(nft.chain, new.token)]
      /\ sent' = [sent EXCEPT ![nft] = NotSent]
      /\ UNCHANGED <<nextSeq, info, carried, edits>>
  BY DEF CreateWithData, RecvCreate, Acknowledge, SavedClass, SavedMetadata
<1>8. \A q \in packets : Binds(q) => SourceNft(q) # nft
  BY <1>1, PacketFacts, AddressAssumption
<1>9. \A v \in Nfts : IsVoucher(v) /\ Live(v) => Origin(v) # nft
  BY <1>1, <1>3, NoLiveVoucherOf, AddressAssumption
<1> HIDE DEF orig, nft, done, new
<1>10. /\ nftOwner'[nft] = p.receiver /\ stored'[nft] = new.token /\ sent'[nft] = NotSent
       /\ \A n \in Nfts : n # nft => /\ nftOwner'[n] = nftOwner[n]
                                    /\ stored'[n] = stored[n] /\ sent'[n] = sent[n]
  BY <1>3, <1>7 DEF DataInv, DataTypeOK, IInv, TypeOK
<1>11. \A c \in Chains, id \in ClassIds :
         classData'[c][id] =
           IF c = nft.chain /\ id = nft.class THEN new.class ELSE classData[c][id]
  BY <1>4, <1>7 DEF DataInv, DataTypeOK
<1>12. \A m \in Nfts :
         Registered(m)' <=> Registered(m) \/ (m.chain = nft.chain /\ m.class = nft.class)
  BY <1>4, <1>7 DEF IInv, TypeOK, Registered, Nfts
<1>13. \A v \in Nfts : Live(v)' /\ v # nft => Live(v)
  BY <1>6, <1>7, <1>10 DEF Live
<1>14. DataTypeOK'
  <2>1. MintedContent(nft.chain, new.token) \in Data
    BY <1>5, DataAssumption DEF MintedContent, SgExtension, Data
  <2>2. classData' \in [Chains -> [ClassIds -> Infos \cup {NoClass}]]
    BY <1>5, <1>7 DEF DataInv, DataTypeOK
  <2>3. /\ stored' \in [Nfts -> Data] /\ content' \in [Nfts -> Data]
        /\ sent' \in [Nfts -> Data \cup {NotSent}]
    BY <1>5, <1>7, <2>1 DEF DataInv, DataTypeOK
  <2> QED
    BY <1>7, <2>2, <2>3 DEF DataInv, DataTypeOK
<1>15. ClassesDescribed'
  <2>1. ASSUME NEW m \in Nfts
        PROVE  Registered(m)' <=> classData'[m.chain][m.class] # NoClass
    <3>1. /\ Registered(m) <=> classData[m.chain][m.class] # NoClass
          /\ m.chain \in Chains /\ m.class \in ClassIds
      BY DEF DataInv, ClassesDescribed, QueryClassMetadata, Nfts
    <3> QED
      BY <1>5, <1>11, <1>12, <3>1
  <2>2. \A m \in metadata : m \in Nfts /\ Registered(m)
    BY DEF DataInv, ClassesDescribed, IInv, TypeOK
  <2>3. \A m \in Nfts : IsVoucher(m) /\ nftOwner'[m] # NoOne => Registered(m) \/ m = nft
    BY <1>10 DEF DataInv, ClassesDescribed
  <2> QED
    BY <1>3, <1>7, <1>12, <2>1, <2>2, <2>3 DEF ClassesDescribed, QueryClassMetadata
<1>16. PacketsCarrySent'
  <2> SUFFICES ASSUME NEW q \in packets'
               PROVE  /\ q.seq \in 1..MaxPackets /\ q.seq < nextSeq'
                      /\ carried'[q.seq].class # NoClass
                      /\ Unresolved(q) => carried'[q.seq].token = sent'[SourceNft(q)]
    BY DEF PacketsCarrySent
  <2>1. CASE q = done
    BY <2>1, <1>5, <1>6, <1>7 DEF new, DataInv, PacketsCarrySent
  <2>2. CASE q \in packets
    <3>1. Unresolved(q) => SourceNft(q) # nft /\ SourceNft(q) \in Nfts
      BY <2>2, <1>8, PacketFacts DEF Binds
    <3> QED
      BY <2>2, <1>7, <1>10, <3>1 DEF DataInv, PacketsCarrySent
  <2> QED
    BY <1>7, <2>1, <2>2
<1>17. DataAsSent'
  <2> SUFFICES ASSUME NEW v \in Nfts, IsVoucher(v), Live(v)'
               PROVE  QueryTokenMetadata(v)' = TokenAnswer(sent'[Origin(v)])
    BY DEF DataAsSent
  <2>1. CASE v = nft
    <3>1. QueryTokenMetadata(v)' = TokenAnswer(stored'[v])
      BY <2>1, <1>1, <1>7, <1>10, <1>12 DEF QueryTokenMetadata
    <3> QED
      BY <2>1, <1>1, <1>3, <1>5, <1>10, <3>1
  <2>2. CASE v # nft
    <3>1. Live(v) /\ Origin(v) \in Nfts /\ Origin(v) # nft
      BY <2>2, <1>9, <1>13, LiveVoucherBacked
    <3>2. QueryTokenMetadata(v) = TokenAnswer(sent[Origin(v)])
      BY <3>1 DEF DataInv, DataAsSent
    <3>3. v \in metadata /\ Registered(v) /\ nftOwner[v] # NoOne
      BY <3>1 DEF DataInv, ClassesDescribed, IInv, IncomingIsLastHop, Live
    <3>4. QueryTokenMetadata(v)' = TokenAnswer(stored'[v])
      BY <2>2, <1>7, <1>10, <1>12, <3>3 DEF QueryTokenMetadata
    <3>5. QueryTokenMetadata(v) = TokenAnswer(stored[v])
      BY <3>3 DEF QueryTokenMetadata
    <3> QED
      BY <2>2, <1>10, <3>1, <3>2, <3>4, <3>5
  <2> QED
    BY <2>1, <2>2
<1>18. SentOnAsReceived'
  BY <1>10 DEF DataInv, SentOnAsReceived
<1>19. OnlyHomeUnprefixed'
  BY <1>3, <1>10 DEF DataInv, OnlyHomeUnprefixed
<1>20. OneDescription'
  <2> SUFFICES ASSUME NEW k \in Collections
               PROVE  LET home == classData'[HomeOf[k]][HomeClass(k)]
                      IN  /\ \A c \in Chains, id \in ClassIds :
                               id.base = k => classData'[c][id] \in {NoClass, home}
                          /\ \A q \in packets' :
                               q.class.base = k => carried'[q.seq].class = home
    BY DEF OneDescription
  <2> DEFINE home == classData[HomeOf[k]][HomeClass(k)]
             home1 == classData'[HomeOf[k]][HomeClass(k)]
  <2>1. /\ \A c \in Chains, id \in ClassIds :
             id.base = k => classData[c][id] \in {NoClass, home}
        /\ \A q \in packets : q.class.base = k => carried[q.seq].class = home
    BY DEF DataInv, OneDescription
  <2>2. home1 = home
    BY <1>3, <1>11, HomeClassType DEF IsVoucher, HomeClass
  <2>3. p.class.base = k => new.class = home
    BY <1>5
  <2> HIDE DEF home, home1
  <2>4. \A c \in Chains, id \in ClassIds : id.base = k => classData'[c][id] \in {NoClass, home}
    BY <1>3, <1>11, <2>1, <2>3
  <2>5. \A q \in packets' : q.class.base = k => carried'[q.seq].class = home
    BY <1>6, <1>7, <2>1
  <2> QED
    BY <2>2, <2>4, <2>5 DEF home1
<1> QED
  BY <1>14, <1>15, <1>16, <1>17, <1>18, <1>19, <1>20 DEF DataInv

-----------------------------------------------------------------------------
\* The other steps make nothing new and send nothing.
LEMMA OtherStepFacts ==
  ASSUME IInv, OtherStep
  PROVE  /\ nextSeq' = nextSeq /\ registry' = registry /\ metadata' \subseteq metadata
         /\ \A n \in Nfts : nftOwner'[n] # NoOne => nftOwner[n] # NoOne
         /\ \A n \in Nfts : Live(n)' => Live(n)
         /\ \A q \in packets' : \E p \in packets :
              /\ p.seq = q.seq /\ p.class = q.class /\ SourceNft(p) = SourceNft(q)
              /\ Unresolved(q) => Unresolved(p)
<1>1. nftOwner \in [Nfts -> Accounts \cup {NoOne}]
  BY DEF IInv, TypeOK
<1>2. ASSUME NEW p \in packets, NEW ack \in PacketStates,
             packets' = (packets \ {p}) \cup {[p EXCEPT !.state = ack]},
             p.state = "sent"
      PROVE  \A q \in packets' : \E r \in packets :
               /\ r.seq = q.seq /\ r.class = q.class /\ SourceNft(r) = SourceNft(q)
               /\ Unresolved(q) => Unresolved(r)
  <2> DEFINE done == [p EXCEPT !.state = ack]
  <2>1. p \in Packets /\ Unresolved(p)
    BY <1>2, PacketFacts DEF Unresolved
  <2>2. done.seq = p.seq /\ done.class = p.class /\ SourceNft(done) = SourceNft(p)
    BY <1>2, <2>1, AckedPacket DEF Packets
  <2> HIDE DEF done
  <2> QED
    BY <1>2, <2>1, <2>2 DEF done
<1>3. ASSUME NEW p \in packets, RecvRedeem(p)
      PROVE  /\ nextSeq' = nextSeq /\ registry' = registry /\ metadata' = metadata
             /\ \A n \in Nfts : nftOwner'[n] # NoOne => nftOwner[n] # NoOne
             /\ \A n \in Nfts : Live(n)' => Live(n)
  <2>1. /\ p \in Packets /\ nftOwner[LocalNft(p)] = Ics721 /\ ~ AwaitsBurn(p)
        /\ LocalNft(p) \in Nfts
    BY <1>3, PacketFacts, BackPacket
       DEF RecvRedeem, RedemptionWorks, ReceiveAllowed, IsRedemption, TransferWorks, AwaitsBurn
  <2>2. \A n \in Nfts : nftOwner'[n] # NoOne => nftOwner[n] # NoOne
    BY <1>1, <1>3, <2>1, AddressAssumption DEF RecvRedeem
  <2>3. \A q \in packets : AwaitsBurn(q) => q \in packets'
    BY <1>3, <2>1 DEF RecvRedeem, Acknowledge
  <2> QED
    BY <1>3, <2>2, <2>3 DEF RecvRedeem, Live
<1>4. ASSUME NEW p \in packets, RecvFail(p) \/ Resolve(p)
      PROVE  /\ nextSeq' = nextSeq /\ registry' = registry /\ metadata' \subseteq metadata
             /\ \A n \in Nfts : nftOwner'[n] # NoOne => nftOwner[n] # NoOne
             /\ \A n \in Nfts : Live(n)' => Live(n)
  <2>1. SourceNft(p) \in Nfts
    BY PacketFacts
  <2>2. \A n \in Nfts : nftOwner'[n] # NoOne => nftOwner[n] # NoOne
    BY <1>1, <1>4, <2>1, AddressAssumption
       DEF RecvFail, Resolve, AckBurn, AckKeep, AckFail, Timeout, HandlePacketFail,
           TransferWorks, ledger
  <2>3. nextSeq' = nextSeq /\ registry' = registry /\ metadata' \subseteq metadata
    BY <1>4 DEF RecvFail, Resolve, AckBurn, AckKeep, AckFail, Timeout, HandlePacketFail, ledger
  <2> QED
    BY <1>4, <2>2, <2>3, ResolveLive
<1>5. ASSUME NEW p \in packets, Resolve(p) PROVE packets' \subseteq packets
  BY <1>5 DEF Resolve, AckBurn, AckKeep, AckFail, Timeout, HandlePacketFail
<1>6. ASSUME NEW nft \in Nfts, NEW to \in Accounts, UserTransfer(nft, to) \/ UserBurn(nft)
      PROVE  /\ nextSeq' = nextSeq /\ registry' = registry /\ metadata' = metadata
             /\ packets' = packets
             /\ \A n \in Nfts : nftOwner'[n] # NoOne => nftOwner[n] # NoOne
             /\ \A n \in Nfts : Live(n)' => Live(n)
  <2>1. \A n \in Nfts : nftOwner'[n] # NoOne => nftOwner[n] # NoOne
    BY <1>1, <1>6, AddressAssumption DEF UserTransfer, UserBurn
  <2> QED
    BY <1>6, <2>1 DEF UserTransfer, UserBurn, Live
<1>7. CASE AdminNext
  <2>1. /\ nextSeq' = nextSeq /\ registry' = registry /\ metadata' \subseteq metadata
        /\ packets' = packets
    BY <1>7 DEF AdminNext, AdminCleanAndBurnNft, AdminCleanAndUnescrowNft, CleanIncoming,
                CleanOutgoing
  <2>2. \A n \in Nfts : nftOwner'[n] # NoOne => nftOwner[n] # NoOne
    BY <1>1, <1>7 DEF AdminNext, AdminCleanAndBurnNft, AdminCleanAndUnescrowNft
  <2> QED
    BY <2>1, <2>2 DEF Live
<1>8. Ics721 \in Accounts
  BY DEF Accounts
<1>9. ASSUME NEW p \in packets, RecvRedeem(p) \/ RecvFail(p)
      PROVE  \A q \in packets' : \E r \in packets :
               /\ r.seq = q.seq /\ r.class = q.class /\ SourceNft(r) = SourceNft(q)
               /\ Unresolved(q) => Unresolved(r)
  BY <1>2, <1>9 DEF RecvRedeem, RecvFail, Acknowledge, RedemptionWorks, ReceiveAllowed,
                    PacketStates
<1>10. CASE \E p \in packets : RecvRedeem(p)
  BY <1>3, <1>9, <1>10
<1>11. CASE \E p \in packets : RecvFail(p)
  BY <1>4, <1>9, <1>11
<1>12. CASE \E p \in packets : Resolve(p)
  BY <1>4, <1>5, <1>12
<1>13. CASE \E nft \in Nfts, to \in Accounts : UserTransfer(nft, to) \/ UserBurn(nft)
  BY <1>6, <1>13
<1>14. CASE AdminNext
  <2>1. packets' = packets
    BY <1>14 DEF AdminNext, AdminCleanAndBurnNft, AdminCleanAndUnescrowNft
  <2> QED
    BY <1>7, <1>14, <2>1
<1> QED
  BY <1>8, <1>10, <1>11, <1>12, <1>13, <1>14 DEF OtherStep

\* They forget what is not needed any more.
LEMMA OtherDataInv ==
  ASSUME IInv, IInv', DataInv, OtherStep, Forget
  PROVE  DataInv'
<1>1. /\ nextSeq' = nextSeq /\ registry' = registry /\ metadata' \subseteq metadata
      /\ \A n \in Nfts : nftOwner'[n] # NoOne => nftOwner[n] # NoOne
      /\ \A n \in Nfts : Live(n)' => Live(n)
      /\ \A q \in packets' : \E p \in packets :
           /\ p.seq = q.seq /\ p.class = q.class /\ SourceNft(p) = SourceNft(q)
           /\ Unresolved(q) => Unresolved(p)
  BY OtherStepFacts
<1>2. /\ stored' = [nft \in Nfts |-> IF nft \in metadata' THEN stored[nft] ELSE NoData]
      /\ content' = [nft \in Nfts |-> IF nftOwner'[nft] = NoOne THEN NoData ELSE content[nft]]
      /\ UNCHANGED <<info, classData, carried, sent, edits>>
  BY DEF Forget
<1>3. \A n \in Nfts : Registered(n)' <=> Registered(n)
  BY <1>1 DEF Registered
<1>4. \A n \in Nfts : stored'[n] \in {stored[n], NoData} /\ (n \in metadata' => stored'[n] = stored[n])
  BY <1>2
<1>5. DataTypeOK'
  BY <1>1, <1>2 DEF DataInv, DataTypeOK, Data
<1>6. ClassesDescribed'
  BY <1>1, <1>2, <1>3 DEF DataInv, ClassesDescribed, QueryClassMetadata, IInv, TypeOK
<1>7. PacketsCarrySent'
  BY <1>1, <1>2 DEF DataInv, PacketsCarrySent
<1>8. DataAsSent'
  <2> SUFFICES ASSUME NEW v \in Nfts, IsVoucher(v), Live(v)'
               PROVE  QueryTokenMetadata(v)' = TokenAnswer(sent'[Origin(v)])
    BY DEF DataAsSent
  <2>1. Live(v) /\ QueryTokenMetadata(v) = TokenAnswer(sent[Origin(v)])
    BY <1>1 DEF DataInv, DataAsSent
  <2>2. v \in metadata /\ Registered(v) /\ nftOwner[v] # NoOne
    BY <2>1 DEF DataInv, ClassesDescribed, IInv, IncomingIsLastHop, Live
  <2>3. v \in metadata' /\ nftOwner'[v] # NoOne
    BY DEF IInv, IncomingIsLastHop, Live
  <2>4. QueryTokenMetadata(v)' = TokenAnswer(stored'[v])
    BY <1>3, <2>2, <2>3 DEF QueryTokenMetadata
  <2>5. QueryTokenMetadata(v) = TokenAnswer(stored[v])
    BY <2>2 DEF QueryTokenMetadata
  <2> QED
    BY <1>2, <1>4, <2>1, <2>3, <2>4, <2>5
<1>9. SentOnAsReceived'
  BY <1>1, <1>2, <1>4 DEF DataInv, SentOnAsReceived
<1>10. OnlyHomeUnprefixed'
  BY <1>1 DEF DataInv, OnlyHomeUnprefixed
<1>11. OneDescription'
  <2> SUFFICES ASSUME NEW k \in Collections
               PROVE  LET home == classData'[HomeOf[k]][HomeClass(k)]
                      IN  /\ \A c \in Chains, id \in ClassIds :
                               id.base = k => classData'[c][id] \in {NoClass, home}
                          /\ \A q \in packets' :
                               q.class.base = k => carried'[q.seq].class = home
    BY DEF OneDescription
  <2> QED
    BY <1>1, <1>2 DEF DataInv, OneDescription
<1> QED
  BY <1>5, <1>6, <1>7, <1>8, <1>9, <1>10, <1>11 DEF DataInv

\* Neither do changes of an NFT or a collection reach what was sent.
LEMMA EditDataInv ==
  ASSUME IInv, DataInv, UNCHANGED <<vars, stored, classData, carried, sent>>,
         content' \in [Nfts -> Data], info' \in [Collections -> Infos], edits' \in Nat
  PROVE  DataInv'
<1>1. /\ UNCHANGED <<nftOwner, metadata, registry, packets, nextSeq>>
      /\ UNCHANGED <<stored, classData, carried, sent>>
  BY DEF vars
<1>2. \A n \in Nfts : (Registered(n)' <=> Registered(n)) /\ (Live(n)' <=> Live(n))
  BY <1>1 DEF Registered, Live
<1>3. DataTypeOK' /\ ClassesDescribed' /\ PacketsCarrySent'
  BY <1>1, <1>2
     DEF DataInv, DataTypeOK, ClassesDescribed, QueryClassMetadata, PacketsCarrySent, IInv, TypeOK
<1>4. DataAsSent'
  <2>1. \A n \in Nfts : QueryTokenMetadata(n)' = QueryTokenMetadata(n)
    BY <1>1, <1>2 DEF QueryTokenMetadata
  <2> QED
    BY <1>1, <1>2, <2>1 DEF DataInv, DataAsSent
<1>5. SentOnAsReceived' /\ OnlyHomeUnprefixed' /\ OneDescription'
  BY <1>1 DEF DataInv, SentOnAsReceived, OnlyHomeUnprefixed, OneDescription
<1> QED
  BY <1>3, <1>4, <1>5 DEF DataInv

-----------------------------------------------------------------------------
\* Nothing was sent, and only home NFTs exist.
LEMMA DataInitInv ==
  ASSUME DataInit
  PROVE  DataInv
<1>1. Init
  BY DEF DataInit
<1>2. PICK extension \in [Collections \X TokenIds -> Data] :
        content = [n \in Nfts |-> IF AtHome(n) THEN extension[<<n.class.base, n.token>>]
                                               ELSE NoData]
  BY DEF DataInit
<1>3. content \in [Nfts -> Data]
  <2>1. \A n \in Nfts : <<n.class.base, n.token>> \in Collections \X TokenIds
    BY DEF Nfts, ClassIds
  <2>2. \A n \in Nfts : extension[<<n.class.base, n.token>>] \in Data
    BY <1>2, <2>1
  <2> QED
    BY <1>2, <2>2 DEF Data
<1>4. /\ info \in [Collections -> Infos] /\ stored \in [Nfts -> Data]
      /\ classData = [c \in Chains |-> [k \in ClassIds |-> NoClass]]
      /\ sent \in [Nfts -> Data \cup {NotSent}] /\ \A n \in Nfts : sent[n] = NotSent
      /\ carried \in [1..MaxPackets -> [class: Infos \cup {NoClass}, token: Data]]
      /\ edits \in Nat
  BY DEF DataInit, Data
<1>5. packets = {} /\ metadata = {} /\ nextSeq = 1 /\ registry = [c \in Chains |-> {}]
  BY <1>1 DEF Init
<1>6. \A n \in Nfts : nftOwner[n] # NoOne => AtHome(n)
  BY <1>1 DEF Init
<1>7. DataTypeOK
  BY <1>3, <1>4, <1>5 DEF DataTypeOK
<1>8. ClassesDescribed
  <2>1. \A n \in Nfts : ~ Registered(n) /\ classData[n.chain][n.class] = NoClass
    BY <1>4, <1>5 DEF Registered, Nfts
  <2> QED
    BY <1>5, <1>6, <2>1 DEF ClassesDescribed, QueryClassMetadata, AtHome
<1>9. PacketsCarrySent
  BY <1>5 DEF PacketsCarrySent
<1>10. DataAsSent
  BY <1>6 DEF DataAsSent, Live, AtHome
<1>11. SentOnAsReceived
  BY <1>6 DEF SentOnAsReceived, AtHome
<1>12. OnlyHomeUnprefixed
  BY <1>6 DEF OnlyHomeUnprefixed
<1>13. OneDescription
  BY <1>4, <1>5, HomeClassType DEF OneDescription
<1> QED
  BY <1>7, <1>8, <1>9, <1>10, <1>11, <1>12, <1>13 DEF DataInv

\* Every step keeps the data right.
LEMMA DataNextInv ==
  ASSUME IInv, IInv', DataInv, [DataNext]_<<vars, data>>
  PROVE  DataInv'
<1>1. ASSUME NEW nft \in Nfts, NEW extension \in Extensions, EditNft(nft, extension)
      PROVE  DataInv'
  <2>1. content' \in [Nfts -> Data] /\ edits' \in Nat /\ info' \in [Collections -> Infos]
    BY <1>1 DEF EditNft, DataInv, DataTypeOK, Data
  <2> QED
    BY <1>1, <2>1, EditDataInv DEF EditNft
<1>2. ASSUME NEW k \in Collections, NEW new \in Infos, EditCollection(k, new)
      PROVE  DataInv'
  <2>1. content' \in [Nfts -> Data] /\ edits' \in Nat /\ info' \in [Collections -> Infos]
    BY <1>2 DEF EditCollection, DataInv, DataTypeOK
  <2> QED
    BY <1>2, <2>1, EditDataInv DEF EditCollection
<1>3. CASE UNCHANGED <<vars, data>>
  <2>1. content' \in [Nfts -> Data] /\ edits' \in Nat /\ info' \in [Collections -> Infos]
        /\ UNCHANGED <<vars, stored, classData, carried, sent>>
    BY <1>3 DEF data, DataInv, DataTypeOK
  <2> QED
    BY <2>1, EditDataInv
<1> QED
  BY <1>1, <1>2, <1>3, SendDataInv, CreateDataInv, OtherDataInv DEF DataNext

\* The data is added to the network and its admins, so their invariant holds.
LEMMA NetworkInv == DataSpec => [](IInv /\ SingleEnd)
<1>1. DataInit => IInv /\ SingleEnd
  BY InitInv, InitEnd DEF DataInit
<1>2. IInv /\ SingleEnd /\ [DataNext]_<<vars, data>> => (IInv /\ SingleEnd)'
  <2>1. IInv /\ SingleEnd /\ [Next]_vars => (IInv /\ SingleEnd)'
    BY NextInv, NextEnd
  <2>2. IInv /\ SingleEnd /\ AdminNext => (IInv /\ SingleEnd)'
    BY CleanAndBurnInv, CleanAndUnescrowInv DEF AdminNext
  <2> QED
    BY <2>1, <2>2, DataStepIsStep
<1> QED
  BY <1>1, <1>2, PTL DEF DataSpec

\* A voucher's data is the data its NFT was sent with, and goes on unchanged; a
\* collection has one description on all chains.
THEOREM DataSafe == DataSpec => []DataInv
<1>1. DataInit => DataInv
  BY DataInitInv
<1>2. IInv /\ IInv' /\ DataInv /\ [DataNext]_<<vars, data>> => DataInv'
  BY DataNextInv
<1> QED
  BY <1>1, <1>2, NetworkInv, PTL DEF DataSpec

\* What a voucher shows is what its NFT left with.
THEOREM VouchersShowWhatWasSent == DataSpec => []DataAsSent
<1>1. DataInv => DataAsSent
  BY DEF DataInv
<1> QED
  BY <1>1, DataSafe, PTL

\* On all chains a collection is described alike, as it was when it was first sent.
THEOREM DescribedAlike == DataSpec => []OneDescription
<1>1. DataInv => OneDescription
  BY DEF DataInv
<1> QED
  BY <1>1, DataSafe, PTL

\* Two vouchers of an NFT, one made from the other, have the same data.
THEOREM DataKeptOverHops == DataSpec => []HopsAgree
<1>1. IInv /\ DataInv => HopsAgree
  <2> SUFFICES ASSUME IInv, DataInv, NEW v \in Nfts, IsVoucher(v), Live(v),
                      IsVoucher(Origin(v)), stored[Origin(v)] # NoData
               PROVE  stored[Origin(v)] = stored[v]
    BY DEF HopsAgree
  <2>1. Origin(v) \in Nfts /\ nftOwner[Origin(v)] # NoOne
    BY LiveVoucherBacked, AddressAssumption DEF Backed
  <2>2. sent[Origin(v)] \in {NotSent, stored[Origin(v)]}
    BY <2>1 DEF DataInv, SentOnAsReceived
  <2>3. v \in metadata /\ Registered(v) /\ nftOwner[v] # NoOne
    BY DEF DataInv, ClassesDescribed, IInv, IncomingIsLastHop, Live
  <2>4. TokenAnswer(stored[v]) = TokenAnswer(sent[Origin(v)])
    BY <2>3 DEF DataInv, DataAsSent, QueryTokenMetadata
  <2>5. stored[v] = sent[Origin(v)] /\ stored[v] # NotSent
    BY <2>4, DataAssumption DEF TokenAnswer, DataInv, DataTypeOK
  <2> QED
    BY <2>2, <2>5
<1> QED
  BY <1>1, DataSafe, NetworkInv, PTL

\* Whoever asks for a voucher that exists is told its owner, its data and its class.
THEOREM QueriesAnswered == DataSpec => []QueriesAnswer
<1>1. IInv /\ DataInv => QueriesAnswer
  <2> SUFFICES ASSUME IInv, DataInv, NEW v \in Nfts, IsVoucher(v), nftOwner[v] # NoOne
               PROVE  /\ QueryOwner(v) = nftOwner[v]
                      /\ QueryTokenMetadata(v) \notin {NoToken, QueryError}
                      /\ QueryClassMetadata(v.chain, v.class) # NoClass
    BY DEF QueriesAnswer
  <2>1. v \in metadata /\ Registered(v)
    BY DEF DataInv, ClassesDescribed, IInv, IncomingIsLastHop
  <2>2. QueryTokenMetadata(v) = TokenAnswer(stored[v])
    BY <2>1 DEF QueryTokenMetadata
  <2>3. TokenAnswer(stored[v]) \in [data: Data]
    BY DEF DataInv, DataTypeOK, TokenAnswer
  <2>4. QueryTokenMetadata(v) \notin {NoToken, QueryError}
    BY <2>2, <2>3, DataAssumption
  <2> QED
    BY <2>1, <2>4 DEF QueryOwner, DataInv, ClassesDescribed
<1> QED
  BY <1>1, DataSafe, NetworkInv, PTL
=============================================================================
