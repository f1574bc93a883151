---------------------------- MODULE BridgeTx_proofs ----------------------------
(***************************************************************************)
(* What holds of a transaction for any number of channels, tokens and      *)
(* messages, and whatever the callback contract does: a packet is received *)
(* as a whole or not at all, and no failing message takes more with it     *)
(* than it should.  The invariant is about the stack of messages: where    *)
(* its replies are, and what they go back to.                              *)
(*                                                                         *)
(* Then the books of the bridge: what its owners, entries, metadata and    *)
(* packets say of each NFT at the end of every transaction, and why no     *)
(* transaction can leave them otherwise.  Within a transaction they are    *)
(* incomplete, but only so far as a message on the stack still makes up    *)
(* for it.  Books says so for a set of messages; without any it is what    *)
(* holds between transactions.                                             *)
(***************************************************************************)
EXTENDS BridgeTx, SequenceTheorems, TLAPS

-----------------------------------------------------------------------------
(* Sequences of messages.                                                  *)

IsSeq(s) == s \in Seq({s[i] : i \in DOMAIN s})

\* Its length and domain.
LEMMA SeqFacts ==
  ASSUME NEW s, IsSeq(s)
  PROVE  /\ Len(s) \in Nat /\ DOMAIN s = 1..Len(s)
         /\ s # <<>> => Len(s) >= 1 /\ Head(s) = s[1]
         /\ s = <<>> => Len(s) = 0
BY LenProperties, EmptySeq DEF IsSeq

\* A sequence over any set is one over its elements.
LEMMA SeqIntro ==
  ASSUME NEW S, NEW s \in Seq(S)
  PROVE  IsSeq(s)
<1>1. /\ Len(s) \in Nat /\ DOMAIN s = 1..Len(s) /\ s \in [1..Len(s) -> S]
  BY LenProperties
<1> DEFINE T == {s[i] : i \in DOMAIN s}
<1>2. \A i \in 1..Len(s) : s[i] \in T
  BY <1>1
<1>3. SubSeq(s, 1, Len(s)) \in Seq(T)
  <2> HIDE DEF T
  <2> QED  BY <1>1, <1>2, SubSeqProperties
<1>4. SubSeq(s, 1, Len(s)) = s
  BY SubSeqFull
<1> QED
  BY <1>3, <1>4 DEF IsSeq

\* What is left without the first message.
LEMMA TailFacts ==
  ASSUME NEW s, IsSeq(s), s # <<>>
  PROVE  /\ IsSeq(Tail(s)) /\ Len(Tail(s)) = Len(s) - 1
         /\ \A i \in 1..(Len(s) - 1) : Tail(s)[i] = s[i + 1]
<1> DEFINE S == {s[i] : i \in DOMAIN s}
<1>1. s \in Seq(S)
  BY DEF IsSeq
<1>2. /\ Tail(s) \in Seq(S) /\ Len(Tail(s)) = Len(s) - 1
      /\ \A i \in 1..Len(Tail(s)) : Tail(s)[i] = s[i + 1]
  BY <1>1, HeadTailProperties
<1> QED
  BY <1>2, SeqIntro

\* Messages in front of others.
LEMMA ConcatFacts ==
  ASSUME NEW s, NEW t, IsSeq(s), IsSeq(t)
  PROVE  /\ IsSeq(s \o t) /\ Len(s \o t) = Len(s) + Len(t)
         /\ \A i \in 1..(Len(s) + Len(t)) :
              (s \o t)[i] = IF i <= Len(s) THEN s[i] ELSE t[i - Len(s)]
<1> DEFINE S == {s[i] : i \in DOMAIN s}
           T == {t[i] : i \in DOMAIN t}
<1>1. s \in Seq(S) /\ t \in Seq(T)
  BY DEF IsSeq
<1>2. s \in Seq(S \cup T) /\ t \in Seq(S \cup T)
  <2>1. S \subseteq S \cup T /\ T \subseteq S \cup T
    OBVIOUS
  <2> QED
    BY <1>1, <2>1, SeqMonotonic
<1>3. /\ s \o t \in Seq(S \cup T) /\ Len(s \o t) = Len(s) + Len(t)
      /\ \A i \in 1..(Len(s) + Len(t)) :
           (s \o t)[i] = IF i <= Len(s) THEN s[i] ELSE t[i - Len(s)]
  BY <1>2, ConcatProperties
<1> QED
  BY <1>3, SeqIntro

\* What comes after a message.
LEMMA SuffixFacts ==
  ASSUME NEW s, IsSeq(s), NEW k \in 1..Len(s)
  PROVE  /\ IsSeq(SubSeq(s, k + 1, Len(s))) /\ Len(SubSeq(s, k + 1, Len(s))) = Len(s) - k
         /\ \A i \in 1..(Len(s) - k) : SubSeq(s, k + 1, Len(s))[i] = s[k + i]
<1> DEFINE S == {s[i] : i \in DOMAIN s}
           t == SubSeq(s, k + 1, Len(s))
<1>1. Len(s) \in Nat /\ DOMAIN s = 1..Len(s)
  BY SeqFacts
<1>2. \A i \in (k + 1)..Len(s) : s[i] \in S
  BY <1>1
<1>3. k + 1 \in Int /\ Len(s) \in Int
  BY <1>1
<1>4. /\ t \in Seq(S)
      /\ Len(t) = IF k + 1 <= Len(s) THEN Len(s) - (k + 1) + 1 ELSE 0
      /\ \A i \in 1..(Len(s) - (k + 1) + 1) : t[i] = s[k + 1 + i - 1]
  <2> HIDE DEF S
  <2> QED  BY <1>2, <1>3, SubSeqProperties
<1>5. IsSeq(t)
  BY <1>4, SeqIntro
<1>6. Len(t) = Len(s) - k
  <2>1. Len(t) = IF k + 1 <= Len(s) THEN Len(s) - (k + 1) + 1 ELSE 0
    BY <1>4
  <2> DEFINE n == Len(s)
             m == Len(t)
  <2>2. n \in Nat /\ k \in 1..n /\ m = IF k + 1 <= n THEN n - (k + 1) + 1 ELSE 0
    BY <1>1, <2>1
  <2> HIDE DEF n, m
  <2>3. m = n - k
    BY <2>2
  <2> QED
    BY <2>3 DEF n, m
<1>7. \A i \in 1..(Len(s) - k) : t[i] = s[k + i]
  BY <1>1, <1>4
<1> QED
  BY <1>5, <1>6, <1>7

-----------------------------------------------------------------------------
(* Types.                                                                  *)

Senders == Users \cup {Hook}
SentPackets == [seq: 1..MaxPackets, nft: Nfts, channel: Channels, sender: Senders,
                callback: BOOLEAN, state: Acks \cup {"sent", "timeout"}]
Results == {"none", "ok", "error", "reverted"}
EntriesOps == {"redeemEntries", "addEntries"}
PacketOps == {"redeem", "create", "mint"} \cup EntriesOps

\* A message that is no conjunction.
BaseOK(m) ==
  /\ m.op = "reply" => m.saved \in Stores
  /\ m.op \in PacketOps => m.packet \in PacketsIn
  /\ m.op \in {"transfer", "mintNft"} => m.nft \in Nfts /\ m.to \in Accounts
  /\ m.op = "burn" => m.nft \in Nfts
  /\ m.op \in {"sendNft", "receiveNft"} =>
       m.nft \in Nfts /\ m.by \in Senders /\ m.channel \in Channels /\ m.callback \in BOOLEAN

\* A conjunction ends with the entries.
OperandsOK(o) ==
  /\ IsSeq(o) /\ Len(o) >= 1
  /\ \A i \in 1..Len(o) :
       BaseOK(o[i]) /\ o[i].op \in {"proxy", "redeem", "create", "callback"} \cup EntriesOps
  /\ o[Len(o)].op \in EntriesOps

MsgOK(m) == BaseOK(m) /\ (m.op = "conjunction" => OperandsOK(m.operands))

TxOK ==
  \/ tx = Idle
  \/ tx \in [kind: {"send"}, before: Stores, result: Results]
  \/ tx \in [kind: {"receive"}, packet: PacketsIn, before: Stores, result: Results]
  \/ tx \in [kind: {"resolve"}, packet: SentPackets, before: Stores, result: Results]

\* The type invariant made inductive.  A stack has one reply at most, or one message
\* that will make one.
TypeInv ==
  /\ store \in Stores /\ remote \subseteq [nft: Nfts, channel: Channels]
  /\ IsSeq(stack) /\ \A i \in 1..Len(stack) : MsgOK(stack[i])
  /\ \A i, j \in 1..Len(stack) :
       stack[i].op \in {"reply", "ackCallback"} /\ stack[j].op \in {"reply", "ackCallback"}
         => i = j
  /\ TxOK /\ (NoTx => stack = <<>>)

\* It is one.
LEMMA TypeInvTypes == TypeInv => TypeOK
BY DEF TypeInv, TypeOK, TxOK, NoTx, Results

-----------------------------------------------------------------------------
(* What executing a message amounts to.                                    *)

\* The message is replaced by msgs: callbacks and replies come from conjunctions and
\* acknowledgement callbacks only.
Effect(msg, new, msgs) ==
  /\ new \in Stores
  /\ IsSeq(msgs) /\ \A i \in 1..Len(msgs) : MsgOK(msgs[i])
  /\ msg.op = "conjunction" => new = store /\ msgs = msg.operands
  /\ msg.op = "ackCallback" => new = store /\ msgs = <<Callback, Reply("callback")>>
  /\ msg.op \notin {"conjunction", "ackCallback"} =>
       \A i \in 1..Len(msgs) :
         msgs[i].op \notin {"conjunction", "ackCallback", "callback", "reply"}
  /\ msg.op \in EntriesOps => msgs = <<>> /\ new.po = store.po

\* No message.
LEMMA NoMsgs == IsSeq(<<>>) /\ \A i \in 1..Len(<<>>) : FALSE
BY EmptySeq DEF IsSeq

\* One message.
LEMMA OneMsg ==
  ASSUME NEW m
  PROVE  IsSeq(<<m>>) /\ Len(<<m>>) = 1 /\ <<m>>[1] = m
<1>1. <<m>> \in Seq({m})
  OBVIOUS
<1> QED
  BY <1>1, SeqIntro

\* Two messages.
LEMMA TwoMsgs ==
  ASSUME NEW m, NEW n
  PROVE  IsSeq(<<m, n>>) /\ Len(<<m, n>>) = 2 /\ <<m, n>>[1] = m /\ <<m, n>>[2] = n
<1>1. <<m, n>> \in Seq({m, n})
  OBVIOUS
<1> QED
  BY <1>1, SeqIntro

\* The tokens of a packet.
LEMMA PacketTokens ==
  ASSUME NEW packet \in PacketsIn
  PROVE  /\ packet.tokens \in Seq(Tokens) /\ packet.class \in Classes
         /\ packet.channel \in Channels /\ packet.receiver \in Accounts
         /\ Len(packet.tokens) \in Nat /\ DOMAIN packet.tokens = 1..Len(packet.tokens)
         /\ \A i \in DOMAIN packet.tokens : NftOf(packet, i) \in Nfts
<1>1. packet.tokens \in {<<t>> : t \in Tokens} \cup {<<t, u>> : t, u \in Tokens}
  BY DEF PacketsIn
<1>2. packet.tokens \in Seq(Tokens)
  <2>1. ASSUME NEW t \in Tokens, packet.tokens = <<t>>
        PROVE  packet.tokens \in Seq(Tokens)
    BY <2>1
  <2>2. ASSUME NEW t \in Tokens, NEW u \in Tokens, packet.tokens = <<t, u>>
        PROVE  packet.tokens \in Seq(Tokens)
    BY <2>2
  <2> QED
    BY <1>1, <2>1, <2>2
<1>3. /\ Len(packet.tokens) \in Nat /\ DOMAIN packet.tokens = 1..Len(packet.tokens)
      /\ packet.tokens \in [1..Len(packet.tokens) -> Tokens]
  BY <1>2, LenProperties
<1>4. /\ packet.class \in Classes /\ packet.channel \in Channels
      /\ packet.receiver \in Accounts
  BY DEF PacketsIn, Accounts
<1> QED
  BY <1>2, <1>3, <1>4 DEF NftOf, Nfts

\* One transfer for every token.
LEMMA TransferAllOK ==
  ASSUME NEW packet \in PacketsIn
  PROVE  /\ IsSeq(TransferAll(packet))
         /\ \A i \in 1..Len(TransferAll(packet)) :
              MsgOK(TransferAll(packet)[i]) /\ TransferAll(packet)[i].op = "transfer"
<1> DEFINE n == Len(packet.tokens)
           S == [op: {"transfer"}, nft: Nfts, to: Accounts]
<1>1. n \in Nat /\ DOMAIN packet.tokens = 1..n
  BY PacketTokens
<1>2. \A i \in 1..n : TransferNft(NftOf(packet, i), packet.receiver) \in S
  BY <1>1, PacketTokens DEF TransferNft
<1>3. TransferAll(packet) = [i \in 1..n |-> TransferNft(NftOf(packet, i), packet.receiver)]
  BY <1>1 DEF TransferAll
<1>4. TransferAll(packet) \in Seq(S)
  <2> HIDE DEF n, S
  <2> QED  BY <1>1, <1>2, <1>3
<1>5. \A i \in 1..Len(TransferAll(packet)) : TransferAll(packet)[i] \in S
  BY <1>4, ElementOfSeq
<1> QED
  BY <1>4, <1>5, SeqIntro DEF MsgOK, BaseOK, PacketOps, EntriesOps

\* One mint for every token.
LEMMA MintAllOK ==
  ASSUME NEW packet \in PacketsIn
  PROVE  /\ IsSeq(MintAll(packet))
         /\ \A i \in 1..Len(MintAll(packet)) :
              MsgOK(MintAll(packet)[i]) /\ MintAll(packet)[i].op = "mintNft"
<1> DEFINE n == Len(packet.tokens)
           S == [op: {"mintNft"}, nft: Nfts, to: Accounts]
<1>1. n \in Nat /\ DOMAIN packet.tokens = 1..n
  BY PacketTokens
<1>2. \A i \in 1..n : MintNft(NftOf(packet, i), packet.receiver) \in S
  BY <1>1, PacketTokens DEF MintNft
<1>3. MintAll(packet) = [i \in 1..n |-> MintNft(NftOf(packet, i), packet.receiver)]
  BY <1>1 DEF MintAll
<1>4. MintAll(packet) \in Seq(S)
  <2> HIDE DEF n, S
  <2> QED  BY <1>1, <1>2, <1>3
<1>5. \A i \in 1..Len(MintAll(packet)) : MintAll(packet)[i] \in S
  BY <1>4, ElementOfSeq
<1> QED
  BY <1>4, <1>5, SeqIntro DEF MsgOK, BaseOK, PacketOps, EntriesOps

\* An NFT gets another owner.
LEMMA OwnerTypes ==
  ASSUME store \in Stores, NEW nft \in Nfts, NEW who \in Accounts \cup {NoOne}
  PROVE  [store EXCEPT !.owner[nft] = who] \in Stores
BY DEF Stores

\* And the bridge knows of it, perhaps.
LEMMA HandedTypes ==
  ASSUME store \in Stores, NEW nft \in Nfts, NEW to \in Accounts, NEW named
  PROVE  HandedTo(nft, to, named) \in Stores
<1>1. [store.owner EXCEPT ![nft] = to] \in [Nfts -> Accounts \cup {NoOne}]
  BY DEF Stores
<1>2. (IF named /\ to = Ics721 THEN store.given \cup {nft} ELSE store.given) \in SUBSET Nfts
  BY DEF Stores
<1> QED
  BY <1>1, <1>2 DEF HandedTo, Stores

\* Entries are set for some NFTs.
LEMMA SetAllTypes ==
  ASSUME store \in Stores, NEW nfts, NEW channel \in Channels \cup {NoChannel}
  PROVE  /\ [store EXCEPT !.outgoing = SetAll(@, nfts, channel)] \in Stores
         /\ [store EXCEPT !.outgoing = SetAll(@, nfts, channel)].po = store.po
         /\ [store EXCEPT !.incoming = SetAll(@, nfts, channel)] \in Stores
         /\ [store EXCEPT !.incoming = SetAll(@, nfts, channel)].po = store.po
<1>1. SetAll(store.outgoing, nfts, channel) \in [Nfts -> Channels \cup {NoChannel}]
  BY DEF SetAll, Stores
<1>2. SetAll(store.incoming, nfts, channel) \in [Nfts -> Channels \cup {NoChannel}]
  BY DEF SetAll, Stores
<1> QED
  BY <1>1, <1>2 DEF Stores

\* The messages of the bridge itself.
LEMMA BridgeEffect ==
  ASSUME store \in Stores, NEW msg, MsgOK(msg), Works(msg),
         \/ ExecConjunction(msg) \/ ExecRedeem(msg) \/ ExecCreate(msg) \/ ExecMint(msg)
         \/ ExecRedeemEntries(msg) \/ ExecAddEntries(msg) \/ ExecReceiveNft(msg)
         \/ ExecPause(msg) \/ ExecAckCallback(msg)
  PROVE  \E new, msgs : Done(new, msgs) /\ Effect(msg, new, msgs)
<1>1. CASE ExecConjunction(msg)
  <2>1. Effect(msg, store, msg.operands)
    BY <1>1 DEF ExecConjunction, Effect, MsgOK, OperandsOK, EntriesOps, BaseOK
  <2> QED
    BY <1>1, <2>1 DEF ExecConjunction
<1>2. CASE ExecRedeem(msg)
  <2>1. msg.op = "redeem" /\ msg.packet \in PacketsIn
    BY <1>2 DEF ExecRedeem, MsgOK, BaseOK, PacketOps
  <2>2. Effect(msg, store, TransferAll(msg.packet))
    BY <2>1, TransferAllOK DEF Effect, EntriesOps
  <2> QED
    BY <1>2, <2>2 DEF ExecRedeem
<1>3. CASE ExecCreate(msg)
  <2> DEFINE class == msg.packet.class
             new == [store EXCEPT !.registry = @ \cup {class}]
             front == IF class \in store.registry THEN <<>> ELSE <<Instantiate(class)>>
             msgs == front \o <<Mint(msg.packet)>>
  <2>1. msg.op = "create" /\ msg.packet \in PacketsIn
    BY <1>3 DEF ExecCreate, MsgOK, BaseOK, PacketOps
  <2>2. new \in Stores
    BY <2>1, PacketTokens DEF Stores
  <2>3. IsSeq(front) /\ \A i \in 1..Len(front) : MsgOK(front[i]) /\ front[i].op = "instantiate"
    <3>1. MsgOK(Instantiate(class)) /\ Instantiate(class).op = "instantiate"
      BY DEF Instantiate, MsgOK, BaseOK, PacketOps, EntriesOps
    <3> QED
      BY <3>1, NoMsgs, OneMsg
  <2>4. MsgOK(Mint(msg.packet)) /\ Mint(msg.packet).op = "mint"
    BY <2>1 DEF Mint, MsgOK, BaseOK, PacketOps, EntriesOps
  <2>5. IsSeq(<<Mint(msg.packet)>>) /\ Len(<<Mint(msg.packet)>>) = 1
        /\ <<Mint(msg.packet)>>[1] = Mint(msg.packet)
    BY OneMsg
  <2>6. /\ IsSeq(msgs) /\ Len(msgs) = Len(front) + 1
        /\ \A i \in 1..(Len(front) + 1) :
             msgs[i] = IF i <= Len(front) THEN front[i] ELSE <<Mint(msg.packet)>>[i - Len(front)]
    <3> HIDE DEF front
    <3> QED  BY <2>3, <2>5, ConcatFacts
  <2>7. \A i \in 1..Len(msgs) : MsgOK(msgs[i]) /\ msgs[i].op \in {"instantiate", "mint"}
    <3> SUFFICES ASSUME NEW i \in 1..Len(msgs)
                 PROVE  MsgOK(msgs[i]) /\ msgs[i].op \in {"instantiate", "mint"}
      OBVIOUS
    <3>1. Len(front) \in Nat
      BY <2>3, SeqFacts
    <3> HIDE DEF front, msgs
    <3>2. CASE i <= Len(front)
      BY <2>3, <2>6, <3>1, <3>2
    <3>3. CASE i = Len(front) + 1
      BY <2>4, <2>5, <2>6, <3>1, <3>3
    <3> QED
      BY <2>6, <3>1, <3>2, <3>3
  <2>8. Effect(msg, new, msgs)
    <3> HIDE DEF msgs, new
    <3> QED  BY <2>1, <2>2, <2>6, <2>7 DEF Effect, EntriesOps
  <2>9. Done(new, msgs)
    BY <1>3 DEF ExecCreate
  <2> QED
    BY <2>8, <2>9
<1>4. CASE ExecMint(msg)
  <2> DEFINE new == [store EXCEPT !.metadata = @ \cup PacketNfts(msg.packet)]
  <2>1. msg.op = "mint" /\ msg.packet \in PacketsIn
    BY <1>4 DEF ExecMint, MsgOK, BaseOK, PacketOps
  <2>2. PacketNfts(msg.packet) \subseteq Nfts
    BY <2>1, PacketTokens DEF PacketNfts
  <2>3. new \in Stores
    BY <2>2 DEF Stores
  <2>4. Effect(msg, new, MintAll(msg.packet))
    BY <2>1, <2>3, MintAllOK DEF Effect, EntriesOps
  <2> QED
    BY <1>4, <2>4 DEF ExecMint
<1>5. CASE ExecRedeemEntries(msg)
  <2> DEFINE new == [store EXCEPT !.outgoing = SetAll(@, PacketNfts(msg.packet), NoChannel)]
  <2>1. new \in Stores /\ new.po = store.po
    BY SetAllTypes
  <2>2. Effect(msg, new, <<>>)
    <3> HIDE DEF new
    <3> QED  BY <1>5, <2>1, NoMsgs DEF ExecRedeemEntries, Effect
  <2> QED
    BY <1>5, <2>2 DEF ExecRedeemEntries
<1>6. CASE ExecAddEntries(msg)
  <2> DEFINE new == [store EXCEPT !.incoming =
                       SetAll(@, PacketNfts(msg.packet), msg.packet.channel)]
  <2>1. msg.packet \in PacketsIn
    BY <1>6 DEF ExecAddEntries, MsgOK, BaseOK, PacketOps, EntriesOps
  <2>2. new \in Stores /\ new.po = store.po
    BY <2>1, PacketTokens, SetAllTypes
  <2>3. Effect(msg, new, <<>>)
    <3> HIDE DEF new
    <3> QED  BY <1>6, <2>2, NoMsgs DEF ExecAddEntries, Effect
  <2> QED
    BY <1>6, <2>3 DEF ExecAddEntries
<1>7. CASE ExecReceiveNft(msg)
  <2> DEFINE p == [seq |-> store.nextSeq, nft |-> msg.nft, channel |-> msg.channel,
                   sender |-> msg.by, callback |-> msg.callback, state |-> "sent"]
             new == [store EXCEPT !.registry = @ \cup {msg.nft.class},
                                  !.outgoing[msg.nft] = msg.channel,
                                  !.packets = @ \cup {p}, !.nextSeq = @ + 1]
  <2>1. /\ msg.op = "receiveNft" /\ msg.nft \in Nfts /\ msg.by \in Senders
        /\ msg.channel \in Channels /\ msg.callback \in BOOLEAN
    BY <1>7 DEF ExecReceiveNft, MsgOK, BaseOK
  <2>2. store.nextSeq <= MaxPackets
    BY <2>1 DEF Works
  <2>3. p \in SentPackets
    BY <2>1, <2>2, BoundAssumption DEF SentPackets, Stores
  <2>4. msg.nft.class \in Classes
    BY <2>1 DEF Nfts
  <2>5. new \in Stores
    <3>1. store.packets \cup {p} \in SUBSET SentPackets
      BY <2>3 DEF Stores, SentPackets, Senders
    <3>2. store.nextSeq + 1 \in 1..(MaxPackets + 1)
      BY <2>2, BoundAssumption DEF Stores
    <3>3. /\ [store.outgoing EXCEPT ![msg.nft] = msg.channel]
               \in [Nfts -> Channels \cup {NoChannel}]
          /\ store.registry \cup {msg.nft.class} \in SUBSET Classes
      BY <2>1, <2>4 DEF Stores
    <3> HIDE DEF p
    <3> QED  BY <3>1, <3>2, <3>3 DEF Stores, SentPackets, Senders
  <2>6. Effect(msg, new, <<>>)
    <3> HIDE DEF new
    <3> QED  BY <2>1, <2>5, NoMsgs DEF Effect, EntriesOps
  <2> QED
    BY <1>7, <2>6 DEF ExecReceiveNft
<1>8. CASE ExecPause(msg)
  <2>1. [store EXCEPT !.po = PausedPolicy] \in Stores
    BY DEF Stores, PausedPolicy, PauseOrchestrator
  <2>2. Effect(msg, [store EXCEPT !.po = PausedPolicy], <<>>)
    BY <1>8, <2>1, NoMsgs DEF ExecPause, Effect, EntriesOps
  <2> QED
    BY <1>8, <2>2 DEF ExecPause
<1>9. CASE ExecAckCallback(msg)
  <2>1. MsgOK(Callback) /\ MsgOK(Reply("callback"))
    BY DEF Callback, Reply, MsgOK, BaseOK, PacketOps, EntriesOps
  <2>2. Effect(msg, store, <<Callback, Reply("callback")>>)
    BY <1>9, <2>1, TwoMsgs DEF ExecAckCallback, Effect, EntriesOps
  <2> QED
    BY <1>9, <2>2 DEF ExecAckCallback
<1> QED
  BY <1>1, <1>2, <1>3, <1>4, <1>5, <1>6, <1>7, <1>8, <1>9

\* The messages of foreign contracts.
LEMMA ForeignEffect ==
  ASSUME store \in Stores, NEW msg, MsgOK(msg), Works(msg),
         ExecCollection(msg) \/ ExecProxy(msg) \/ ExecCallback(msg)
  PROVE  \/ msg.op = "proxy" /\ Failed
         \/ \E new, msgs : Done(new, msgs) /\ Effect(msg, new, msgs)
<1>0. Ics721 \in Accounts /\ Users \subseteq Accounts
  BY DEF Accounts
<1>1. CASE ExecCollection(msg)
  <2>1. CASE msg.op = "instantiate" /\ Done(store, <<>>)
    <3>1. Effect(msg, store, <<>>)
      BY <2>1, NoMsgs DEF Effect, EntriesOps
    <3> QED
      BY <2>1, <3>1
  <2>2. CASE /\ msg.op \in {"transfer", "mintNft"}
             /\ Done(HandedTo(msg.nft, msg.to, tx.kind = "receive"), <<>>)
    <3> DEFINE new == HandedTo(msg.nft, msg.to, tx.kind = "receive")
    <3>1. msg.nft \in Nfts /\ msg.to \in Accounts
      BY <2>2 DEF MsgOK, BaseOK
    <3>2. new \in Stores
      BY <3>1, HandedTypes
    <3>3. Effect(msg, new, <<>>)
      <4> HIDE DEF new
      <4> QED  BY <2>2, <3>2, NoMsgs DEF Effect, EntriesOps
    <3> QED
      BY <2>2, <3>3
  <2>3. CASE msg.op = "burn" /\ Done([store EXCEPT !.owner[msg.nft] = NoOne], <<>>)
    <3>1. msg.nft \in Nfts
      BY <2>3 DEF MsgOK, BaseOK
    <3>2. [store EXCEPT !.owner[msg.nft] = NoOne] \in Stores
      BY <3>1, OwnerTypes
    <3>3. Effect(msg, [store EXCEPT !.owner[msg.nft] = NoOne], <<>>)
      BY <2>3, <3>2, NoMsgs DEF Effect, EntriesOps
    <3> QED
      BY <2>3, <3>3
  <2>4. CASE /\ msg.op = "sendNft"
             /\ Done([store EXCEPT !.owner[msg.nft] = Ics721], <<ReceiveNft(msg)>>)
    <3>1. msg.nft \in Nfts
      BY <2>4 DEF MsgOK, BaseOK
    <3>2. [store EXCEPT !.owner[msg.nft] = Ics721] \in Stores
      BY <1>0, <3>1, OwnerTypes
    <3>3. MsgOK(ReceiveNft(msg)) /\ ReceiveNft(msg).op = "receiveNft"
      BY <2>4 DEF ReceiveNft, MsgOK, BaseOK, PacketOps, EntriesOps
    <3>4. Effect(msg, [store EXCEPT !.owner[msg.nft] = Ics721], <<ReceiveNft(msg)>>)
      BY <2>4, <3>2, <3>3, OneMsg DEF Effect, EntriesOps
    <3> QED
      BY <2>4, <3>4
  <2> QED
    BY <1>1, <2>1, <2>2, <2>3, <2>4 DEF ExecCollection
<1>2. CASE ExecProxy(msg)
  <2>1. Effect(msg, store, <<>>)
    BY <1>2, NoMsgs DEF ExecProxy, Effect, EntriesOps
  <2> QED
    BY <1>2, <2>1 DEF ExecProxy
<1>3. CASE ExecCallback(msg)
  <2>0. msg.op = "callback"
    BY <1>3 DEF ExecCallback
  <2>1. CASE Done(store, <<>>)
    <3>1. Effect(msg, store, <<>>)
      BY <2>0, NoMsgs DEF Effect, EntriesOps
    <3> QED
      BY <2>1, <3>1
  <2>2. ASSUME NEW nft \in Nfts, NEW to \in Accounts, Done(HandedTo(nft, to, TRUE), <<>>)
        PROVE  \E new, msgs : Done(new, msgs) /\ Effect(msg, new, msgs)
    <3>1. HandedTo(nft, to, TRUE) \in Stores
      BY HandedTypes
    <3>2. Effect(msg, HandedTo(nft, to, TRUE), <<>>)
      BY <2>0, <3>1, NoMsgs DEF Effect, EntriesOps
    <3> QED
      BY <2>2, <3>2
  <2>5. ASSUME NEW nft \in Nfts, Done([store EXCEPT !.owner[nft] = NoOne], <<>>)
        PROVE  \E new, msgs : Done(new, msgs) /\ Effect(msg, new, msgs)
    <3>1. [store EXCEPT !.owner[nft] = NoOne] \in Stores
      BY OwnerTypes
    <3>2. Effect(msg, [store EXCEPT !.owner[nft] = NoOne], <<>>)
      BY <2>0, <3>1, NoMsgs DEF Effect, EntriesOps
    <3> QED
      BY <2>5, <3>2
  <2>3. ASSUME NEW nft \in Nfts, NEW channel \in Channels,
               Done(store, <<SendNft(nft, Hook, Via, channel, FALSE)>>)
        PROVE  \E new, msgs : Done(new, msgs) /\ Effect(msg, new, msgs)
    <3> DEFINE send == SendNft(nft, Hook, Via, channel, FALSE)
    <3>1. MsgOK(send) /\ send.op = "sendNft"
      BY DEF SendNft, MsgOK, BaseOK, PacketOps, EntriesOps, Senders
    <3>2. Effect(msg, store, <<send>>)
      <4> HIDE DEF send
      <4> QED  BY <2>0, <3>1, OneMsg DEF Effect, EntriesOps
    <3> QED
      BY <2>3, <3>2
  <2>4. CASE Done(store, <<PauseBridge>>)
    <3>1. MsgOK(PauseBridge) /\ PauseBridge.op = "pause"
      BY DEF PauseBridge, MsgOK, BaseOK, PacketOps, EntriesOps
    <3>2. Effect(msg, store, <<PauseBridge>>)
      BY <2>0, <3>1, OneMsg DEF Effect, EntriesOps
    <3> QED
      BY <2>4, <3>2
  <2> QED
    BY <1>3, <2>1, <2>2, <2>3, <2>4, <2>5 DEF ExecCallback
<1> QED
  BY <1>1, <1>2, <1>3

-----------------------------------------------------------------------------
(* The steps of a transaction keep the types.                              *)

\* The stack after a message is replaced.
LEMMA NewStack ==
  ASSUME TypeInv, stack # <<>>, NEW new, NEW msgs, IsSeq(msgs), Done(new, msgs)
  PROVE  /\ Len(msgs) \in Nat /\ Len(stack) \in Nat /\ Len(stack) >= 1
         /\ Head(stack) = stack[1]
         /\ IsSeq(stack') /\ Len(stack') = Len(msgs) + Len(stack) - 1
         /\ \A i \in 1..Len(stack') :
              stack'[i] = IF i <= Len(msgs) THEN msgs[i] ELSE stack[i - Len(msgs) + 1]
<1>1. IsSeq(stack)
  BY DEF TypeInv
<1>2. /\ Len(msgs) \in Nat /\ Len(stack) \in Nat /\ Len(stack) >= 1 /\ Head(stack) = stack[1]
  BY <1>1, SeqFacts
<1>3. /\ IsSeq(Tail(stack)) /\ Len(Tail(stack)) = Len(stack) - 1
      /\ \A i \in 1..(Len(stack) - 1) : Tail(stack)[i] = stack[i + 1]
  BY <1>1, TailFacts
<1>4. stack' = msgs \o Tail(stack)
  BY DEF Done
<1>5. /\ IsSeq(stack') /\ Len(stack') = Len(msgs) + (Len(stack) - 1)
      /\ \A i \in 1..(Len(msgs) + (Len(stack) - 1)) :
           stack'[i] = IF i <= Len(msgs) THEN msgs[i] ELSE Tail(stack)[i - Len(msgs)]
  BY <1>3, <1>4, ConcatFacts
<1>6. ASSUME NEW i \in 1..Len(stack')
      PROVE  stack'[i] = IF i <= Len(msgs) THEN msgs[i] ELSE stack[i - Len(msgs) + 1]
  BY <1>2, <1>3, <1>5
<1> QED
  BY <1>2, <1>5, <1>6

\* A message that works.
LEMMA DoneTypes ==
  ASSUME TypeInv, stack # <<>>, NEW new, NEW msgs,
         Effect(Head(stack), new, msgs), Done(new, msgs)
  PROVE  TypeInv'
<1> DEFINE k == Len(msgs)
           Marks(m) == m.op \in {"reply", "ackCallback"}
<1>1. /\ new \in Stores /\ IsSeq(msgs) /\ \A i \in 1..k : MsgOK(msgs[i])
  BY DEF Effect
<1>2. /\ k \in Nat /\ Len(stack) \in Nat /\ Len(stack) >= 1 /\ Head(stack) = stack[1]
      /\ IsSeq(stack') /\ Len(stack') = k + Len(stack) - 1
      /\ \A i \in 1..Len(stack') : stack'[i] = IF i <= k THEN msgs[i] ELSE stack[i - k + 1]
  BY <1>1, NewStack
<1>3. ASSUME NEW i \in 1..Len(stack')
      PROVE  MsgOK(stack'[i])
  <2>1. CASE i <= k
    BY <1>1, <1>2, <2>1
  <2>2. CASE i > k
    <3>1. i - k + 1 \in 1..Len(stack)
      BY <1>2, <2>2
    <3> QED
      BY <1>2, <2>2, <3>1 DEF TypeInv
  <2> QED
    BY <1>2, <2>1, <2>2
<1>4. ASSUME NEW i \in 1..k, NEW j \in 1..k, Marks(msgs[i]), Marks(msgs[j])
      PROVE  i = j /\ Marks(stack[1])
  <2>1. CASE stack[1].op = "conjunction"
    <3>1. msgs = stack[1].operands /\ OperandsOK(stack[1].operands)
      BY <1>2, <2>1 DEF Effect, TypeInv, MsgOK
    <3> QED
      BY <1>4, <3>1 DEF OperandsOK, EntriesOps
  <2>2. CASE stack[1].op = "ackCallback"
    <3>1. msgs = <<Callback, Reply("callback")>>
      BY <1>2, <2>2 DEF Effect
    <3>2. k = 2 /\ msgs[1] = Callback
      BY <3>1, TwoMsgs
    <3>3. i = 2 /\ j = 2
      BY <1>4, <3>2 DEF Callback
    <3> QED
      BY <2>2, <3>3
  <2>3. CASE stack[1].op \notin {"conjunction", "ackCallback"}
    BY <1>2, <1>4, <2>3 DEF Effect
  <2> QED
    BY <2>1, <2>2, <2>3
<1>5. ASSUME NEW i \in 1..Len(stack'), NEW j \in 1..Len(stack'),
             Marks(stack'[i]), Marks(stack'[j])
      PROVE  i = j
  <2> HIDE DEF Marks
  <2>0. ASSUME NEW h \in 1..Len(stack), NEW g \in 1..Len(stack), Marks(stack[h]), Marks(stack[g])
        PROVE  h = g
    BY <2>0 DEF Marks, TypeInv
  <2>1. CASE i <= k /\ j <= k
    BY <1>2, <1>4, <1>5, <2>1
  <2>2. CASE i <= k /\ j > k
    <3>1. j - k + 1 \in 1..Len(stack) /\ j - k + 1 # 1 /\ Marks(stack[j - k + 1])
      BY <1>2, <1>5, <2>2
    <3>2. Marks(stack[1])
      BY <1>2, <1>4, <1>5, <2>2
    <3> QED
      BY <1>2, <2>0, <3>1, <3>2
  <2>3. CASE i > k /\ j <= k
    <3>1. i - k + 1 \in 1..Len(stack) /\ i - k + 1 # 1 /\ Marks(stack[i - k + 1])
      BY <1>2, <1>5, <2>3
    <3>2. Marks(stack[1])
      BY <1>2, <1>4, <1>5, <2>3
    <3> QED
      BY <1>2, <2>0, <3>1, <3>2
  <2>4. CASE i > k /\ j > k
    <3>1. /\ i - k + 1 \in 1..Len(stack) /\ Marks(stack[i - k + 1])
          /\ j - k + 1 \in 1..Len(stack) /\ Marks(stack[j - k + 1])
      BY <1>2, <1>5, <2>4
    <3>2. i - k + 1 = j - k + 1
      BY <2>0, <3>1
    <3> QED
      BY <1>2, <3>2
  <2> QED
    BY <1>2, <2>1, <2>2, <2>3, <2>4
<1>6. TxOK' /\ ~ NoTx'
  BY DEF Done, TypeInv, TxOK, NoTx
<1> QED
  BY <1>1, <1>2, <1>3, <1>5, <1>6 DEF Done, TypeInv

\* The transaction gets a result.
LEMMA TxResult ==
  ASSUME TxOK, ~ NoTx, NEW r \in Results, tx' = [tx EXCEPT !.result = r]
  PROVE  /\ TxOK' /\ ~ NoTx' /\ tx'.result = r /\ tx'.kind = tx.kind
         /\ tx'.before = tx.before
BY DEF TxOK, NoTx, Idle

\* What a failing message leaves: nothing, or what comes after the one reply.
LEMMA FailedFacts ==
  ASSUME TypeInv, Failed
  PROVE  /\ remote' = remote
         /\ \/ /\ \A i \in 1..Len(stack) : stack[i].op # "reply"
               /\ store' = tx.before /\ stack' = <<>>
               /\ tx' = [tx EXCEPT !.result = "reverted"]
            \/ \E r \in 1..Len(stack) :
                 /\ stack[r].op = "reply" /\ store' = stack[r].saved
                 /\ IsSeq(stack') /\ Len(stack') = Len(stack) - r
                 /\ \A i \in 1..(Len(stack) - r) : stack'[i] = stack[r + i]
                 /\ tx' = IF stack[r].id = "ack" THEN [tx EXCEPT !.result = "error"] ELSE tx
<1>1. IsSeq(stack) /\ Len(stack) \in Nat /\ DOMAIN stack = 1..Len(stack)
  BY SeqFacts DEF TypeInv
<1>2. CASE Replies = {}
  <2>1. \A i \in 1..Len(stack) : stack[i].op # "reply"
    BY <1>1, <1>2 DEF Replies
  <2> QED
    BY <1>2, <2>1 DEF Failed
<1>3. CASE Replies # {}
  <2>1. PICK r \in Replies : TRUE
    BY <1>3
  <2>2. r \in 1..Len(stack) /\ stack[r].op = "reply"
    BY <1>1, <2>1 DEF Replies
  <2>3. \A j \in Replies : j = r
    BY <1>1, <2>2 DEF Replies, TypeInv
  <2> DEFINE c == CHOOSE i \in Replies : \A j \in Replies : i <= j
  <2>4. \E i \in Replies : \A j \in Replies : i <= j
    BY <1>1, <2>1, <2>2, <2>3
  <2>5. c = r
    BY <2>3, <2>4
  <2>6. /\ store' = stack[r].saved /\ stack' = SubSeq(stack, r + 1, Len(stack))
        /\ tx' = IF stack[r].id = "ack" THEN [tx EXCEPT !.result = "error"] ELSE tx
        /\ remote' = remote
    BY <1>3, <2>5 DEF Failed
  <2>7. /\ IsSeq(stack') /\ Len(stack') = Len(stack) - r
        /\ \A i \in 1..(Len(stack) - r) : stack'[i] = stack[r + i]
    BY <1>1, <2>2, <2>6, SuffixFacts
  <2> QED
    BY <2>2, <2>6, <2>7
<1> QED
  BY <1>2, <1>3

\* A message that fails.
LEMMA FailedTypes ==
  ASSUME TypeInv, stack # <<>>, Failed
  PROVE  TypeInv'
<1>1. ~ NoTx /\ TxOK /\ tx.before \in Stores
  BY DEF TypeInv, TxOK, NoTx
<1>2. IsSeq(stack) /\ Len(stack) \in Nat
  BY SeqFacts DEF TypeInv
<1>3. CASE store' = tx.before /\ stack' = <<>> /\ tx' = [tx EXCEPT !.result = "reverted"]
  <2>1. TxOK' /\ ~ NoTx'
    BY <1>1, <1>3, TxResult DEF Results
  <2>2. Len(stack') = 0 /\ IsSeq(stack')
    BY <1>3, NoMsgs
  <2> QED
    BY <1>1, <1>3, <2>1, <2>2, FailedFacts DEF TypeInv
<1>4. ASSUME NEW r \in 1..Len(stack), stack[r].op = "reply", store' = stack[r].saved,
             IsSeq(stack'), Len(stack') = Len(stack) - r,
             \A i \in 1..(Len(stack) - r) : stack'[i] = stack[r + i],
             tx' = IF stack[r].id = "ack" THEN [tx EXCEPT !.result = "error"] ELSE tx
      PROVE  TypeInv'
  <2>1. store' \in Stores
    BY <1>4 DEF TypeInv, MsgOK, BaseOK
  <2>2. TxOK' /\ ~ NoTx'
    <3>1. CASE stack[r].id = "ack"
      BY <1>1, <1>4, <3>1, TxResult DEF Results
    <3>2. CASE stack[r].id # "ack"
      BY <1>1, <1>4, <3>2 DEF TxOK, NoTx
    <3> QED
      BY <3>1, <3>2
  <2>3. \A i \in 1..Len(stack') : r + i \in 1..Len(stack) /\ stack'[i] = stack[r + i]
    BY <1>2, <1>4
  <2>4. \A i \in 1..Len(stack') : MsgOK(stack'[i])
    BY <2>3 DEF TypeInv
  <2>5. ASSUME NEW i \in 1..Len(stack'), NEW j \in 1..Len(stack'),
               stack'[i].op \in {"reply", "ackCallback"},
               stack'[j].op \in {"reply", "ackCallback"}
        PROVE  i = j
    <3>1. r + i = r + j
      BY <2>3, <2>5 DEF TypeInv
    <3> QED
      BY <1>2, <1>4, <3>1
  <2> QED
    BY <1>4, <2>1, <2>2, <2>4, <2>5, FailedFacts DEF TypeInv
<1> QED
  BY <1>3, <1>4, FailedFacts

\* A submessage that went through.
LEMMA ReplyTypes ==
  ASSUME TypeInv, stack # <<>>, ReplySuccess
  PROVE  TypeInv'
<1>1. ~ NoTx /\ TxOK
  BY DEF TypeInv
<1>2. IsSeq(stack) /\ Len(stack) \in Nat /\ Len(stack) >= 1
  BY SeqFacts DEF TypeInv
<1>3. /\ IsSeq(stack') /\ Len(stack') = Len(stack) - 1
      /\ \A i \in 1..Len(stack') : i + 1 \in 1..Len(stack) /\ stack'[i] = stack[i + 1]
  BY <1>2, TailFacts DEF ReplySuccess
<1>4. TxOK' /\ ~ NoTx'
  <2>1. CASE Head(stack).id = "ack"
    BY <1>1, <2>1, TxResult DEF ReplySuccess, Results
  <2>2. CASE Head(stack).id # "ack"
    BY <1>1, <2>2 DEF ReplySuccess, TxOK, NoTx
  <2> QED
    BY <2>1, <2>2
<1>5. \A i \in 1..Len(stack') : MsgOK(stack'[i])
  BY <1>3 DEF TypeInv
<1>6. ASSUME NEW i \in 1..Len(stack'), NEW j \in 1..Len(stack'),
             stack'[i].op \in {"reply", "ackCallback"},
             stack'[j].op \in {"reply", "ackCallback"}
      PROVE  i = j
  <2>1. i + 1 = j + 1
    BY <1>3, <1>6 DEF TypeInv
  <2> QED
    BY <1>2, <1>3, <2>1
<1> QED
  BY <1>3, <1>4, <1>5, <1>6 DEF TypeInv, ReplySuccess

\* What the next message does.
LEMMA ContinueCases ==
  ASSUME TypeInv, Continue
  PROVE  /\ stack # <<>> /\ Head(stack) = stack[1] /\ MsgOK(Head(stack))
         /\ Len(stack) \in Nat /\ Len(stack) >= 1
         /\ \/ /\ Head(stack).op # "reply" /\ Works(Head(stack))
               /\ \E new, msgs : Done(new, msgs) /\ Effect(Head(stack), new, msgs)
            \/ Failed
            \/ Head(stack).op = "reply" /\ ReplySuccess
<1>1. stack # <<>>
  BY DEF Continue
<1>2. /\ Head(stack) = stack[1] /\ Len(stack) \in Nat /\ Len(stack) >= 1
      /\ MsgOK(Head(stack))
  BY <1>1, SeqFacts DEF TypeInv
<1>3. CASE Works(Head(stack)) /\ Execute(Head(stack))
  <2>1. Head(stack).op # "reply"
    BY <1>3 DEF Execute, ExecConjunction, ExecRedeem, ExecCreate, ExecMint, ExecRedeemEntries,
                ExecAddEntries, ExecReceiveNft, ExecPause, ExecAckCallback, ExecCollection,
                ExecProxy, ExecCallback
  <2>2. store \in Stores
    BY DEF TypeInv
  <2>3. CASE ExecCollection(Head(stack)) \/ ExecProxy(Head(stack)) \/ ExecCallback(Head(stack))
    BY <1>1, <1>2, <1>3, <2>1, <2>2, <2>3, ForeignEffect
  <2>4. CASE ~ (ExecCollection(Head(stack)) \/ ExecProxy(Head(stack)) \/ ExecCallback(Head(stack)))
    <3>1. \/ ExecConjunction(Head(stack)) \/ ExecRedeem(Head(stack)) \/ ExecCreate(Head(stack))
          \/ ExecMint(Head(stack)) \/ ExecRedeemEntries(Head(stack))
          \/ ExecAddEntries(Head(stack)) \/ ExecReceiveNft(Head(stack))
          \/ ExecPause(Head(stack)) \/ ExecAckCallback(Head(stack))
      BY <1>3, <2>4 DEF Execute
    <3>2. \E new, msgs : Done(new, msgs) /\ Effect(Head(stack), new, msgs)
      BY <1>2, <1>3, <2>2, <3>1, BridgeEffect
    <3> QED
      BY <1>1, <1>2, <1>3, <2>1, <3>2
  <2> QED
    BY <2>3, <2>4
<1>4. CASE ~ Works(Head(stack)) /\ Failed
  BY <1>1, <1>2, <1>4
<1>5. CASE CallbackFails(Head(stack))
  BY <1>1, <1>2, <1>5 DEF CallbackFails
<1>6. CASE Head(stack).op = "reply" /\ ReplySuccess
  BY <1>1, <1>2, <1>6
<1> QED
  BY <1>3, <1>4, <1>5, <1>6 DEF Continue

\* Every step within a transaction.
LEMMA ContinueTypes ==
  ASSUME TypeInv, Continue
  PROVE  TypeInv'
BY ContinueCases, DoneTypes, FailedTypes, ReplyTypes

-----------------------------------------------------------------------------
(* Transactions begin and end.                                             *)

\* The operands before a conjunction is complete.
OpsOK(o) ==
  /\ IsSeq(o)
  /\ \A i \in 1..Len(o) :
       BaseOK(o[i]) /\ o[i].op \in {"proxy", "redeem", "create", "callback"} \cup EntriesOps

\* Operands one after the other.
LEMMA OpsConcat ==
  ASSUME NEW a, NEW b, OpsOK(a), OpsOK(b)
  PROVE  OpsOK(a \o b)
<1>1. /\ IsSeq(a \o b) /\ Len(a \o b) = Len(a) + Len(b) /\ Len(a) \in Nat /\ Len(b) \in Nat
      /\ \A i \in 1..(Len(a) + Len(b)) :
           (a \o b)[i] = IF i <= Len(a) THEN a[i] ELSE b[i - Len(a)]
  BY ConcatFacts, SeqFacts DEF OpsOK
<1>2. ASSUME NEW i \in 1..Len(a \o b)
      PROVE  /\ BaseOK((a \o b)[i])
             /\ (a \o b)[i].op \in {"proxy", "redeem", "create", "callback"} \cup EntriesOps
  <2>1. CASE i <= Len(a)
    <3>1. i \in 1..Len(a) /\ (a \o b)[i] = a[i]
      BY <1>1, <2>1
    <3> QED
      BY <3>1 DEF OpsOK
  <2>2. CASE i > Len(a)
    <3>1. i - Len(a) \in 1..Len(b) /\ (a \o b)[i] = b[i - Len(a)]
      BY <1>1, <2>2
    <3> QED
      BY <3>1 DEF OpsOK
  <2> QED
    BY <1>1, <2>1, <2>2
<1> QED
  BY <1>1, <1>2 DEF OpsOK

\* One operand, or none.
LEMMA OpsSingle ==
  ASSUME NEW m, BaseOK(m),
         m.op \in {"proxy", "redeem", "create", "callback"} \cup EntriesOps
  PROVE  OpsOK(<<m>>)
BY OneMsg DEF OpsOK

\* The conjunction for a packet is one.
LEMMA OperandsTypes ==
  ASSUME NEW packet \in PacketsIn
  PROVE  OperandsOK(Operands(packet))
<1> DEFINE a == IF store.incomingProxy THEN <<ProxyMsg>> ELSE <<>>
           m == IF IsRedemption(packet) THEN RedeemVouchers(packet) ELSE CreateVouchers(packet)
           c == IF packet.callback THEN <<Callback>> ELSE <<>>
           e == IF IsRedemption(packet) THEN RedeemOutgoingChannelEntries(packet)
                                        ELSE AddIncomingChannelEntries(packet)
<1>1. OpsOK(<<>>)
  BY NoMsgs DEF OpsOK
<1>2. OpsOK(a)
  <2>1. BaseOK(ProxyMsg) /\ ProxyMsg.op = "proxy"
    BY DEF ProxyMsg, BaseOK, PacketOps, EntriesOps
  <2> QED
    BY <1>1, <2>1, OpsSingle
<1>3. OpsOK(<<m>>)
  <2>1. BaseOK(m) /\ m.op \in {"redeem", "create"}
    BY DEF RedeemVouchers, CreateVouchers, BaseOK, PacketOps, EntriesOps
  <2> HIDE DEF m
  <2> QED
    BY <2>1, OpsSingle
<1>4. OpsOK(c)
  <2>1. BaseOK(Callback) /\ Callback.op = "callback"
    BY DEF Callback, BaseOK, PacketOps, EntriesOps
  <2> QED
    BY <1>1, <2>1, OpsSingle
<1>5. OpsOK(<<e>>) /\ e.op \in EntriesOps
  <2>1. BaseOK(e) /\ e.op \in EntriesOps
    BY DEF RedeemOutgoingChannelEntries, AddIncomingChannelEntries, BaseOK, PacketOps, EntriesOps
  <2> HIDE DEF e
  <2> QED
    BY <2>1, OpsSingle
<1>6. Operands(packet) = ((a \o <<m>>) \o c) \o <<e>>
  BY DEF Operands
<1> HIDE DEF a, m, c, e
<1> DEFINE f == (a \o <<m>>) \o c
<1>7. OpsOK(f) /\ OpsOK(f \o <<e>>)
  BY <1>2, <1>3, <1>4, <1>5, OpsConcat
<1> HIDE DEF f
<1>8. /\ Len(f) \in Nat /\ Len(<<e>>) = 1 /\ <<e>>[1] = e
      /\ Len(f \o <<e>>) = Len(f) + 1 /\ (f \o <<e>>)[Len(f) + 1] = e
  <2>1. IsSeq(f) /\ IsSeq(<<e>>) /\ Len(<<e>>) = 1 /\ <<e>>[1] = e /\ Len(f) \in Nat
    BY <1>7, OneMsg, SeqFacts DEF OpsOK
  <2>2. /\ Len(f \o <<e>>) = Len(f) + 1
        /\ \A i \in 1..(Len(f) + 1) :
             (f \o <<e>>)[i] = IF i <= Len(f) THEN f[i] ELSE <<e>>[i - Len(f)]
    BY <2>1, ConcatFacts
  <2>3. Len(f) + 1 \in 1..(Len(f) + 1) /\ ~ (Len(f) + 1 <= Len(f)) /\ (Len(f) + 1) - Len(f) = 1
    BY <2>1
  <2> QED
    BY <2>1, <2>2, <2>3
<1> QED
  BY <1>5, <1>6, <1>7, <1>8 DEF OperandsOK, OpsOK, f

\* Initially there is no transaction.
LEMMA InitTypes == Init => TypeInv
<1> SUFFICES ASSUME Init
             PROVE  TypeInv
  OBVIOUS
<1>1. PICK owner \in [Tokens -> Users], pauser \in {Hook, NoPauser}, proxies \in Proxies :
        store = [owner    |-> [n \in Nfts |-> IF n.class = Home THEN owner[n.token] ELSE NoOne],
                 given    |-> {},
                 outgoing |-> [n \in Nfts |-> NoChannel],
                 incoming |-> [n \in Nfts |-> NoChannel],
                 metadata |-> {},
                 registry |-> {},
                 incomingProxy |-> proxies[1],
                 outgoingProxy |-> proxies[2],
                 po |-> SetPauser(pauser),
                 packets |-> {},
                 nextSeq |-> 1]
  BY DEF Init
<1>2. SetPauser(pauser) \in PauseOrchestrator
  BY HookAssumption DEF SetPauser, PauseOrchestrator
<1>3. [n \in Nfts |-> IF n.class = Home THEN owner[n.token] ELSE NoOne]
        \in [Nfts -> Accounts \cup {NoOne}]
  BY DEF Nfts, Accounts
<1>4. proxies[1] \in BOOLEAN /\ proxies[2] \in BOOLEAN
  BY ProxiesAssumption
<1>5. 1 \in 1..(MaxPackets + 1)
  BY BoundAssumption
<1>6. store \in Stores
  BY <1>1, <1>2, <1>3, <1>4, <1>5 DEF Stores
<1>7. remote \subseteq [nft: Nfts, channel: Channels]
  BY DEF Init, Nfts, Classes
<1>8. stack = <<>> /\ tx = Idle
  BY DEF Init
<1> QED
  BY <1>6, <1>7, <1>8, NoMsgs DEF TypeInv, TxOK, NoTx

\* A user's transaction.
LEMMA UserSendTypes ==
  ASSUME TypeInv, NEW nft \in Nfts, NEW via, NEW channel \in Channels, NEW callback \in BOOLEAN,
         UserSend(nft, via, channel, callback)
  PROVE  TypeInv' /\ tx'.kind = "send" /\ Len(stack') = 1 /\ stack'[1].op = "sendNft"
<1> DEFINE msg == SendNft(nft, store.owner[nft], via, channel, callback)
<1>1. stack' = <<msg>> /\ store \in Stores /\ store' = store /\ remote' = remote
  BY DEF UserSend, TypeInv
<1>2. MsgOK(msg) /\ msg.op = "sendNft"
  BY DEF UserSend, SendNft, MsgOK, BaseOK, PacketOps, EntriesOps, Senders
<1>3. TxOK' /\ ~ NoTx' /\ tx'.kind = "send"
  BY <1>1 DEF UserSend, TxOK, NoTx, Idle, Results
<1> HIDE DEF msg
<1>4. IsSeq(stack') /\ Len(stack') = 1 /\ stack'[1] = msg
  BY <1>1, OneMsg
<1> QED
  BY <1>1, <1>2, <1>3, <1>4 DEF TypeInv

\* A packet arrives.
LEMMA ReceiveTypes ==
  ASSUME TypeInv, NEW packet \in PacketsIn, RecvPacket(packet)
  PROVE  /\ TypeInv' /\ tx'.kind = "receive" /\ store' = store /\ tx'.before = store
         /\ \/ stack' = <<>> /\ tx'.result = "error"
            \/ /\ Len(stack') = 2 /\ stack'[1] = Conjunction(Operands(packet))
               /\ stack'[2] = Reply("ack") /\ tx'.result = "none"
<1>0. Receive(packet) /\ store \in Stores /\ remote \subseteq [nft: Nfts, channel: Channels]
  BY DEF RecvPacket, TypeInv
<1>1. /\ store' = store /\ remote' \subseteq remote
      /\ tx'.kind = "receive" /\ tx'.before = store
      /\ \/ stack' = <<>> /\ tx'.result = "error"
         \/ stack' = Submessage(packet) /\ tx'.result = "none"
  BY <1>0 DEF Receive
<1>2. TxOK' /\ ~ NoTx'
  BY <1>0 DEF Receive, TxOK, NoTx, Idle, Results
<1>3. CASE stack' = <<>> /\ tx'.result = "error"
  <2>1. IsSeq(stack') /\ Len(stack') = 0
    BY <1>3, NoMsgs
  <2> QED
    BY <1>0, <1>1, <1>2, <1>3, <2>1 DEF TypeInv
<1>4. CASE stack' = Submessage(packet) /\ tx'.result = "none"
  <2> DEFINE conj == Conjunction(Operands(packet))
             reply == Reply("ack")
  <2>1. MsgOK(conj) /\ conj.op = "conjunction"
    BY OperandsTypes DEF Conjunction, MsgOK, BaseOK, PacketOps, EntriesOps
  <2>2. MsgOK(reply) /\ reply.op = "reply"
    BY <1>0 DEF Reply, MsgOK, BaseOK, PacketOps, EntriesOps
  <2>3. stack' = <<conj, reply>>
    BY <1>4 DEF Submessage
  <2> HIDE DEF conj, reply
  <2>4. IsSeq(stack') /\ Len(stack') = 2 /\ stack'[1] = conj /\ stack'[2] = reply
    BY <2>3, TwoMsgs
  <2>5. TypeInv'
    BY <1>0, <1>1, <1>2, <2>1, <2>2, <2>4 DEF TypeInv
  <2> QED
    BY <1>1, <1>4, <2>4, <2>5 DEF conj, reply
<1> QED
  BY <1>1, <1>3, <1>4

\* What is executed at the end of a packet.
Ending(s) ==
  /\ IsSeq(s)
  /\ \A i \in 1..Len(s) : MsgOK(s[i]) /\ s[i].op \in {"burn", "transfer", "ackCallback"}
  /\ \A i, j \in 1..Len(s) : s[i].op = "ackCallback" /\ s[j].op = "ackCallback" => i = j

\* A transfer or a burn, and the callback if it is asked for.
LEMMA NotifyOK ==
  ASSUME NEW p, NEW first, MsgOK(first), first.op \in {"burn", "transfer"},
         NEW a \in {<<>>, <<first>>}
  PROVE  Ending(a \o Notify(p))
<1> DEFINE n == Notify(p)
<1>1. MsgOK(AckCallback) /\ AckCallback.op = "ackCallback"
  BY DEF AckCallback, MsgOK, BaseOK, PacketOps, EntriesOps
<1>2. /\ IsSeq(a) /\ Len(a) \in 0..1
      /\ \A i \in 1..Len(a) : MsgOK(a[i]) /\ a[i].op \in {"burn", "transfer"}
  BY NoMsgs, OneMsg
<1>3. /\ IsSeq(n) /\ Len(n) \in 0..1
      /\ \A i \in 1..Len(n) : MsgOK(n[i]) /\ n[i].op = "ackCallback"
  BY <1>1, NoMsgs, OneMsg DEF Notify
<1> HIDE DEF n
<1>4. /\ IsSeq(a \o n) /\ Len(a \o n) = Len(a) + Len(n)
      /\ \A i \in 1..(Len(a) + Len(n)) :
           (a \o n)[i] = IF i <= Len(a) THEN a[i] ELSE n[i - Len(a)]
  BY <1>2, <1>3, ConcatFacts
<1>5. ASSUME NEW i \in 1..Len(a \o n)
      PROVE  /\ MsgOK((a \o n)[i])
             /\ (a \o n)[i].op \in {"burn", "transfer", "ackCallback"}
             /\ (a \o n)[i].op = "ackCallback" => i = Len(a) + 1
  <2>1. CASE i <= Len(a)
    <3>1. i \in 1..Len(a) /\ (a \o n)[i] = a[i]
      BY <1>2, <1>3, <1>4, <2>1
    <3> QED
      BY <1>2, <3>1
  <2>2. CASE i > Len(a)
    <3>1. i - Len(a) \in 1..Len(n) /\ (a \o n)[i] = n[i - Len(a)] /\ i = Len(a) + 1
      BY <1>2, <1>3, <1>4, <2>2
    <3> QED
      BY <1>3, <3>1
  <2> QED
    BY <1>2, <1>3, <1>4, <2>1, <2>2
<1> QED
  BY <1>4, <1>5 DEF Ending, n

\* A packet that this bridge sent comes to its end.
LEMMA ResolveTypes ==
  ASSUME TypeInv, NEW p \in store.packets, NoTx, Resolve(p)
  PROVE  /\ TypeInv' /\ tx'.kind = "resolve"
         /\ \A i \in 1..Len(stack') : stack'[i].op \in {"burn", "transfer", "ackCallback"}
<1>0. store \in Stores /\ p \in SentPackets /\ remote' = remote
  BY DEF TypeInv, Stores, SentPackets, Senders, Resolve
<1>1. TxOK' /\ ~ NoTx' /\ tx'.kind = "resolve"
  BY <1>0 DEF Resolve, TxOK, NoTx, Idle, Results
<1>2. p.nft \in Nfts /\ p.sender \in Senders /\ p.channel \in Channels
  BY <1>0 DEF SentPackets
<1>3. /\ MsgOK(BurnNft(p.nft)) /\ BurnNft(p.nft).op = "burn"
      /\ MsgOK(TransferNft(p.nft, p.sender)) /\ TransferNft(p.nft, p.sender).op = "transfer"
  BY <1>2 DEF BurnNft, TransferNft, MsgOK, BaseOK, PacketOps, EntriesOps, Senders, Accounts
<1>4. ASSUME AckSuccess(p)
      PROVE  store' \in Stores /\ Ending(stack')
  <2> DEFINE settled == [store EXCEPT !.packets = @ \ {p}]
             returned == store.incoming[p.nft] = p.channel
  <2>1. settled \in Stores
    BY <1>0 DEF Stores
  <2>2. Forget(settled, p.nft) \in Stores
    BY <1>2, <2>1 DEF Forget, Stores
  <2>3. store' \in Stores
    BY <1>4, <2>1, <2>2 DEF AckSuccess
  <2>4. stack' = (IF returned THEN <<BurnNft(p.nft)>> ELSE <<>>) \o Notify(p)
    BY <1>4 DEF AckSuccess
  <2>5. Ending(stack')
    BY <1>3, <2>4, NotifyOK
  <2> QED
    BY <2>3, <2>5
<1>5. ASSUME HandlePacketFail(p)
      PROVE  store' \in Stores /\ Ending(stack')
  <2>1. store' \in Stores
    BY <1>0, <1>2, <1>5 DEF HandlePacketFail, Stores
  <2>2. stack' = <<TransferNft(p.nft, p.sender)>> \o Notify(p)
    BY <1>5 DEF HandlePacketFail
  <2>3. Ending(stack')
    BY <1>3, <2>2, NotifyOK
  <2> QED
    BY <2>1, <2>3
<1>6. store' \in Stores /\ Ending(stack')
  BY <1>4, <1>5 DEF Resolve, IbcPacketAck, IbcPacketTimeout
<1>7. TypeInv'
  <2>1. ASSUME NEW i \in 1..Len(stack'), NEW j \in 1..Len(stack'),
               stack'[i].op \in {"reply", "ackCallback"},
               stack'[j].op \in {"reply", "ackCallback"}
        PROVE  i = j
    BY <1>6, <2>1 DEF Ending
  <2> QED
    BY <1>0, <1>1, <1>6, <2>1 DEF TypeInv, Ending
<1> QED
  BY <1>1, <1>6, <1>7 DEF Ending

\* Between transactions.
LEMMA IdleTypes ==
  ASSUME TypeInv,
         \/ \E p \in store.packets : RemoteAnswers(p)
         \/ \E nft \in Nfts, to \in Accounts : UserTransfer(nft, to)
         \/ \E nft \in Nfts : UserBurn(nft) \/ RemoteReleases(nft)
         \/ \E pauser \in {Hook, NoPauser}, proxies \in Proxies : Migrate(pauser, proxies)
  PROVE  TypeInv' /\ tx = Idle /\ tx' = Idle
<1>1. ASSUME NEW p \in store.packets, RemoteAnswers(p)
      PROVE  TypeInv' /\ tx = Idle /\ tx' = Idle
  <2>1. PICK answer \in Acks \cup {"timeout"} :
          /\ store' = [store EXCEPT !.packets = (@ \ {p}) \cup {[p EXCEPT !.state = answer]}]
          /\ remote' = IF answer = "result"
                       THEN remote \cup {[nft |-> p.nft, channel |-> p.channel]}
                       ELSE remote
    BY <1>1 DEF RemoteAnswers
  <2>2. store \in Stores /\ p \in SentPackets
    BY DEF TypeInv, Stores, SentPackets, Senders
  <2>3. [p EXCEPT !.state = answer] \in SentPackets
    BY <2>2 DEF SentPackets
  <2>4. store' \in Stores
    BY <2>1, <2>2, <2>3 DEF Stores, SentPackets, Senders
  <2>5. remote' \subseteq [nft: Nfts, channel: Channels]
    BY <2>1, <2>2 DEF TypeInv, SentPackets
  <2>6. stack' = stack /\ tx' = tx /\ tx = Idle
    BY <1>1 DEF RemoteAnswers, NoTx
  <2> QED
    BY <2>4, <2>5, <2>6 DEF TypeInv, TxOK, NoTx
<1>2. ASSUME NEW pauser \in {Hook, NoPauser}, NEW proxies \in Proxies, Migrate(pauser, proxies)
      PROVE  TypeInv' /\ tx = Idle /\ tx' = Idle
  <2>1. SetPauser(pauser) \in PauseOrchestrator
    BY HookAssumption DEF SetPauser, PauseOrchestrator
  <2>2. proxies[1] \in BOOLEAN /\ proxies[2] \in BOOLEAN
    BY ProxiesAssumption
  <2>3. store' \in Stores
    BY <1>2, <2>1, <2>2 DEF Migrate, TypeInv, Stores
  <2> QED
    BY <1>2, <2>3 DEF Migrate, TypeInv, TxOK, NoTx
<1>3. ASSUME NEW nft \in Nfts, NEW to \in Accounts, UserTransfer(nft, to)
      PROVE  TypeInv' /\ tx = Idle /\ tx' = Idle
  <2>1. store' \in Stores
    BY <1>3, HandedTypes DEF UserTransfer, TypeInv
  <2> QED
    BY <1>3, <2>1 DEF UserTransfer, TypeInv, TxOK, NoTx
<1>4. ASSUME NEW nft \in Nfts, UserBurn(nft)
      PROVE  TypeInv' /\ tx = Idle /\ tx' = Idle
  <2>1. store' \in Stores
    BY <1>4, OwnerTypes DEF UserBurn, TypeInv
  <2> QED
    BY <1>4, <2>1 DEF UserBurn, TypeInv, TxOK, NoTx
<1>5. ASSUME NEW nft \in Nfts, RemoteReleases(nft)
      PROVE  TypeInv' /\ tx = Idle /\ tx' = Idle
  <2>1. nft.class \in Channels
    BY <1>5 DEF RemoteReleases, Nfts, Classes
  <2>2. remote' \subseteq [nft: Nfts, channel: Channels]
    BY <1>5, <2>1 DEF RemoteReleases, TypeInv
  <2> QED
    BY <1>5, <2>2 DEF RemoteReleases, TypeInv, TxOK, NoTx
<1> QED
  BY <1>1, <1>2, <1>3, <1>4, <1>5

\* A transaction ends.
LEMMA CommitTypes ==
  ASSUME TypeInv, Commit
  PROVE  TypeInv' /\ tx' = Idle
<1>1. store' = store /\ stack' = stack /\ tx' = Idle /\ stack = <<>>
  BY DEF Commit
<1>2. remote' \subseteq [nft: Nfts, channel: Channels]
  <2>1. CASE tx.kind = "receive" /\ tx.result = "error"
    <3>1. tx.packet \in PacketsIn
      BY <2>1 DEF TypeInv, TxOK, Idle
    <3>2. PacketNfts(tx.packet) \subseteq Nfts /\ tx.packet.channel \in Channels
      BY <3>1, PacketTokens DEF PacketNfts
    <3> QED
      BY <2>1, <3>2 DEF Commit, TypeInv
  <2>2. CASE ~ (tx.kind = "receive" /\ tx.result = "error")
    BY <2>2 DEF Commit, TypeInv
  <2> QED
    BY <2>1, <2>2
<1> QED
  BY <1>1, <1>2 DEF TypeInv, TxOK, NoTx

\* No step breaks the type invariant.
LEMMA NextTypes == TypeInv /\ [Next]_vars => TypeInv'
<1> SUFFICES ASSUME TypeInv, [Next]_vars
             PROVE  TypeInv'
  OBVIOUS
<1>1. CASE UNCHANGED vars
  BY <1>1 DEF vars, TypeInv, TxOK, NoTx, IsSeq
<1>2. ASSUME NEW nft \in Nfts, NEW via, NEW channel \in Channels, NEW callback \in BOOLEAN,
             UserSend(nft, via, channel, callback)
      PROVE  TypeInv'
  BY <1>2, UserSendTypes
<1>3. ASSUME NEW packet \in PacketsIn, RecvPacket(packet)
      PROVE  TypeInv'
  BY <1>3, ReceiveTypes
<1>4. ASSUME NEW p \in store.packets, NoTx, Resolve(p)
      PROVE  TypeInv'
  BY <1>4, ResolveTypes
<1> QED
  BY <1>1, <1>2, <1>3, <1>4, IdleTypes, ContinueTypes, CommitTypes DEF Next

\* Storage, transactions and what the other chains hold are of their types at all
\* times (TypeOK), and so is every message that is still to be executed; a stack
\* never holds two submessages with a reply.
THEOREM Types == Spec => []TypeInv /\ []TypeOK
<1>1. Spec => []TypeInv
  BY InitTypes, NextTypes, PTL DEF Spec
<1>2. TypeInv => TypeOK
  BY TypeInvTypes
<1> QED
  BY <1>1, <1>2, PTL

-----------------------------------------------------------------------------
(* A packet is received as a whole or not at all.                          *)

\* What is left of the conjunction, its entries last, and the reply that decides the
\* acknowledgement and goes back to the store before the packet.
InProgress ==
  /\ tx.result = "none" /\ Len(stack) >= 1
  /\ stack[Len(stack)] = [op |-> "reply", id |-> "ack", saved |-> tx.before]
  /\ Len(stack) = 1 => ErrorIfPaused(store.po)
  /\ Len(stack) > 1 => \/ stack[Len(stack) - 1].op \in EntriesOps
                       \/ Len(stack) = 2 /\ stack[1].op = "conjunction"
  /\ Len(stack) > 2 => \A i \in 1..Len(stack) : stack[i].op # "conjunction"

ReceiveInv ==
  tx.kind = "receive" =>
    \/ stack = <<>> /\ tx.result = "ok" /\ ErrorIfPaused(store.po)
    \/ stack = <<>> /\ tx.result = "error" /\ store = tx.before
    \/ InProgress

\* The one reply is the last message.
LEMMA LastReply ==
  ASSUME TypeInv, InProgress, NEW i \in 1..Len(stack),
         stack[i].op \in {"reply", "ackCallback"}
  PROVE  i = Len(stack)
<1>1. Len(stack) \in Nat /\ Len(stack) >= 1 /\ stack[Len(stack)].op = "reply"
  BY SeqFacts DEF TypeInv, InProgress
<1> QED
  BY <1>1 DEF TypeInv

\* A message of the conjunction works.
LEMMA DoneReceive ==
  ASSUME TypeInv, InProgress, stack # <<>>, NEW new, NEW msgs,
         Head(stack).op # "reply", Works(Head(stack)),
         Effect(Head(stack), new, msgs), Done(new, msgs)
  PROVE  InProgress'
<1> DEFINE n == Len(stack)
           k == Len(msgs)
<1>1. /\ k \in Nat /\ n \in Nat /\ n >= 1 /\ Head(stack) = stack[1]
      /\ Len(stack') = k + n - 1
      /\ \A i \in 1..Len(stack') : stack'[i] = IF i <= k THEN msgs[i] ELSE stack[i - k + 1]
  BY NewStack DEF Effect
<1>2. n >= 2
  BY <1>1 DEF InProgress
<1>3. tx' = tx /\ store' = new
  BY DEF Done
<1>4. Len(stack') \in 1..Len(stack') /\ Len(stack') - k + 1 = n /\ ~ (Len(stack') <= k)
  BY <1>1, <1>2
<1>5. stack'[Len(stack')] = stack[n]
  BY <1>1, <1>4
<1>6. CASE n = 2 /\ stack[1].op = "conjunction"
  <2>1. msgs = stack[1].operands /\ OperandsOK(msgs)
    BY <1>1, <1>6 DEF Effect, TypeInv, MsgOK
  <2>2. k >= 1 /\ msgs[k].op \in EntriesOps /\ \A i \in 1..k : msgs[i].op # "conjunction"
    BY <2>1 DEF OperandsOK, EntriesOps
  <2>3. Len(stack') = k + 1 /\ k \in 1..Len(stack') /\ stack'[k] = msgs[k]
    BY <1>1, <1>6, <2>2
  <2>4. ASSUME NEW i \in 1..Len(stack')
        PROVE  stack'[i].op # "conjunction"
    <3>1. CASE i <= k
      BY <1>1, <2>2, <3>1
    <3>2. CASE i = k + 1
      BY <1>5, <2>3, <3>2 DEF InProgress
    <3> QED
      BY <1>1, <2>3, <3>1, <3>2
  <2> QED
    BY <1>1, <1>3, <1>5, <2>2, <2>3, <2>4 DEF InProgress
<1>7. CASE n = 2 /\ stack[1].op \in EntriesOps
  <2>1. msgs = <<>> /\ new.po = store.po
    BY <1>1, <1>7 DEF Effect
  <2>2. ErrorIfPaused(store.po)
    BY <1>1, <1>7 DEF Works, BridgeOps, EntriesOps
  <2>3. Len(stack') = 1
    BY <1>1, <1>7, <2>1, NoMsgs, SeqFacts
  <2> QED
    BY <1>3, <1>5, <2>1, <2>2, <2>3 DEF InProgress
<1>8. CASE n > 2
  <2>1. /\ stack[n - 1].op \in EntriesOps
        /\ \A i \in 1..n : stack[i].op # "conjunction"
    BY <1>1, <1>8 DEF InProgress
  <2>2. stack[1].op # "conjunction" /\ stack[1].op # "ackCallback"
    BY <1>1, <1>8, <2>1, LastReply
  <2>3. \A i \in 1..k : msgs[i].op # "conjunction"
    BY <1>1, <2>2 DEF Effect
  <2>4. Len(stack') > 1 /\ stack'[Len(stack') - 1] = stack[n - 1]
    <3>1. Len(stack') - 1 \in 1..Len(stack') /\ ~ (Len(stack') - 1 <= k)
          /\ (Len(stack') - 1) - k + 1 = n - 1
      BY <1>1, <1>8
    <3> QED
      BY <1>1, <1>8, <3>1
  <2>5. ASSUME NEW i \in 1..Len(stack')
        PROVE  stack'[i].op # "conjunction"
    <3>1. CASE i <= k
      BY <1>1, <2>3, <3>1
    <3>2. CASE i > k
      <4>1. i - k + 1 \in 1..n
        BY <1>1, <3>2
      <4> QED
        BY <1>1, <2>1, <3>2, <4>1
    <3> QED
      BY <1>1, <3>1, <3>2
  <2> QED
    BY <1>1, <1>3, <1>5, <2>1, <2>4, <2>5 DEF InProgress
<1>9. n = 2 => stack[1].op \in EntriesOps \cup {"conjunction"}
  <2>1. n = 2 => n - 1 = 1
    OBVIOUS
  <2> QED
    BY <1>1, <2>1 DEF InProgress
<1>10. n = 2 \/ n > 2
  <2>1. n \in Nat
    BY <1>1
  <2> HIDE DEF n
  <2> QED
    BY <1>2, <2>1
<1> QED
  BY <1>6, <1>7, <1>8, <1>9, <1>10

\* A message fails: the store is the one before the packet.
LEMMA FailedReceive ==
  ASSUME TypeInv, tx.kind = "receive", InProgress, Failed
  PROVE  /\ stack' = <<>> /\ tx'.result = "error" /\ store' = tx.before
         /\ tx'.kind = "receive" /\ tx'.before = tx.before
<1>1. Len(stack) \in Nat /\ Len(stack) \in 1..Len(stack) /\ stack[Len(stack)].op = "reply"
  BY SeqFacts DEF TypeInv, InProgress
<1>2. PICK r \in 1..Len(stack) :
        /\ stack[r].op = "reply" /\ store' = stack[r].saved
        /\ IsSeq(stack') /\ Len(stack') = Len(stack) - r
        /\ tx' = IF stack[r].id = "ack" THEN [tx EXCEPT !.result = "error"] ELSE tx
  BY <1>1, FailedFacts
<1>3. r = Len(stack)
  BY <1>2, LastReply
<1>4. stack[r].id = "ack" /\ stack[r].saved = tx.before
  BY <1>3 DEF InProgress
<1>5. stack' = <<>>
  BY <1>1, <1>2, <1>3, SeqFacts
<1>6. TxOK /\ ~ NoTx
  BY <1>1 DEF TypeInv, NoTx, Idle
<1> QED
  BY <1>2, <1>4, <1>5, <1>6, TxResult DEF Results

\* The submessage went through: nothing is left.
LEMMA ReplyReceive ==
  ASSUME TypeInv, tx.kind = "receive", InProgress, Head(stack).op = "reply", ReplySuccess
  PROVE  stack' = <<>> /\ tx'.result = "ok" /\ ErrorIfPaused(store'.po)
<1>1. /\ IsSeq(stack) /\ Len(stack) \in Nat /\ stack # <<>> /\ Len(stack) >= 1
      /\ Head(stack) = stack[1]
  <2>1. IsSeq(stack) /\ Len(stack) >= 1
    BY DEF TypeInv, InProgress
  <2>2. stack # <<>>
    BY <2>1, SeqFacts
  <2> QED
    BY <2>1, <2>2, SeqFacts
<1>2. Len(stack) = 1
  BY <1>1, LastReply
<1>3. Head(stack).id = "ack" /\ ErrorIfPaused(store.po)
  BY <1>1, <1>2 DEF InProgress
<1>4. stack' = <<>>
  <2>1. IsSeq(stack') /\ Len(stack') = 0
    BY <1>1, <1>2, TailFacts DEF ReplySuccess
  <2> QED
    BY <2>1, SeqFacts
<1>5. TxOK /\ ~ NoTx
  BY <1>1 DEF TypeInv
<1>6. tx'.result = "ok" /\ store' = store
  BY <1>3, <1>5, TxResult DEF ReplySuccess, Results
<1> QED
  BY <1>3, <1>4, <1>6

\* The kind of a transaction stays what it was while its messages execute.
LEMMA ContinueKind ==
  ASSUME TypeInv, Continue
  PROVE  ~ NoTx /\ tx'.kind = tx.kind /\ tx'.before = tx.before
<1>1. TxOK /\ ~ NoTx
  BY DEF TypeInv, Continue
<1>2. \/ tx' = tx \/ \E r \in Results : tx' = [tx EXCEPT !.result = r]
  BY ContinueCases, FailedFacts DEF Done, ReplySuccess, Results
<1> QED
  BY <1>1, <1>2, TxResult

\* The invariant of receiving.
LEMMA NextReceive == TypeInv /\ ReceiveInv /\ [Next]_vars => ReceiveInv'
<1> SUFFICES ASSUME TypeInv, ReceiveInv, [Next]_vars
             PROVE  ReceiveInv'
  OBVIOUS
<1>1. CASE UNCHANGED vars
  BY <1>1 DEF vars, ReceiveInv, InProgress
<1>2. ASSUME NEW nft \in Nfts, NEW via, NEW channel \in Channels, NEW callback \in BOOLEAN,
             UserSend(nft, via, channel, callback)
      PROVE  ReceiveInv'
  BY <1>2, UserSendTypes DEF ReceiveInv
<1>3. ASSUME NEW packet \in PacketsIn, RecvPacket(packet)
      PROVE  ReceiveInv'
  <2>1. /\ store' = store /\ tx'.before = store
        /\ \/ stack' = <<>> /\ tx'.result = "error"
           \/ /\ Len(stack') = 2 /\ stack'[1] = Conjunction(Operands(packet))
              /\ stack'[2] = Reply("ack") /\ tx'.result = "none"
    BY <1>3, ReceiveTypes
  <2>2. CASE stack' = <<>> /\ tx'.result = "error"
    BY <2>1, <2>2 DEF ReceiveInv
  <2>3. CASE /\ Len(stack') = 2 /\ stack'[1] = Conjunction(Operands(packet))
             /\ stack'[2] = Reply("ack") /\ tx'.result = "none"
    <3>1. stack'[1].op = "conjunction"
      BY <2>3 DEF Conjunction
    <3>2. stack'[2] = [op |-> "reply", id |-> "ack", saved |-> tx'.before]
      BY <2>1, <2>3 DEF Reply
    <3> QED
      BY <2>3, <3>1, <3>2 DEF ReceiveInv, InProgress
  <2> QED
    BY <2>1, <2>2, <2>3
<1>4. ASSUME NEW p \in store.packets, NoTx, Resolve(p)
      PROVE  ReceiveInv'
  BY <1>4, ResolveTypes DEF ReceiveInv
<1>5. CASE tx' = Idle
  BY <1>5 DEF ReceiveInv, Idle
<1>6. CASE Continue
  <2>1. CASE tx.kind # "receive"
    BY <1>6, <2>1, ContinueKind DEF ReceiveInv
  <2>2. CASE tx.kind = "receive"
    <3>1. InProgress /\ stack # <<>>
      BY <1>6, <2>2 DEF Continue, ReceiveInv
    <3>2. CASE /\ Head(stack).op # "reply" /\ Works(Head(stack))
               /\ \E new, msgs : Done(new, msgs) /\ Effect(Head(stack), new, msgs)
      BY <3>1, <3>2, DoneReceive DEF ReceiveInv
    <3>3. CASE Failed
      BY <2>2, <3>1, <3>3, FailedReceive DEF ReceiveInv
    <3>4. CASE Head(stack).op = "reply" /\ ReplySuccess
      BY <2>2, <3>1, <3>4, ReplyReceive DEF ReceiveInv
    <3> QED
      BY <1>6, <3>2, <3>3, <3>4, ContinueCases
  <2> QED
    BY <2>1, <2>2
<1> QED
  BY <1>1, <1>2, <1>3, <1>4, <1>5, <1>6, IdleTypes, CommitTypes DEF Next

\* ReceiveInv and the types hold in every reachable state.
LEMMA ReceiveAlways == Spec => [](TypeInv /\ ReceiveInv)
<1>1. Init => ReceiveInv
  BY DEF Init, ReceiveInv, Idle
<1>2. Spec => []ReceiveInv
  BY <1>1, Types, NextReceive, PTL DEF Spec
<1> QED
  BY <1>2, Types, PTL

\* Every packet is acknowledged, and one that is refused - by a proxy, a collection, a
\* callback contract or the bridge - leaves everything as it was (reply).
THEOREM Receiving == Spec => []ReceiveAcknowledged
<1>1. TypeInv /\ ReceiveInv => ReceiveAcknowledged
  <2>1. stack = <<>> => ~ InProgress
    BY EmptySeq, NoMsgs, SeqFacts DEF InProgress
  <2> QED
    BY <2>1 DEF ReceiveInv, ReceiveAcknowledged
<1> QED
  BY <1>1, ReceiveAlways, PTL

\* A bridge that is paused when a packet comes in, or while it is received, does not take
\* it (error_if_paused at the beginning of receive_ibc_packet and of execute).
THEOREM PausedRefuses == Spec => []NoReceiptWhenPaused
<1>1. TypeInv /\ ReceiveInv => NoReceiptWhenPaused
  <2>1. stack = <<>> => ~ InProgress
    BY EmptySeq, NoMsgs, SeqFacts DEF InProgress
  <2> QED
    BY <2>1 DEF ReceiveInv, NoReceiptWhenPaused, ErrorIfPaused
<1> QED
  BY <1>1, ReceiveAlways, PTL

-----------------------------------------------------------------------------
(* What a failing callback takes with it otherwise.                        *)

\* An acknowledgement callback runs in a submessage of its own.
ResolveInv ==
  /\ tx.kind = "send" =>
       \A i \in 1..Len(stack) :
         stack[i].op \notin {"conjunction", "ackCallback", "callback", "reply"}
  /\ tx.kind = "resolve" =>
       \A i \in 1..Len(stack) :
         /\ stack[i].op # "conjunction"
         /\ stack[i].op = "reply" => stack[i].id = "callback"
         /\ stack[i].op = "callback" =>
              i = 1 /\ Len(stack) >= 2 /\ stack[2].op = "reply" /\ stack[2].saved = store

\* A message that works.
LEMMA DoneResolve ==
  ASSUME TypeInv, ResolveInv, stack # <<>>, NEW new, NEW msgs,
         Effect(Head(stack), new, msgs), Done(new, msgs)
  PROVE  ResolveInv'
<1> DEFINE n == Len(stack)
           k == Len(msgs)
           Inner == {"conjunction", "ackCallback", "callback", "reply"}
<1>1. /\ k \in Nat /\ n \in Nat /\ n >= 1 /\ Head(stack) = stack[1]
      /\ Len(stack') = k + n - 1
      /\ \A i \in 1..Len(stack') : stack'[i] = IF i <= k THEN msgs[i] ELSE stack[i - k + 1]
  BY NewStack DEF Effect
<1>2. tx' = tx /\ store' = new
  BY DEF Done
<1>3. ASSUME NEW i \in 1..Len(stack'), i > k
      PROVE  i - k + 1 \in 1..n /\ i - k + 1 # 1 /\ stack'[i] = stack[i - k + 1]
  <2>1. k \in Nat /\ n \in Nat /\ n >= 1 /\ Len(stack') = k + n - 1
    BY <1>1
  <2>2. stack'[i] = stack[i - k + 1]
    BY <1>1, <1>3
  <2> HIDE DEF n, k
  <2>3. i - k + 1 \in 1..n /\ i - k + 1 # 1
    BY <1>3, <2>1
  <2> QED
    BY <2>2, <2>3
<1>4. ASSUME tx.kind = "send", NEW i \in 1..Len(stack')
      PROVE  stack'[i].op \notin Inner
  <2>1. stack[1].op \notin {"conjunction", "ackCallback"}
    BY <1>1, <1>4 DEF ResolveInv
  <2>2. CASE i <= k
    BY <1>1, <2>1, <2>2 DEF Effect
  <2>3. CASE i > k
    BY <1>3, <1>4, <2>3 DEF ResolveInv
  <2> QED
    BY <1>1, <2>2, <2>3
<1>5. ASSUME tx.kind = "resolve", NEW i \in 1..Len(stack')
      PROVE  /\ stack'[i].op # "conjunction"
             /\ stack'[i].op = "reply" => stack'[i].id = "callback"
             /\ stack'[i].op = "callback" =>
                  i = 1 /\ Len(stack') >= 2 /\ stack'[2].op = "reply" /\ stack'[2].saved = store'
  <2>1. stack[1].op # "conjunction"
    BY <1>1, <1>5 DEF ResolveInv
  <2>2. CASE i > k
    BY <1>3, <1>5, <2>2 DEF ResolveInv
  <2>3. CASE i <= k /\ stack[1].op # "ackCallback"
    BY <1>1, <2>1, <2>3 DEF Effect
  <2>4. CASE i <= k /\ stack[1].op = "ackCallback"
    <3>1. msgs = <<Callback, Reply("callback")>> /\ new = store
      BY <1>1, <2>4 DEF Effect
    <3>2. k = 2 /\ msgs[1] = Callback /\ msgs[2] = Reply("callback")
      BY <3>1, TwoMsgs
    <3>3. Len(stack') >= 2 /\ stack'[1] = Callback /\ stack'[2] = Reply("callback")
      BY <1>1, <3>2
    <3>4. i = 1 \/ i = 2
      BY <1>1, <2>4, <3>2
    <3> QED
      BY <1>2, <3>1, <3>3, <3>4 DEF Callback, Reply
  <2> QED
    BY <1>1, <2>2, <2>3, <2>4
<1> QED
  BY <1>2, <1>4, <1>5 DEF ResolveInv

\* A message that fails, or a reply.
LEMMA SuffixResolve ==
  ASSUME TypeInv, ResolveInv, tx'.kind = tx.kind, NEW k \in 1..Len(stack),
         Len(stack') = Len(stack) - k,
         \A i \in 1..(Len(stack) - k) : stack'[i] = stack[k + i]
  PROVE  ResolveInv'
<1>1. Len(stack) \in Nat
  BY SeqFacts DEF TypeInv
<1>2. ASSUME NEW i \in 1..Len(stack')
      PROVE  k + i \in 1..Len(stack) /\ k + i # 1 /\ stack'[i] = stack[k + i]
  BY <1>1
<1> QED
  BY <1>2 DEF ResolveInv

\* The invariant of sending and resolving.
LEMMA NextResolve == TypeInv /\ ResolveInv /\ [Next]_vars => ResolveInv'
<1> SUFFICES ASSUME TypeInv, ResolveInv, [Next]_vars
             PROVE  ResolveInv'
  OBVIOUS
<1>1. CASE UNCHANGED vars
  BY <1>1 DEF vars, ResolveInv
<1>2. ASSUME NEW nft \in Nfts, NEW via, NEW channel \in Channels, NEW callback \in BOOLEAN,
             UserSend(nft, via, channel, callback)
      PROVE  ResolveInv'
  <2>1. tx'.kind = "send" /\ Len(stack') = 1 /\ stack'[1].op = "sendNft"
    BY <1>2, UserSendTypes
  <2> QED
    BY <2>1 DEF ResolveInv
<1>3. ASSUME NEW packet \in PacketsIn, RecvPacket(packet)
      PROVE  ResolveInv'
  <2>1. tx'.kind = "receive"
    BY <1>3, ReceiveTypes
  <2> QED
    BY <2>1 DEF ResolveInv
<1>4. ASSUME NEW p \in store.packets, NoTx, Resolve(p)
      PROVE  ResolveInv'
  <2>1. tx'.kind = "resolve"
        /\ \A i \in 1..Len(stack') : stack'[i].op \in {"burn", "transfer", "ackCallback"}
    BY <1>4, ResolveTypes
  <2> QED
    BY <2>1 DEF ResolveInv
<1>5. CASE tx' = Idle
  BY <1>5 DEF ResolveInv, Idle
<1>6. CASE Continue
  <2>1. stack # <<>> /\ tx'.kind = tx.kind /\ Len(stack) \in Nat /\ Len(stack) >= 1
    BY <1>6, ContinueCases, ContinueKind
  <2>2. CASE \E new, msgs : Done(new, msgs) /\ Effect(Head(stack), new, msgs)
    BY <2>1, <2>2, DoneResolve
  <2>3. CASE Failed
    <3>1. CASE stack' = <<>>
      BY <3>1, NoMsgs DEF ResolveInv
    <3>2. CASE \E r \in 1..Len(stack) :
                 /\ Len(stack') = Len(stack) - r
                 /\ \A i \in 1..(Len(stack) - r) : stack'[i] = stack[r + i]
      BY <2>1, <3>2, SuffixResolve
    <3> QED
      BY <2>3, <3>1, <3>2, FailedFacts
  <2>4. CASE ReplySuccess
    <3>1. /\ 1 \in 1..Len(stack) /\ Len(stack') = Len(stack) - 1
          /\ \A i \in 1..(Len(stack) - 1) : stack'[i] = stack[1 + i]
      BY <2>1, <2>4, TailFacts DEF ReplySuccess, TypeInv
    <3> QED
      BY <2>1, <3>1, SuffixResolve
  <2> QED
    BY <1>6, <2>2, <2>3, <2>4, ContinueCases
<1> QED
  BY <1>1, <1>2, <1>3, <1>4, <1>5, <1>6, IdleTypes, CommitTypes DEF Next

\* A callback contract that fails on receiving undoes the transfer; one that fails on
\* an acknowledgement undoes nothing of the refund or the burn (CallbackFailure).
THEOREM FailingCallbacks == Spec => CallbackFailure
<1>1. Init => ReceiveInv /\ ResolveInv
  BY DEF Init, ReceiveInv, ResolveInv, Idle
<1>2. Spec => [](TypeInv /\ ReceiveInv /\ ResolveInv)
  BY <1>1, Types, NextReceive, NextResolve, PTL DEF Spec
<1> DEFINE Outcome ==
      stack # <<>> /\ CallbackFails(Head(stack)) =>
        IF tx.kind = "receive"
        THEN tx'.result = "error" /\ store' = tx.before /\ stack' = <<>>
        ELSE store'.packets = store.packets /\ tx'.result = tx.result
<1>3. ASSUME TypeInv, ReceiveInv, ResolveInv
      PROVE  Outcome
  <2> SUFFICES ASSUME stack # <<>>, CallbackFails(Head(stack))
               PROVE  IF tx.kind = "receive"
                      THEN tx'.result = "error" /\ store' = tx.before /\ stack' = <<>>
                      ELSE store'.packets = store.packets /\ tx'.result = tx.result
    OBVIOUS
  <2>1. /\ Len(stack) \in Nat /\ Len(stack) >= 1 /\ Head(stack) = stack[1]
        /\ stack[1].op = "callback" /\ Failed
    BY <1>3, SeqFacts DEF CallbackFails, TypeInv
  <2>2. CASE tx.kind = "receive"
    <3>1. InProgress
      BY <1>3, <2>2 DEF ReceiveInv
    <3> QED
      BY <1>3, <2>1, <2>2, <3>1, FailedReceive
  <2>3. CASE tx.kind # "receive"
    <3>1. tx.kind = "resolve"
      <4>1. tx.kind \in {"send", "resolve"}
        BY <1>3, <2>3 DEF TypeInv, TxOK, NoTx, Idle
      <4> QED
        BY <1>3, <2>1, <4>1 DEF ResolveInv
    <3>2. Len(stack) >= 2 /\ stack[2].op = "reply" /\ stack[2].saved = store
      BY <1>3, <2>1, <3>1 DEF ResolveInv
    <3>3. PICK r \in 1..Len(stack) :
            /\ stack[r].op = "reply" /\ store' = stack[r].saved
            /\ tx' = IF stack[r].id = "ack" THEN [tx EXCEPT !.result = "error"] ELSE tx
      BY <1>3, <2>1, <3>2, FailedFacts
    <3>4. r = 2
      BY <1>3, <2>1, <3>2, <3>3 DEF TypeInv
    <3>5. stack[r].id = "callback"
      BY <1>3, <3>1, <3>3 DEF ResolveInv
    <3> QED
      BY <2>3, <3>2, <3>3, <3>4, <3>5
  <2> QED
    BY <2>2, <2>3
<1>4. [](TypeInv /\ ReceiveInv /\ ResolveInv) => [][Outcome]_vars
  BY <1>3, PTL
<1> QED
  BY <1>2, <1>4, PTL DEF CallbackFailure


-----------------------------------------------------------------------------
(* The books.                                                              *)

\* Away, for a store and the NFTs the other chains hold.
AwayIn(st, R, n, c) ==
  \/ n.class # c /\ [nft |-> n, channel |-> c] \in R
  \/ \E p \in st.packets : p.nft = n /\ p.channel = c /\ Binds(p)

Out(st, R, n) == \E c \in Channels : AwayIn(st, R, n, c)

\* What a message will still do for an NFT: take it from the bridge or send it out;
\* burn it; mint it; enter its channel.
Moves(m, n) ==
  \/ m.op \in {"transfer", "burn", "receiveNft"} /\ m.nft = n
  \/ m.op = "redeem" /\ n \in PacketNfts(m.packet)
  \/ /\ m.op = "conjunction"
     /\ \E i \in 1..Len(m.operands) :
          m.operands[i].op = "redeem" /\ n \in PacketNfts(m.operands[i].packet)
Burns(m, n) == m.op = "burn" /\ m.nft = n
Mints(m, n) == m.op = "mintNft" /\ m.nft = n
Enters(m, n) == m.op = "addEntries" /\ n \in PacketNfts(m.packet)

\* An NFT that is away is escrowed, and its channel is noted.
Noted(st, R, n) ==
  \A c \in Channels : AwayIn(st, R, n, c) =>
    st.owner[n] = Ics721 /\ st.outgoing[n] = c /\ n.class \in st.registry

\* It is away but once.
Once(st, R, n) ==
  \A p \in st.packets : p.nft = n /\ Binds(p) =>
    /\ \A q \in st.packets : q.nft = n /\ Binds(q) => q = p
    /\ \A c \in Channels : n.class # c => [nft |-> n, channel |-> c] \notin R

\* Nothing else is escrowed for good, but what the bridge was given; and that is not away.
Escrowed(st, R, W, n) ==
  /\ st.owner[n] = Ics721 =>
       \/ Out(st, R, n)
       \/ n \in st.given
       \/ \E m \in W : Moves(m, n)
  /\ n \in st.given => st.owner[n] = Ics721 /\ ~ Out(st, R, n)

\* A voucher that is back on its own chain and still to be burned.
Returned(st, n) ==
  \E p \in st.packets : p.nft = n /\ p.channel = n.class /\ p.state = "result"

\* A voucher, its incoming channel and its metadata.
Voucher(st, R, W, n) ==
  /\ st.incoming[n] \in {n.class, NoChannel}
  /\ n.class # Home =>
       /\ st.incoming[n] = n.class => n \in st.metadata
       /\ n \in st.metadata =>
            \/ st.incoming[n] = n.class
            \/ \E m \in W : Mints(m, n)
            \/ \E m \in W : Enters(m, n)
       /\ st.owner[n] # NoOne =>
            \/ \E m \in W : Burns(m, n)
            \/ /\ n \in st.metadata
               /\ [nft |-> n, channel |-> n.class] \in R => Returned(st, n)

Book(st, R, W, n) ==
  Noted(st, R, n) /\ Once(st, R, n) /\ Escrowed(st, R, W, n) /\ Voucher(st, R, W, n)

Books(st, R, W) == \A n \in Nfts : Book(st, R, W, n)

-----------------------------------------------------------------------------
(* What changes one NFT leaves the books of the others alone.              *)

\* What messages do for an NFT, others do as well.
Keeps(W, V, n) ==
  /\ (\E m \in W : Moves(m, n)) => \E m \in V : Moves(m, n)
  /\ (\E m \in W : Burns(m, n)) => \E m \in V : Burns(m, n)
  /\ (\E m \in W : Mints(m, n)) => \E m \in V : Mints(m, n)
  /\ (\E m \in W : Enters(m, n)) => \E m \in V : Enters(m, n)

\* A message that does nothing for the NFT can go.
LEMMA KeepsDrop ==
  ASSUME NEW W, NEW V, NEW h, NEW n, W \subseteq V \cup {h},
         ~ Moves(h, n), ~ Burns(h, n), ~ Mints(h, n), ~ Enters(h, n)
  PROVE  Keeps(W, V, n)
<1>1. \A m \in W : m = h \/ m \in V
  OBVIOUS
<1> QED
  BY <1>1 DEF Keeps

\* The two stores say the same of an NFT.
Same(st, su, n) ==
  /\ su.owner[n] = st.owner[n] /\ su.outgoing[n] = st.outgoing[n]
  /\ su.incoming[n] = st.incoming[n] /\ (n \in su.metadata <=> n \in st.metadata)
  /\ n \in su.given <=> n \in st.given
  /\ st.registry \subseteq su.registry
  /\ \A p : p.nft = n => (p \in su.packets <=> p \in st.packets)

\* Then its book stays right.
LEMMA Frame ==
  ASSUME NEW st, NEW su, NEW R, NEW S, NEW W, NEW V, NEW n,
         Book(st, R, W, n), Same(st, su, n), Keeps(W, V, n),
         \A c : [nft |-> n, channel |-> c] \in S <=> [nft |-> n, channel |-> c] \in R
  PROVE  Book(su, S, V, n)
<1>1. \A c : AwayIn(su, S, n, c) <=> AwayIn(st, R, n, c)
  BY DEF AwayIn, Same
<1>2. Out(su, S, n) <=> Out(st, R, n)
  BY <1>1 DEF Out
<1>3. Returned(st, n) => Returned(su, n)
  BY DEF Returned, Same
<1>4. Noted(su, S, n)
  BY <1>1 DEF Book, Noted, Same
<1>5. Once(su, S, n)
  BY DEF Book, Once, Same
<1>6. Escrowed(su, S, V, n)
  BY <1>2 DEF Book, Escrowed, Same, Keeps
<1>7. Voucher(su, S, V, n)
  BY <1>3 DEF Book, Voucher, Same, Keeps
<1> QED
  BY <1>4, <1>5, <1>6, <1>7 DEF Book

\* Storage that says the same of every NFT.
LEMMA FrameAll ==
  ASSUME NEW st, NEW su, NEW R, NEW W, NEW V, Books(st, R, W),
         su.owner = st.owner, su.outgoing = st.outgoing, su.incoming = st.incoming,
         su.metadata = st.metadata, st.registry \subseteq su.registry, su.packets = st.packets,
         su.given = st.given, \A n \in Nfts : Keeps(W, V, n)
  PROVE  Books(su, R, V)
<1>1. \A n \in Nfts : Same(st, su, n)
  BY DEF Same
<1> QED
  BY <1>1, Frame DEF Books

\* An NFT is away on one channel only, and with nobody else.
LEMMA AwayOnce ==
  ASSUME NEW st, NEW R, NEW n, Noted(st, R, n), NEW c \in Channels, NEW d \in Channels,
         AwayIn(st, R, n, c), AwayIn(st, R, n, d)
  PROVE  c = d
BY DEF Noted

-----------------------------------------------------------------------------
(* One owner changes.                                                      *)

\* Names of accounts and channels that are told apart.
LEMMA Names ==
  /\ NoOne # Ics721 /\ NoOne \notin Senders /\ Ics721 \notin Senders
  /\ Accounts = Senders \cup {Ics721}
  /\ \A n \in Nfts : n.class # NoChannel \/ n.class = Home
  /\ \A n \in Nfts : n.class \in Channels => n.class # Home
BY NamesAssumption DEF Accounts, Senders, Nfts, Classes

\* What messages do for a voucher, others do as well.
KeepsVoucher(W, V, n) ==
  /\ (\E m \in W : Burns(m, n)) => \E m \in V : Burns(m, n)
  /\ (\E m \in W : Mints(m, n)) => \E m \in V : Mints(m, n)
  /\ (\E m \in W : Enters(m, n)) => \E m \in V : Enters(m, n)

\* Storage with another owner for one NFT.
LEMMA OwnerFields ==
  ASSUME NEW st \in Stores, NEW x \in Nfts, NEW who, NEW G, NEW su,
         su = [st EXCEPT !.owner[x] = who, !.given = G]
  PROVE  /\ su.owner[x] = who /\ \A n \in Nfts : n # x => su.owner[n] = st.owner[n]
         /\ su.outgoing = st.outgoing /\ su.incoming = st.incoming
         /\ su.metadata = st.metadata /\ su.registry = st.registry
         /\ su.packets = st.packets /\ su.given = G
BY DEF Stores

\* An NFT changes hands, and nobody named the bridge.
LEMMA OwnerOnly ==
  ASSUME NEW st \in Stores, NEW x, NEW who
  PROVE  [st EXCEPT !.owner[x] = who] = [st EXCEPT !.owner[x] = who, !.given = st.given]
BY DEF Stores

\* The other NFTs were given to the bridge or not as before.
GivenBut(st, G, x) == \A n \in Nfts : n # x => (n \in G <=> n \in st.given)

\* An NFT that is not away changes hands.
LEMMA GiveBooks ==
  ASSUME NEW st \in Stores, NEW R, NEW W, NEW V, Books(st, R, W),
         NEW x \in Nfts, NEW who \in Accounts, st.owner[x] # NoOne, ~ Out(st, R, x),
         \A n \in Nfts : n # x => Keeps(W, V, n), KeepsVoucher(W, V, x),
         NEW G, GivenBut(st, G, x), x \in G => who = Ics721,
         who = Ics721 => x \in G \/ \E m \in V : Moves(m, x),
         NEW su, su = [st EXCEPT !.owner[x] = who, !.given = G]
  PROVE  Books(su, R, V)
<1>1. /\ su.owner[x] = who /\ \A n \in Nfts : n # x => su.owner[n] = st.owner[n]
      /\ su.outgoing = st.outgoing /\ su.incoming = st.incoming
      /\ su.metadata = st.metadata /\ su.registry = st.registry
      /\ su.packets = st.packets /\ su.given = G
  BY DEF Stores
<1>2. ASSUME NEW n \in Nfts, n # x
      PROVE  Book(su, R, V, n)
  <2>1. Same(st, su, n)
    BY <1>1, <1>2 DEF Same, GivenBut
  <2> QED
    BY <1>2, <2>1, Frame DEF Books
<1>3. Book(su, R, V, x)
  <2>1. Book(st, R, W, x)
    BY DEF Books
  <2>2. who # NoOne
    BY Names
  <2>3. \A c : AwayIn(su, R, x, c) <=> AwayIn(st, R, x, c)
    BY <1>1 DEF AwayIn
  <2>4. Noted(su, R, x)
    BY <2>3 DEF Noted, Out
  <2>5. Once(su, R, x)
    BY <1>1, <2>1 DEF Book, Once
  <2>6. Escrowed(su, R, V, x)
    BY <1>1, <2>3 DEF Escrowed, Out
  <2>7. Voucher(su, R, V, x)
    <3>1. Returned(su, x) <=> Returned(st, x)
      BY <1>1 DEF Returned
    <3> QED
      BY <1>1, <2>1, <2>2, <3>1 DEF Book, Voucher, KeepsVoucher
  <2> QED
    BY <2>4, <2>5, <2>6, <2>7 DEF Book
<1> QED
  BY <1>2, <1>3 DEF Books

\* A voucher is minted.
LEMMA MintBooks ==
  ASSUME NEW st \in Stores, NEW R, NEW W, NEW V, Books(st, R, W),
         NEW x \in Nfts, NEW who \in Accounts, x.class # Home, st.owner[x] = NoOne,
         x \in st.metadata, [nft |-> x, channel |-> x.class] \notin R,
         \E m \in V : Enters(m, x),
         \A n \in Nfts : n # x => Keeps(W, V, n),
         NEW G, GivenBut(st, G, x), x \in G <=> who = Ics721,
         NEW su, su = [st EXCEPT !.owner[x] = who, !.given = G]
  PROVE  Books(su, R, V)
<1>1. /\ su.owner[x] = who /\ \A n \in Nfts : n # x => su.owner[n] = st.owner[n]
      /\ su.outgoing = st.outgoing /\ su.incoming = st.incoming
      /\ su.metadata = st.metadata /\ su.registry = st.registry
      /\ su.packets = st.packets /\ su.given = G
  BY DEF Stores
<1>2. ASSUME NEW n \in Nfts, n # x
      PROVE  Book(su, R, V, n)
  <2>1. Same(st, su, n)
    BY <1>1, <1>2 DEF Same, GivenBut
  <2> QED
    BY <1>2, <2>1, Frame DEF Books
<1>3. Book(su, R, V, x)
  <2>1. Book(st, R, W, x)
    BY DEF Books
  <2>2. who # NoOne /\ NoOne # Ics721
    BY Names
  <2>3. \A c : AwayIn(su, R, x, c) <=> AwayIn(st, R, x, c)
    BY <1>1 DEF AwayIn
  <2>4. ~ Out(su, R, x)
    BY <2>1, <2>2, <2>3 DEF Noted, Book, Out
  <2>5. Noted(su, R, x)
    BY <2>4 DEF Noted, Out
  <2>6. Once(su, R, x)
    BY <1>1, <2>1 DEF Book, Once
  <2>7. Escrowed(su, R, V, x)
    BY <1>1, <2>4 DEF Escrowed
  <2>8. Voucher(su, R, V, x)
    BY <1>1, <2>1, <2>2 DEF Book, Voucher
  <2> QED
    BY <2>5, <2>6, <2>7, <2>8 DEF Book
<1> QED
  BY <1>2, <1>3 DEF Books

\* A voucher is burned; what is kept of it stays.
LEMMA BurnBooks ==
  ASSUME NEW st \in Stores, NEW R, NEW W, NEW V, Books(st, R, W),
         NEW x \in Nfts, ~ Out(st, R, x), x \notin st.given,
         \A n \in Nfts : n # x => Keeps(W, V, n),
         (\E m \in W : Mints(m, x)) => \E m \in V : Mints(m, x),
         (\E m \in W : Enters(m, x)) => \E m \in V : Enters(m, x),
         NEW su, su = [st EXCEPT !.owner[x] = NoOne]
  PROVE  Books(su, R, V)
<1>1. /\ su.owner[x] = NoOne /\ \A n \in Nfts : n # x => su.owner[n] = st.owner[n]
      /\ su.outgoing = st.outgoing /\ su.incoming = st.incoming
      /\ su.metadata = st.metadata /\ su.registry = st.registry
      /\ su.packets = st.packets /\ su.given = st.given
  BY DEF Stores
<1>2. ASSUME NEW n \in Nfts, n # x
      PROVE  Book(su, R, V, n)
  <2>1. Same(st, su, n)
    BY <1>1, <1>2 DEF Same
  <2> QED
    BY <1>2, <2>1, Frame DEF Books
<1>3. Book(su, R, V, x)
  <2>1. Book(st, R, W, x)
    BY DEF Books
  <2>2. NoOne # Ics721
    BY Names
  <2>3. \A c : AwayIn(su, R, x, c) <=> AwayIn(st, R, x, c)
    BY <1>1 DEF AwayIn
  <2>4. Noted(su, R, x)
    BY <2>3 DEF Noted, Out
  <2>5. Once(su, R, x)
    BY <1>1, <2>1 DEF Book, Once
  <2>6. Escrowed(su, R, V, x)
    BY <1>1, <2>2 DEF Escrowed
  <2>7. Voucher(su, R, V, x)
    BY <1>1, <2>1 DEF Book, Voucher
  <2> QED
    BY <2>4, <2>5, <2>6, <2>7 DEF Book
<1> QED
  BY <1>2, <1>3 DEF Books

-----------------------------------------------------------------------------
(* The contract's own storage changes.                                     *)

\* The metadata of a packet is stored, its vouchers are still to be minted.
LEMMA MetadataBooks ==
  ASSUME NEW st \in Stores, NEW R, NEW W, NEW V, Books(st, R, W), NEW N,
         \A n \in N : \E m \in V : Mints(m, n),
         \A n \in Nfts : Keeps(W, V, n),
         NEW su, su = [st EXCEPT !.metadata = @ \cup N]
  PROVE  Books(su, R, V)
<1>1. /\ su.owner = st.owner /\ su.outgoing = st.outgoing /\ su.incoming = st.incoming
      /\ su.metadata = st.metadata \cup N /\ su.registry = st.registry
      /\ su.packets = st.packets /\ su.given = st.given
  BY DEF Stores
<1> SUFFICES ASSUME NEW n \in Nfts
             PROVE  Book(su, R, V, n)
  BY DEF Books
<1>2. Book(st, R, W, n) /\ Keeps(W, V, n)
  BY DEF Books
<1>3. CASE n \notin N
  <2>1. Same(st, su, n)
    BY <1>1, <1>3 DEF Same
  <2> QED
    BY <1>2, <2>1, Frame
<1>4. CASE n \in N
  <2>1. \A c : AwayIn(su, R, n, c) <=> AwayIn(st, R, n, c)
    BY <1>1 DEF AwayIn
  <2>2. Noted(su, R, n)
    BY <1>1, <1>2, <2>1 DEF Noted, Book
  <2>3. Once(su, R, n)
    BY <1>1, <1>2 DEF Book, Once
  <2>4. Escrowed(su, R, V, n)
    BY <1>1, <1>2, <2>1 DEF Escrowed, Book, Out, Keeps
  <2>5. Voucher(su, R, V, n)
    <3>1. Returned(su, n) <=> Returned(st, n)
      BY <1>1 DEF Returned
    <3> QED
      BY <1>1, <1>2, <1>4, <3>1 DEF Book, Voucher, Keeps
  <2> QED
    BY <2>2, <2>3, <2>4, <2>5 DEF Book
<1> QED
  BY <1>3, <1>4

\* The outgoing channel of NFTs is removed that are not away.
LEMMA RedeemedBooks ==
  ASSUME NEW st \in Stores, NEW R, NEW W, NEW V, Books(st, R, W), NEW N,
         \A n \in N : ~ Out(st, R, n),
         \A n \in Nfts : Keeps(W, V, n),
         NEW su, su = [st EXCEPT !.outgoing = SetAll(@, N, NoChannel)]
  PROVE  Books(su, R, V)
<1>1. /\ su.owner = st.owner /\ su.incoming = st.incoming
      /\ su.metadata = st.metadata /\ su.registry = st.registry
      /\ su.packets = st.packets /\ su.given = st.given
      /\ \A n \in Nfts : n \notin N => su.outgoing[n] = st.outgoing[n]
  BY DEF Stores, SetAll
<1> SUFFICES ASSUME NEW n \in Nfts
             PROVE  Book(su, R, V, n)
  BY DEF Books
<1>2. Book(st, R, W, n) /\ Keeps(W, V, n)
  BY DEF Books
<1>3. CASE n \notin N
  <2>1. Same(st, su, n)
    BY <1>1, <1>3 DEF Same
  <2> QED
    BY <1>2, <2>1, Frame
<1>4. CASE n \in N
  <2>1. \A c : AwayIn(su, R, n, c) <=> AwayIn(st, R, n, c)
    BY <1>1 DEF AwayIn
  <2>2. Noted(su, R, n)
    BY <1>4, <2>1 DEF Noted, Out
  <2>3. Once(su, R, n)
    BY <1>1, <1>2 DEF Book, Once
  <2>4. Escrowed(su, R, V, n)
    BY <1>1, <1>2, <2>1 DEF Escrowed, Book, Out, Keeps
  <2>5. Voucher(su, R, V, n)
    <3>1. Returned(su, n) <=> Returned(st, n)
      BY <1>1 DEF Returned
    <3> QED
      BY <1>1, <1>2, <3>1 DEF Book, Voucher, Keeps
  <2> QED
    BY <2>2, <2>3, <2>4, <2>5 DEF Book
<1> QED
  BY <1>3, <1>4

\* The incoming channel of new vouchers is entered.
LEMMA EnteredBooks ==
  ASSUME NEW st \in Stores, NEW R, NEW W, NEW V, Books(st, R, W), NEW N, NEW c,
         \A n \in N : n.class = c /\ n \in st.metadata,
         \A n \in Nfts : n \notin N => Keeps(W, V, n),
         \A n \in N : \A m \in W : ~ Moves(m, n) /\ ~ Burns(m, n) /\ ~ Mints(m, n),
         NEW su, su = [st EXCEPT !.incoming = SetAll(@, N, c)]
  PROVE  Books(su, R, V)
<1>1. /\ su.owner = st.owner /\ su.outgoing = st.outgoing
      /\ su.metadata = st.metadata /\ su.registry = st.registry
      /\ su.packets = st.packets /\ su.given = st.given
      /\ \A n \in Nfts : su.incoming[n] = IF n \in N THEN c ELSE st.incoming[n]
  BY DEF Stores, SetAll
<1> SUFFICES ASSUME NEW n \in Nfts
             PROVE  Book(su, R, V, n)
  BY DEF Books
<1>2. Book(st, R, W, n)
  BY DEF Books
<1>3. CASE n \notin N
  <2>1. Same(st, su, n)
    BY <1>1, <1>3 DEF Same
  <2> QED
    BY <1>2, <1>3, <2>1, Frame
<1>4. CASE n \in N
  <2>1. \A d : AwayIn(su, R, n, d) <=> AwayIn(st, R, n, d)
    BY <1>1 DEF AwayIn
  <2>2. Noted(su, R, n)
    BY <1>1, <1>2, <2>1 DEF Noted, Book
  <2>3. Once(su, R, n)
    BY <1>1, <1>2 DEF Book, Once
  <2>4. Escrowed(su, R, V, n)
    BY <1>1, <1>2, <1>4, <2>1 DEF Escrowed, Book, Out
  <2>5. Voucher(su, R, V, n)
    <3>1. Returned(su, n) <=> Returned(st, n)
      BY <1>1 DEF Returned
    <3> QED
      BY <1>1, <1>2, <1>4, <3>1 DEF Book, Voucher
  <2> QED
    BY <2>2, <2>3, <2>4, <2>5 DEF Book
<1> QED
  BY <1>3, <1>4

\* An NFT of the bridge that is not away is sent out.
LEMMA SentBooks ==
  ASSUME NEW st \in Stores, NEW R, NEW W, NEW V, Books(st, R, W),
         NEW x \in Nfts, NEW c \in Channels, st.owner[x] = Ics721, ~ Out(st, R, x),
         x \notin st.given,
         \A n \in Nfts : n # x => Keeps(W, V, n), KeepsVoucher(W, V, x),
         NEW p, p.nft = x, p.channel = c, p.state = "sent",
         NEW su,
         su.owner = st.owner, su.incoming = st.incoming, su.metadata = st.metadata,
         su.given = st.given, su.registry = st.registry \cup {x.class}, su.packets = st.packets \cup {p},
         su.outgoing[x] = c, \A n \in Nfts : n # x => su.outgoing[n] = st.outgoing[n]
  PROVE  Books(su, R, V)
<1>1. ASSUME NEW n \in Nfts, n # x
      PROVE  Book(su, R, V, n)
  <2>1. Same(st, su, n)
    BY <1>1 DEF Same
  <2> QED
    BY <1>1, <2>1, Frame DEF Books
<1>2. Book(su, R, V, x)
  <2>1. Book(st, R, W, x)
    BY DEF Books
  <2>2. Binds(p)
    BY DEF Binds
  <2>3. \A d \in Channels : AwayIn(su, R, x, d) <=> d = c
    BY <2>2 DEF AwayIn, Out
  <2>4. Noted(su, R, x)
    BY <2>3 DEF Noted
  <2>5. ASSUME NEW q \in st.packets, q.nft = x, Binds(q)
        PROVE  FALSE
    <3>1. AwayIn(st, R, x, q.channel) /\ q.channel \in Channels
      BY <2>5 DEF AwayIn, Stores
    <3> QED
      BY <3>1 DEF Out
  <2>6. \A d \in Channels : x.class # d => [nft |-> x, channel |-> d] \notin R
    BY DEF Out, AwayIn
  <2>7. Once(su, R, x)
    BY <2>5, <2>6 DEF Once
  <2>8. Escrowed(su, R, V, x)
    BY <2>3 DEF Escrowed, Out
  <2>9. Voucher(su, R, V, x)
    <3>1. Returned(st, x) => Returned(su, x)
      BY DEF Returned
    <3> QED
      BY <2>1, <3>1 DEF Book, Voucher, KeepsVoucher
  <2> QED
    BY <2>4, <2>7, <2>8, <2>9 DEF Book
<1> QED
  BY <1>1, <1>2 DEF Books

-----------------------------------------------------------------------------
(* Packets come to an end.                                                 *)

\* A packet that may still come back is the only one for its NFT, which is escrowed.
LEMMA BindingPacket ==
  ASSUME NEW st \in Stores, NEW R, NEW W, Books(st, R, W), NEW p \in st.packets, Binds(p)
  PROVE  /\ p.nft \in Nfts /\ p.channel \in Channels
         /\ st.owner[p.nft] = Ics721 /\ st.outgoing[p.nft] = p.channel
         /\ p.nft \notin st.given
         /\ \A q \in st.packets : q.nft = p.nft /\ Binds(q) => q = p
         /\ \A c \in Channels : p.nft.class # c => [nft |-> p.nft, channel |-> c] \notin R
<1>1. p.nft \in Nfts /\ p.channel \in Channels
  BY DEF Stores
<1>2. Book(st, R, W, p.nft)
  BY <1>1 DEF Books
<1>3. AwayIn(st, R, p.nft, p.channel)
  BY DEF AwayIn
<1>4. p.nft \notin st.given
  BY <1>1, <1>2, <1>3 DEF Book, Escrowed, Out
<1> QED
  BY <1>1, <1>2, <1>3, <1>4 DEF Book, Noted, Once

\* An NFT and a channel of another chain.
LEMMA HeldPair ==
  ASSUME NEW n, NEW m, NEW c, NEW d, [nft |-> n, channel |-> c] = [nft |-> m, channel |-> d]
  PROVE  n = m /\ c = d
<1>1. [nft |-> n, channel |-> c].channel = [nft |-> m, channel |-> d].channel
  OBVIOUS
<1> QED
  BY <1>1

\* One packet fewer says the same of the other NFTs.
LEMMA LessPackets ==
  ASSUME NEW st \in Stores, NEW p \in st.packets, NEW su,
         su.packets = st.packets \ {p}, su.owner = st.owner, su.registry = st.registry,
         su.given = st.given,
         \A n \in Nfts : n # p.nft =>
           /\ su.outgoing[n] = st.outgoing[n] /\ su.incoming[n] = st.incoming[n]
           /\ n \in su.metadata <=> n \in st.metadata
  PROVE  \A n \in Nfts : n # p.nft => Same(st, su, n)
BY DEF Same

\* Without a packet that failed, and its channel.
Refunded(st, p) == [st EXCEPT !.packets = @ \ {p}, !.outgoing[p.nft] = NoChannel]

\* A packet fails: its NFT goes back to its sender.
LEMMA FailBooks ==
  ASSUME NEW st \in Stores, NEW R, NEW V, Books(st, R, {}), NEW p \in st.packets,
         p.state # "result", \E m \in V : Moves(m, p.nft),
         NEW su, su = Refunded(st, p)
  PROVE  /\ Books(su, R, V) /\ su.owner[p.nft] = Ics721 /\ ~ Out(su, R, p.nft)
         /\ p.nft \notin su.given
<1> DEFINE x == p.nft
<1>1. Binds(p)
  BY DEF Binds
<1>2. /\ x \in Nfts /\ st.owner[x] = Ics721 /\ x \notin st.given
      /\ \A q \in st.packets : q.nft = x /\ Binds(q) => q = p
      /\ \A c \in Channels : x.class # c => [nft |-> x, channel |-> c] \notin R
  BY <1>1, BindingPacket
<1>3. /\ su.owner = st.owner /\ su.incoming = st.incoming
      /\ su.metadata = st.metadata /\ su.registry = st.registry
      /\ su.packets = st.packets \ {p} /\ su.given = st.given
      /\ \A n \in Nfts : n # x => su.outgoing[n] = st.outgoing[n]
  BY <1>2 DEF Stores, Refunded
<1>4. ASSUME NEW n \in Nfts, n # x
      PROVE  Book(su, R, V, n)
  <2>1. Same(st, su, n)
    BY <1>3, <1>4, LessPackets
  <2>2. Keeps({}, V, n)
    BY DEF Keeps
  <2> QED
    BY <2>1, <2>2, Frame DEF Books
<1>5. ~ Out(su, R, x)
  BY <1>2, <1>3 DEF Out, AwayIn
<1>6. Book(su, R, V, x)
  <2>1. Book(st, R, {}, x)
    BY <1>2 DEF Books
  <2>2. Noted(su, R, x)
    BY <1>5 DEF Noted, Out
  <2>3. Once(su, R, x)
    BY <1>2, <1>3 DEF Once
  <2>4. Escrowed(su, R, V, x)
    BY <1>2, <1>3 DEF Escrowed
  <2>5. Voucher(su, R, V, x)
    <3>1. Returned(st, x) => Returned(su, x)
      BY <1>3 DEF Returned
    <3> QED
      BY <1>3, <2>1, <3>1 DEF Book, Voucher
  <2> QED
    BY <2>2, <2>3, <2>4, <2>5 DEF Book
<1> QED
  BY <1>2, <1>3, <1>4, <1>5, <1>6 DEF Books

\* A voucher has returned to its own chain: it is forgotten, and is to be burned.
LEMMA ReturnBooks ==
  ASSUME NEW st \in Stores, NEW R, NEW V, Books(st, R, {}), NEW p \in st.packets,
         p.nft.class = p.channel, \E m \in V : Moves(m, p.nft) /\ Burns(m, p.nft),
         NEW su, su = Forget([st EXCEPT !.packets = @ \ {p}], p.nft)
  PROVE  /\ Books(su, R, V) /\ su.owner[p.nft] = Ics721 /\ ~ Out(su, R, p.nft)
         /\ p.nft \notin su.given
<1> DEFINE x == p.nft
<1>1. Binds(p)
  BY DEF Binds
<1>2. /\ x \in Nfts /\ st.owner[x] = Ics721 /\ x.class \in Channels /\ x \notin st.given
      /\ \A q \in st.packets : q.nft = x /\ Binds(q) => q = p
      /\ \A c \in Channels : x.class # c => [nft |-> x, channel |-> c] \notin R
  BY <1>1, BindingPacket
<1>3. /\ su.owner = st.owner /\ su.outgoing = st.outgoing
      /\ su.metadata = st.metadata \ {x} /\ su.registry = st.registry
      /\ su.packets = st.packets \ {p} /\ su.incoming[x] = NoChannel
      /\ su.given = st.given
      /\ \A n \in Nfts : n # x => su.incoming[n] = st.incoming[n]
  BY <1>2 DEF Stores, Forget
<1>4. ASSUME NEW n \in Nfts, n # x
      PROVE  Book(su, R, V, n)
  <2>1. Same(st, su, n)
    BY <1>3, <1>4, LessPackets
  <2>2. Keeps({}, V, n)
    BY DEF Keeps
  <2> QED
    BY <2>1, <2>2, Frame DEF Books
<1>5. ~ Out(su, R, x)
  BY <1>2, <1>3 DEF Out, AwayIn
<1>6. Book(su, R, V, x)
  <2>1. Noted(su, R, x)
    BY <1>5 DEF Noted, Out
  <2>2. Once(su, R, x)
    BY <1>2, <1>3 DEF Once
  <2>3. Escrowed(su, R, V, x)
    BY <1>2, <1>3 DEF Escrowed
  <2>4. x.class # NoChannel
    BY <1>2, NamesAssumption
  <2>5. Voucher(su, R, V, x)
    BY <1>3, <2>4 DEF Voucher
  <2> QED
    BY <2>1, <2>2, <2>3, <2>5 DEF Book
<1> QED
  BY <1>2, <1>3, <1>4, <1>5, <1>6 DEF Books

\* A packet has arrived at another chain: the NFT stays escrowed.
LEMMA ArrivedBooks ==
  ASSUME NEW st \in Stores, NEW R, NEW V, Books(st, R, {}), NEW p \in st.packets,
         p.state = "result", p.nft.class # p.channel,
         NEW su, su = [st EXCEPT !.packets = @ \ {p}]
  PROVE  Books(su, R, V)
<1>1. ~ Binds(p)
  BY DEF Binds
<1>2. /\ su.owner = st.owner /\ su.outgoing = st.outgoing /\ su.incoming = st.incoming
      /\ su.metadata = st.metadata /\ su.registry = st.registry
      /\ su.packets = st.packets \ {p} /\ su.given = st.given
  BY DEF Stores
<1> SUFFICES ASSUME NEW n \in Nfts
             PROVE  Book(su, R, V, n)
  BY DEF Books
<1>3. Book(st, R, {}, n)
  BY DEF Books
<1>4. \A c : AwayIn(su, R, n, c) <=> AwayIn(st, R, n, c)
  BY <1>1, <1>2 DEF AwayIn
<1>5. Noted(su, R, n)
  BY <1>2, <1>3, <1>4 DEF Noted, Book
<1>6. Once(su, R, n)
  BY <1>2, <1>3 DEF Once, Book
<1>7. Escrowed(su, R, V, n)
  BY <1>2, <1>3, <1>4 DEF Escrowed, Book, Out
<1>8. Voucher(su, R, V, n)
  <2>1. Returned(st, n) => Returned(su, n)
    BY <1>2 DEF Returned
  <2> QED
    BY <1>2, <1>3, <2>1 DEF Voucher, Book
<1> QED
  BY <1>5, <1>6, <1>7, <1>8 DEF Book

\* The other chain has answered.
LEMMA AnswerBooks ==
  ASSUME NEW st \in Stores, NEW R, Books(st, R, {}), NEW p \in st.packets, p.state = "sent",
         NEW answer, NEW su, NEW S,
         su = [st EXCEPT !.packets = (@ \ {p}) \cup {[p EXCEPT !.state = answer]}],
         S = IF answer = "result" THEN R \cup {[nft |-> p.nft, channel |-> p.channel]} ELSE R
  PROVE  Books(su, S, {})
<1> DEFINE q == [p EXCEPT !.state = answer]
           x == p.nft
<1>1. p \in SentPackets
  BY DEF Stores, SentPackets, Senders
<1>2. q.nft = x /\ q.channel = p.channel /\ q.state = answer
  BY <1>1 DEF SentPackets
<1>3. /\ su.owner = st.owner /\ su.outgoing = st.outgoing /\ su.incoming = st.incoming
      /\ su.metadata = st.metadata /\ su.registry = st.registry
      /\ su.packets = (st.packets \ {p}) \cup {q} /\ su.given = st.given
  BY DEF Stores
<1>4. Binds(p)
  BY DEF Binds
<1>5. /\ x \in Nfts /\ st.owner[x] = Ics721 /\ p.channel \in Channels
      /\ x \notin st.given
      /\ \A r \in st.packets : r.nft = x /\ Binds(r) => r = p
      /\ \A c \in Channels : x.class # c => [nft |-> x, channel |-> c] \notin R
  BY <1>4, BindingPacket
<1> HIDE DEF q
<1>6. ASSUME NEW n \in Nfts, n # x
      PROVE  Book(su, S, {}, n)
  <2>1. Same(st, su, n)
    BY <1>2, <1>3, <1>6 DEF Same
  <2>2. \A c : [nft |-> n, channel |-> c] \in S <=> [nft |-> n, channel |-> c] \in R
    BY <1>6
  <2>3. Keeps({}, {}, n)
    BY DEF Keeps
  <2> QED
    BY <2>1, <2>2, <2>3, Frame DEF Books
<1>7. Book(su, S, {}, x)
  <2>1. Book(st, R, {}, x)
    BY <1>5 DEF Books
  <2>2. Binds(q) <=> answer # "result" \/ x.class = p.channel
    BY <1>2 DEF Binds
  <2>3. ASSUME NEW c \in Channels
        PROVE  /\ AwayIn(su, S, x, c) <=> c = p.channel
               /\ AwayIn(st, R, x, c) <=> c = p.channel
    <3>1. AwayIn(st, R, x, c) <=> c = p.channel
      BY <1>4, <1>5 DEF AwayIn
    <3>2. (\E r \in su.packets : r.nft = x /\ r.channel = c /\ Binds(r))
            <=> c = p.channel /\ Binds(q)
      BY <1>2, <1>3, <1>5
    <3>3. x.class # c /\ [nft |-> x, channel |-> c] \in S
            <=> x.class # c /\ answer = "result" /\ c = p.channel
      BY <1>5
    <3>4. AwayIn(su, S, x, c) <=> c = p.channel
      BY <2>2, <3>2, <3>3 DEF AwayIn
    <3> QED
      BY <3>1, <3>4
  <2>4. Noted(su, S, x)
    BY <1>3, <2>1, <2>3 DEF Noted, Book
  <2>5. Once(su, S, x)
    <3> SUFFICES ASSUME NEW r \in su.packets, r.nft = x, Binds(r)
                 PROVE  /\ \A s \in su.packets : s.nft = x /\ Binds(s) => s = r
                        /\ \A c \in Channels : x.class # c => [nft |-> x, channel |-> c] \notin S
      BY DEF Once
    <3>1. r = q /\ Binds(q)
      BY <1>3, <1>5
    <3>2. \A s \in su.packets : s.nft = x /\ Binds(s) => s = q
      BY <1>3, <1>5
    <3>3. \A c \in Channels : x.class # c => [nft |-> x, channel |-> c] \notin S
      BY <1>5, <2>2, <3>1
    <3> QED
      BY <3>1, <3>2, <3>3
  <2>6. Escrowed(su, S, {}, x)
    BY <1>3, <1>5, <2>3 DEF Escrowed, Out
  <2>7. Voucher(su, S, {}, x)
    <3>1. Returned(st, x) => Returned(su, x)
      BY <1>3 DEF Returned
    <3>2. answer = "result" /\ p.channel = x.class => Returned(su, x)
      BY <1>2, <1>3 DEF Returned
    <3>3. [nft |-> x, channel |-> x.class] \in S =>
            \/ [nft |-> x, channel |-> x.class] \in R
            \/ answer = "result" /\ p.channel = x.class
      <4>1. CASE answer = "result"
        <5>1. \A m \in S : m \in R \/ m = [nft |-> x, channel |-> p.channel]
          BY <4>1
        <5> QED
          BY <4>1, <5>1, HeldPair
      <4>2. CASE answer # "result"
        BY <4>2
      <4> QED
        BY <4>1, <4>2
    <3> QED
      BY <1>3, <2>1, <3>1, <3>2, <3>3 DEF Book, Voucher
  <2> QED
    BY <2>4, <2>5, <2>6, <2>7 DEF Book
<1> QED
  BY <1>6, <1>7 DEF Books

\* The NFT of a voucher that is gone is released on its own chain.
LEMMA ReleaseBooks ==
  ASSUME NEW st \in Stores, NEW R, NEW W, Books(st, R, W), NEW x \in Nfts,
         st.owner[x] = NoOne, NEW S, S = R \cup {[nft |-> x, channel |-> x.class]}
  PROVE  Books(st, S, W)
<1> SUFFICES ASSUME NEW n \in Nfts
             PROVE  Book(st, S, W, n)
  BY DEF Books
<1>1. Book(st, R, W, n)
  BY DEF Books
<1>2. \A c : [nft |-> n, channel |-> c] \in S =>
               [nft |-> n, channel |-> c] \in R \/ (n = x /\ c = n.class)
  <2>1. \A r \in S : r \in R \/ r = [nft |-> x, channel |-> x.class]
    OBVIOUS
  <2> QED
    BY <2>1, HeldPair
<1>3. \A c : AwayIn(st, S, n, c) <=> AwayIn(st, R, n, c)
  BY <1>2 DEF AwayIn
<1>4. Noted(st, S, n)
  BY <1>1, <1>3 DEF Book, Noted
<1>5. Once(st, S, n)
  BY <1>1, <1>2 DEF Book, Once
<1>6. Escrowed(st, S, W, n)
  BY <1>1, <1>3 DEF Book, Escrowed, Out
<1>7. Voucher(st, S, W, n)
  BY <1>1, <1>2 DEF Book, Voucher
<1> QED
  BY <1>4, <1>5, <1>6, <1>7 DEF Book

\* What the chain at the end of a channel no longer holds.
Arriving(R, S, N, c) ==
  /\ S \subseteq R /\ N \subseteq Nfts
  /\ \A n \in Nfts : \A d : [nft |-> n, channel |-> d] \in R \ S => n \in N /\ d = c

\* NFTs are on their way from the other chain: those that come home are to be handed out.
LEMMA ArriveBooks ==
  ASSUME NEW st \in Stores, NEW R, NEW V, Books(st, R, {}), NEW N, NEW c, NEW S,
         Arriving(R, S, N, c), \A n \in N : n.class # c => \E m \in V : Moves(m, n)
  PROVE  Books(st, S, V)
<1> USE DEF Arriving
<1> SUFFICES ASSUME NEW n \in Nfts
             PROVE  Book(st, S, V, n)
  BY DEF Books
<1>1. Book(st, R, {}, n)
  BY DEF Books
<1>2. \A d : AwayIn(st, S, n, d) => AwayIn(st, R, n, d)
  BY DEF AwayIn
<1>3. ASSUME NEW d, AwayIn(st, R, n, d), ~ AwayIn(st, S, n, d)
      PROVE  n \in N /\ n.class # c
  BY <1>3 DEF AwayIn
<1>4. Noted(st, S, n)
  BY <1>1, <1>2 DEF Noted, Book
<1>5. Once(st, S, n)
  BY <1>1 DEF Once, Book
<1>6. Escrowed(st, S, V, n)
  <2>1. Escrowed(st, R, {}, n)
    BY <1>1 DEF Book
  <2>2. n \in st.given => st.owner[n] = Ics721 /\ ~ Out(st, S, n)
    BY <1>2, <2>1 DEF Escrowed, Out
  <2>3. Out(st, R, n) => Out(st, S, n) \/ \E m \in V : Moves(m, n)
    <3>1. ASSUME NEW d \in Channels, AwayIn(st, R, n, d)
          PROVE  Out(st, S, n) \/ \E m \in V : Moves(m, n)
      BY <1>3, <3>1 DEF Out
    <3> QED
      BY <3>1 DEF Out
  <2> QED
    BY <2>1, <2>2, <2>3 DEF Escrowed
<1>7. Voucher(st, S, V, n)
  BY <1>1 DEF Voucher, Book
<1> QED
  BY <1>4, <1>5, <1>6, <1>7 DEF Book

-----------------------------------------------------------------------------
(* The books while a transaction runs.                                     *)

Of(msgs) == {msgs[i] : i \in 1..Len(msgs)}
Waiting == Of(stack)
Rest == {stack[i] : i \in 2..Len(stack)}

FirstOps == {"conjunction", "proxy"}
NftOps == {"redeem", "create", "instantiate", "mint", "transfer", "mintNft", "burn"}
CallOps == {"callback", "ackCallback", "sendNft", "receiveNft", "pause"}

\* Messages execute in the order of their ranks.
Rank(m) ==
  CASE m.op \in FirstOps -> 0
    [] m.op \in NftOps -> 1
    [] m.op \in CallOps -> 2
    [] m.op \in EntriesOps -> 3
    [] OTHER -> 4

\* Only those that redeem or create the NFTs of a packet have equals.
Ordered ==
  \A i, j \in 1..Len(stack) : i < j =>
    \/ Rank(stack[i]) < Rank(stack[j])
    \/ tx.kind = "receive" /\ Rank(stack[i]) = 1 /\ Rank(stack[j]) = 1

\* An NFT to be transferred, burned or sent out is not away, and was not given to the
\* bridge unless that is what the transfer is for.  What is sent is sent at once.
CommonMsg(m) ==
  /\ m.op \in {"transfer", "burn", "receiveNft"} => ~ Out(store, remote, m.nft)
  /\ m.op \in {"burn", "receiveNft"} => m.nft \notin store.given
  /\ m.op = "transfer" => m.nft \notin store.given \/ m.to = Ics721
  /\ m.op \in {"sendNft", "receiveNft"} => m = Head(stack)

\* The packet brings back NFTs that went out on its channel.
ComesBack == tx.packet.class # tx.packet.channel

\* What the messages of a receive are about.
ReceiveMsg(m) ==
  /\ m.op \notin {"burn", "ackCallback"}
  /\ m.op \in PacketOps => m.packet = tx.packet
  /\ m.op \in {"redeem", "transfer", "redeemEntries"} => ComesBack
  /\ m.op \in {"create", "mint", "mintNft", "addEntries"} => ~ ComesBack
  /\ m.op \in {"transfer", "mintNft"} =>
       m.nft \in PacketNfts(tx.packet) /\ m.to = tx.packet.receiver
  /\ m.op = "mintNft" => m.nft \in store.metadata
  /\ m.op \in {"conjunction", "redeem"} /\ ComesBack =>
       \A n \in PacketNfts(tx.packet) :
         n \in store.given => tx.packet.receiver = Ics721
  /\ m.op \in {"sendNft", "receiveNft"} => m.nft \notin BeingRedeemed
  /\ m.op = "conjunction" =>
       m.operands = Operands(tx.packet) /\ (IsRedemption(tx.packet) <=> ComesBack)
  /\ m.op \in FirstOps => store = tx.before

SendMsg(m) == m.op \in {"sendNft", "receiveNft"}

\* The refund or the burn works; what the callback contract does can be undone.
ResolveMsg(m) ==
  /\ m.op \in {"transfer", "burn", "reply"} \cup CallOps
  /\ m.op \in {"transfer", "burn"} => store.owner[m.nft] = Ics721
  /\ m.op = "transfer" => m.to \in Senders
  /\ m.op \in CallOps \ {"ackCallback"} => \E r \in Waiting : r.op = "reply"
  /\ m.op = "reply" => Books(m.saved, remote, {})

MsgInv(m) ==
  /\ CommonMsg(m)
  /\ tx.kind = "receive" => ReceiveMsg(m)
  /\ tx.kind = "send" => SendMsg(m)
  /\ tx.kind = "resolve" => ResolveMsg(m)

\* The message will give the receiver the NFT of a packet.
Gives(m, n) ==
  \/ m.op \in {"conjunction", "redeem", "create", "mint"}
  \/ m.op \in {"transfer", "mintNft"} /\ m.nft = n

\* The receiver gets every NFT of the packet, and has it when the callback contract is
\* called; the metadata of a new voucher is stored.
Served ==
  \A n \in PacketNfts(tx.packet) :
    \/ \E m \in Waiting : Gives(m, n)
    \/ /\ ~ ComesBack => n \in store.metadata
       /\ (\E m \in Waiting : m.op = "callback") => store.owner[n] = tx.packet.receiver

\* Meanwhile the other chain has none of them, and none is away.
Missing ==
  \A n \in PacketNfts(tx.packet) :
    /\ [nft |-> n, channel |-> tx.packet.channel] \notin remote
    /\ ComesBack => ~ Out(store, remote, n)

Live ==
  /\ Books(store, remote, Waiting) /\ Ordered
  /\ \A m \in Waiting : MsgInv(m)
  /\ tx.kind = "receive" => Missing /\ Served

\* The NFTs on other chains when the transaction began.
Held ==
  remote \cup (IF tx.kind = "receive"
               THEN {[nft |-> n, channel |-> tx.packet.channel] : n \in PacketNfts(tx.packet)}
               ELSE {})

\* A receive or a send that failed.
Undone ==
  /\ stack = <<>> /\ store = tx.before
  /\ \/ tx.kind = "receive" /\ tx.result = "error"
     \/ tx.kind = "send" /\ tx.result = "reverted"

Going == tx.result \in {"none", "ok"} /\ Live

BooksInv ==
  /\ NoTx => Books(store, remote, {})
  /\ ~ NoTx => Books(tx.before, Held, {}) /\ (Undone \/ Going)

-----------------------------------------------------------------------------
(* The stack.                                                              *)

\* What waits before and after a message is executed.
LEMMA DoneWaiting ==
  ASSUME TypeInv, stack # <<>>, NEW new, NEW msgs, IsSeq(msgs), Done(new, msgs)
  PROVE  /\ Waiting = {Head(stack)} \cup Rest /\ Waiting' = Of(msgs) \cup Rest
         /\ store' = new /\ tx' = tx /\ remote' = remote
<1> DEFINE k == Len(msgs)
           l == Len(stack)
<1>1. /\ k \in Nat /\ l \in Nat /\ l >= 1 /\ Head(stack) = stack[1]
      /\ Len(stack') = k + l - 1
      /\ \A i \in 1..Len(stack') : stack'[i] = IF i <= k THEN msgs[i] ELSE stack[i - k + 1]
  BY NewStack
<1>2. Waiting = {Head(stack)} \cup Rest
  <2>1. \A i \in 1..l : i = 1 \/ i \in 2..l
    BY <1>1
  <2> QED
    BY <1>1, <2>1 DEF Waiting, Of, Rest
<1>3. ASSUME NEW m \in Waiting'
      PROVE  m \in Of(msgs) \cup Rest
  <2>1. PICK i \in 1..Len(stack') : m = stack'[i]
    BY <1>3 DEF Waiting, Of
  <2>2. CASE i <= k
    BY <1>1, <2>1, <2>2 DEF Of
  <2>3. CASE i > k
    <3>1. i - k + 1 \in 2..l
      BY <1>1, <2>1, <2>3
    <3>2. m = stack[i - k + 1]
      BY <1>1, <2>1, <2>3
    <3> HIDE DEF k, l
    <3>3. m \in Rest
      BY <3>1, <3>2 DEF Rest, l
    <3> QED
      BY <3>3
  <2> QED
    BY <1>1, <2>1, <2>2, <2>3
<1>4. ASSUME NEW m \in Of(msgs)
      PROVE  m \in Waiting'
  <2>1. PICK i \in 1..k : m = msgs[i]
    BY <1>4 DEF Of
  <2>2. i \in 1..Len(stack') /\ stack'[i] = m
    BY <1>1, <2>1
  <2> QED
    BY <2>2 DEF Waiting, Of
<1>5. ASSUME NEW m \in Rest
      PROVE  m \in Waiting'
  <2>1. PICK i \in 2..l : m = stack[i]
    BY <1>5 DEF Rest
  <2> DEFINE j == i + k - 1
  <2>2. j \in 1..Len(stack') /\ ~ (j <= k) /\ j - k + 1 = i
    BY <1>1, <2>1
  <2>3. stack'[j] = m
    <3> HIDE DEF j
    <3> QED  BY <1>1, <2>1, <2>2
  <2> QED
    BY <2>2, <2>3 DEF Waiting, Of
<1> QED
  BY <1>2, <1>3, <1>4, <1>5 DEF Done

\* Ranks are what they are of operations.
LEMMA Ranks ==
  ASSUME NEW m
  PROVE  /\ Rank(m) \in 0..4
         /\ Rank(m) = 0 <=> m.op \in FirstOps
         /\ Rank(m) = 1 <=> m.op \in NftOps
         /\ Rank(m) = 2 <=> m.op \in CallOps
         /\ Rank(m) = 3 <=> m.op \in EntriesOps
<1>1. CASE m.op \in FirstOps
  BY <1>1 DEF Rank, FirstOps, NftOps, CallOps, EntriesOps
<1>2. CASE m.op \in NftOps
  BY <1>2 DEF Rank, FirstOps, NftOps, CallOps, EntriesOps
<1>3. CASE m.op \in CallOps
  BY <1>3 DEF Rank, FirstOps, NftOps, CallOps, EntriesOps
<1>4. CASE m.op \in EntriesOps
  BY <1>4 DEF Rank, FirstOps, NftOps, CallOps, EntriesOps
<1>5. CASE m.op \notin FirstOps \cup NftOps \cup CallOps \cup EntriesOps
  BY <1>5 DEF Rank, FirstOps, NftOps, CallOps, EntriesOps
<1> QED
  BY <1>1, <1>2, <1>3, <1>4, <1>5

\* What can still be waiting when a message executes.
LEMMA RestOps ==
  ASSUME TypeInv, stack # <<>>, Ordered, NEW m \in Rest
  PROVE  /\ m.op \notin FirstOps
         /\ Head(stack).op \in CallOps => m.op \notin NftOps \cup CallOps
         /\ Head(stack).op \in EntriesOps => m.op \notin NftOps \cup CallOps \cup EntriesOps
         /\ tx.kind # "receive" /\ Head(stack).op \in NftOps => m.op \notin NftOps
<1>1. Len(stack) \in Nat /\ Len(stack) >= 1 /\ Head(stack) = stack[1]
  BY SeqFacts DEF TypeInv
<1>2. PICK j \in 2..Len(stack) : m = stack[j]
  BY DEF Rest
<1>3. 1 \in 1..Len(stack) /\ j \in 1..Len(stack) /\ 1 < j
  BY <1>1, <1>2
<1>4. \/ Rank(stack[1]) < Rank(m)
      \/ tx.kind = "receive" /\ Rank(stack[1]) = 1 /\ Rank(m) = 1
  BY <1>2, <1>3 DEF Ordered
<1>5. Rank(m) \in 0..4 /\ Rank(stack[1]) \in 0..4
  BY Ranks
<1>6. Rank(m) # 0
  BY <1>4, <1>5
<1>7. Rank(stack[1]) = 2 => Rank(m) \notin {1, 2}
  BY <1>4, <1>5
<1>8. Rank(stack[1]) = 3 => Rank(m) \notin {1, 2, 3}
  BY <1>4, <1>5
<1>9. tx.kind # "receive" /\ Rank(stack[1]) = 1 => Rank(m) # 1
  BY <1>4, <1>5
<1> QED
  BY <1>1, <1>6, <1>7, <1>8, <1>9, Ranks

\* Nothing waits after a reply.
LEMMA ReplyRest ==
  ASSUME TypeInv, Ordered, NEW i \in 1..Len(stack), stack[i].op = "reply"
  PROVE  i = Len(stack)
<1>1. Len(stack) \in Nat
  BY SeqFacts DEF TypeInv
<1>2. CASE i < Len(stack)
  <2>1. \/ Rank(stack[i]) < Rank(stack[Len(stack)])
        \/ Rank(stack[i]) = 1
    BY <1>1, <1>2 DEF Ordered
  <2>2. Rank(stack[i]) = 4
    BY DEF Rank, FirstOps, NftOps, CallOps, EntriesOps
  <2>3. Rank(stack[Len(stack)]) \in 0..4
    BY Ranks
  <2> QED
    BY <2>1, <2>2, <2>3
<1> QED
  BY <1>1, <1>2

\* Messages of the rank of the one they replace.
LEMMA OrderedReplace ==
  ASSUME TypeInv, Ordered, stack # <<>>, NEW new, NEW msgs, IsSeq(msgs), Done(new, msgs),
         \A i \in 1..Len(msgs) : Rank(msgs[i]) = Rank(Head(stack)),
         \/ Len(msgs) <= 1
         \/ tx.kind = "receive" /\ Rank(Head(stack)) = 1
  PROVE  Ordered'
<1> DEFINE k == Len(msgs)
           l == Len(stack)
<1>1. /\ k \in Nat /\ l \in Nat /\ l >= 1 /\ Head(stack) = stack[1]
      /\ Len(stack') = k + l - 1
      /\ \A i \in 1..Len(stack') : stack'[i] = IF i <= k THEN msgs[i] ELSE stack[i - k + 1]
  BY NewStack
<1>2. tx' = tx
  BY DEF Done
<1> SUFFICES ASSUME NEW i \in 1..Len(stack'), NEW j \in 1..Len(stack'), i < j
             PROVE  \/ Rank(stack'[i]) < Rank(stack'[j])
                    \/ tx.kind = "receive" /\ Rank(stack'[i]) = 1 /\ Rank(stack'[j]) = 1
  BY <1>2 DEF Ordered, Rank, FirstOps, NftOps, CallOps, EntriesOps
<1> HIDE DEF k, l
<1>3. CASE j <= k
  <2>1. Rank(stack'[i]) = Rank(stack[1]) /\ Rank(stack'[j]) = Rank(stack[1])
    BY <1>1, <1>3 DEF k
  <2>2. k > 1
    BY <1>1, <1>3
  <2> QED
    BY <1>1, <2>1, <2>2 DEF k
<1>4. CASE i <= k /\ j > k
  <2>1. Rank(stack'[i]) = Rank(stack[1])
    BY <1>1, <1>4 DEF k
  <2>2. j - k + 1 \in 2..l /\ stack'[j] = stack[j - k + 1]
    BY <1>1, <1>4
  <2>3. 1 \in 1..l /\ j - k + 1 \in 1..l /\ 1 < j - k + 1
    BY <1>1, <2>2
  <2> QED
    BY <2>1, <2>2, <2>3 DEF Ordered, l
<1>5. CASE i > k
  <2>1. /\ i - k + 1 \in 1..l /\ stack'[i] = stack[i - k + 1]
        /\ j - k + 1 \in 1..l /\ stack'[j] = stack[j - k + 1]
        /\ i - k + 1 < j - k + 1
    BY <1>1, <1>5
  <2> QED
    BY <2>1 DEF Ordered, l
<1> QED
  BY <1>1, <1>3, <1>4, <1>5

-----------------------------------------------------------------------------
(* A message works.                                                        *)

\* The NFTs of a packet.
LEMMA PacketNftsIn ==
  ASSUME NEW packet \in PacketsIn
  PROVE  /\ PacketNfts(packet) \subseteq Nfts /\ PacketNfts(packet) # {}
         /\ \A n \in PacketNfts(packet) : n.class = packet.class
<1>1. /\ packet.tokens \in Seq(Tokens) /\ DOMAIN packet.tokens = 1..Len(packet.tokens)
      /\ \A i \in DOMAIN packet.tokens : NftOf(packet, i) \in Nfts
  BY PacketTokens
<1>2. 1 \in DOMAIN packet.tokens
  <2>1. packet.tokens \in {<<t>> : t \in Tokens} \cup {<<t, u>> : t, u \in Tokens}
    BY DEF PacketsIn
  <2> QED
    BY <1>1, <2>1
<1>3. PacketNfts(packet) \subseteq Nfts
  BY <1>1 DEF PacketNfts
<1>4. NftOf(packet, 1) \in PacketNfts(packet)
  BY <1>2 DEF PacketNfts
<1>5. ASSUME NEW i \in DOMAIN packet.tokens
      PROVE  NftOf(packet, i).class = packet.class
  BY DEF NftOf
<1>6. \A n \in PacketNfts(packet) : n.class = packet.class
  BY <1>5 DEF PacketNfts
<1> QED
  BY <1>3, <1>4, <1>6

\* The kinds of a transaction.
LEMMA TxKinds ==
  ASSUME TypeInv, ~ NoTx
  PROVE  /\ tx.kind \in {"send", "receive", "resolve"} /\ tx.before \in Stores
         /\ tx.result \in Results
         /\ tx.kind = "receive" => tx.packet \in PacketsIn
         /\ tx.kind = "resolve" => tx.packet \in SentPackets
BY DEF TypeInv, TxOK, NoTx

\* When the message that executes gives the bridge something, no transfer or burn that
\* waits is concerned: none waits, or all transfers are to the bridge.
GivenStep(new) ==
  \/ new.given = store.given
  \/ Head(stack).op \in CallOps
  \/ tx.kind = "receive" /\ tx.packet.receiver = Ics721

\* The messages that still wait stay what they were about.
LEMMA RestInv ==
  ASSUME TypeInv, Live, ~ NoTx, stack # <<>>, NEW new, NEW msgs, IsSeq(msgs),
         Done(new, msgs), Head(stack).op # "reply",
         store.metadata \subseteq new.metadata \/ tx.kind # "receive",
         \A n \in Nfts : Out(new, remote, n) =>
           Out(store, remote, n) \/ Head(stack).op = "receiveNft",
         GivenStep(new), NEW m \in Rest
  PROVE  MsgInv(m)'
<1>1. /\ Waiting = {Head(stack)} \cup Rest /\ Waiting' = Of(msgs) \cup Rest
      /\ store' = new /\ tx' = tx /\ remote' = remote
  BY DoneWaiting
<1>2. MsgInv(m) /\ MsgInv(Head(stack)) /\ MsgOK(m)
  <2>1. \A h \in Waiting : MsgOK(h)
    BY DEF TypeInv, Waiting, Of
  <2> QED
    BY <1>1, <2>1 DEF Live
<1>3. Ordered
  BY DEF Live
<1>4. /\ m.op \notin FirstOps
      /\ Head(stack).op \in CallOps => m.op \notin NftOps \cup CallOps
      /\ tx.kind # "receive" /\ Head(stack).op \in NftOps => m.op \notin NftOps
  BY <1>3, RestOps
<1>5. m.op \notin {"sendNft", "receiveNft"}
  <2>1. m.op \in {"sendNft", "receiveNft"} => m = Head(stack)
    BY <1>2 DEF MsgInv, CommonMsg
  <2> QED
    BY <1>4, <2>1 DEF CallOps
<1>6. m.op \in NftOps =>
        /\ Head(stack).op # "receiveNft"
        /\ \/ new.given = store.given
           \/ tx.kind = "receive" /\ tx.packet.receiver = Ics721
  BY <1>4 DEF GivenStep, CallOps
<1>7. CommonMsg(m)'
  <2>1. ASSUME m.op \in {"transfer", "burn"}
        PROVE  /\ ~ Out(new, remote, m.nft)
               /\ m.nft \in new.given => m.op = "transfer" /\ m.to = Ics721
    <3>1. m.nft \in Nfts /\ m.op \in NftOps
      BY <1>2, <2>1 DEF MsgOK, BaseOK, NftOps
    <3>2. CommonMsg(m) /\ (tx.kind = "receive" => ReceiveMsg(m))
      BY <1>2 DEF MsgInv
    <3>3. ~ Out(new, remote, m.nft)
      BY <1>6, <2>1, <3>1, <3>2 DEF CommonMsg
    <3>4. CASE new.given = store.given
      BY <2>1, <3>2, <3>3, <3>4 DEF CommonMsg
    <3>5. CASE tx.kind = "receive" /\ tx.packet.receiver = Ics721
      BY <2>1, <3>2, <3>3, <3>5 DEF ReceiveMsg
    <3> QED
      BY <1>6, <3>1, <3>4, <3>5
  <2> QED
    BY <1>1, <1>5, <2>1 DEF CommonMsg
<1>8. ASSUME tx.kind = "receive"
      PROVE  ReceiveMsg(m)'
  <2>1. ReceiveMsg(m)
    BY <1>2, <1>8 DEF MsgInv
  <2>2. m.op # "conjunction" /\ m.op \notin FirstOps
    BY <1>4 DEF FirstOps
  <2>3. m.op = "redeem" =>
          new.given = store.given \/ tx.packet.receiver = Ics721
    BY <1>6 DEF NftOps
  <2> QED
    BY <1>1, <1>8, <2>1, <2>2, <2>3 DEF ReceiveMsg, ComesBack, BeingRedeemed
<1>9. ASSUME tx.kind = "resolve"
      PROVE  ResolveMsg(m)'
  <2>1. ResolveMsg(m) /\ ResolveMsg(Head(stack))
    BY <1>2, <1>9 DEF MsgInv
  <2>2. Head(stack).op \in NftOps \cup CallOps
    BY <2>1 DEF ResolveMsg, NftOps
  <2>3. m.op \notin {"transfer", "burn"}
    BY <1>4, <1>9, <2>2 DEF NftOps
  <2>4. m.op \in CallOps \ {"ackCallback"} => \E r \in Waiting' : r.op = "reply"
    BY <1>1, <2>1 DEF ResolveMsg
  <2> QED
    BY <1>1, <2>1, <2>3, <2>4 DEF ResolveMsg
<1>10. tx.kind = "send" => SendMsg(m)'
  BY <1>2 DEF MsgInv, SendMsg
<1> QED
  BY <1>1, <1>7, <1>8, <1>9, <1>10 DEF MsgInv

\* A message that is replaced by messages of its rank, or by none.
LEMMA StepLive ==
  ASSUME TypeInv, Live, ~ NoTx, stack # <<>>, NEW new, NEW msgs, IsSeq(msgs),
         Done(new, msgs), Head(stack).op \notin {"reply", "conjunction"},
         Books(new, remote, Of(msgs) \cup Rest),
         \A m \in Of(msgs) : MsgInv(m)' /\ m.op # "callback",
         \A i \in 1..Len(msgs) : Rank(msgs[i]) = Rank(Head(stack)),
         \/ Len(msgs) <= 1
         \/ tx.kind = "receive" /\ Rank(Head(stack)) = 1,
         \A n \in Nfts : Out(new, remote, n) =>
           \/ Out(store, remote, n)
           \/ Head(stack).op = "receiveNft" /\ n = Head(stack).nft,
         GivenStep(new),
         tx.kind = "receive" =>
           /\ store.metadata \subseteq new.metadata
           /\ \A n \in PacketNfts(tx.packet) :
                /\ Gives(Head(stack), n) =>
                     \/ \E m \in Of(msgs) : Gives(m, n)
                     \/ /\ Head(stack).op \in {"transfer", "mintNft"}
                        /\ new.owner[n] = tx.packet.receiver
                /\ \/ new.owner[n] \in {store.owner[n], tx.packet.receiver}
                   \/ Head(stack).op \in CallOps
  PROVE  Live'
<1>1. /\ Waiting = {Head(stack)} \cup Rest /\ Waiting' = Of(msgs) \cup Rest
      /\ store' = new /\ tx' = tx /\ remote' = remote
  BY DoneWaiting
<1>2. Ordered /\ MsgInv(Head(stack))
  BY <1>1 DEF Live
<1>3. Ordered'
  BY <1>2, OrderedReplace
<1>4. \A m \in Rest : MsgInv(m)'
  BY RestInv
<1>5. ASSUME tx.kind = "receive"
      PROVE  Missing' /\ Served'
  <2>1. tx.packet \in PacketsIn /\ PacketNfts(tx.packet) \subseteq Nfts
    BY <1>5, TxKinds, PacketNftsIn
  <2>2. ReceiveMsg(Head(stack)) /\ Missing /\ Served
    BY <1>2, <1>5 DEF MsgInv, Live
  <2>4. Missing'
    <3> SUFFICES ASSUME NEW n \in PacketNfts(tx.packet), ComesBack
                 PROVE  ~ Out(new, remote, n)
      BY <1>1, <2>2 DEF Missing, ComesBack
    <3>1. ~ Out(store, remote, n)
      BY <2>2 DEF Missing
    <3>2. ~ (Head(stack).op = "receiveNft" /\ n = Head(stack).nft)
      BY <1>5, <2>2 DEF ReceiveMsg, BeingRedeemed, ComesBack
    <3> QED
      BY <2>1, <3>1, <3>2
  <2>5. ASSUME NEW n \in PacketNfts(tx.packet)
        PROVE  \/ \E m \in Waiting' : Gives(m, n)
               \/ /\ ~ ComesBack => n \in new.metadata
                  /\ (\E m \in Waiting' : m.op = "callback") => new.owner[n] = tx.packet.receiver
    <3>1. CASE Gives(Head(stack), n)
      <4>1. CASE \E m \in Of(msgs) : Gives(m, n)
        BY <1>1, <4>1
      <4>2. CASE /\ Head(stack).op \in {"transfer", "mintNft"}
                 /\ new.owner[n] = tx.packet.receiver
        <5>1. Head(stack).op = "mintNft" => n \in store.metadata
          BY <2>2, <3>1, <4>2 DEF Gives, ReceiveMsg
        <5>2. Head(stack).op = "transfer" => ComesBack
          BY <2>2 DEF ReceiveMsg
        <5> QED
          BY <1>5, <4>2, <5>1, <5>2
      <4> QED
        BY <1>5, <3>1, <4>1, <4>2
    <3>2. CASE \E m \in Rest : Gives(m, n)
      BY <1>1, <3>2
    <3>3. CASE /\ ~ ComesBack => n \in store.metadata
               /\ (\E m \in Waiting : m.op = "callback") => store.owner[n] = tx.packet.receiver
      <4>1. ~ ComesBack => n \in new.metadata
        BY <1>5, <3>3
      <4>2. ASSUME NEW m \in Waiting', m.op = "callback"
            PROVE  new.owner[n] = tx.packet.receiver
        <5>1. m \in Rest
          BY <1>1, <4>2
        <5>2. Head(stack).op \notin CallOps
          BY <1>2, <4>2, <5>1, RestOps DEF CallOps
        <5>3. store.owner[n] = tx.packet.receiver
          BY <1>1, <3>3, <4>2, <5>1
        <5> QED
          BY <1>5, <5>2, <5>3
      <4> QED
        BY <4>1, <4>2
    <3>4. \/ \E m \in Waiting : Gives(m, n)
          \/ /\ ~ ComesBack => n \in store.metadata
             /\ (\E m \in Waiting : m.op = "callback") => store.owner[n] = tx.packet.receiver
      BY <2>2 DEF Served
    <3> QED
      BY <1>1, <3>1, <3>2, <3>3, <3>4
  <2>6. Served'
    BY <1>1, <2>5 DEF Served, Gives, ComesBack
  <2> QED
    BY <2>4, <2>6
<1> QED
  BY <1>1, <1>3, <1>4, <1>5 DEF Live

Ready == TypeInv /\ Live /\ ~ NoTx /\ stack # <<>> /\ Works(Head(stack))

\* What is known of the message that executes.
LEMMA HeadFacts ==
  ASSUME Ready
  PROVE  /\ MsgOK(Head(stack)) /\ MsgInv(Head(stack)) /\ Ordered
         /\ Waiting = {Head(stack)} \cup Rest
         /\ Books(store, remote, Waiting) /\ store \in Stores
<1>1. /\ Len(stack) \in Nat /\ Len(stack) >= 1 /\ Head(stack) = stack[1]
  BY SeqFacts DEF TypeInv, Ready
<1>2. Waiting = {Head(stack)} \cup Rest
  <2> DEFINE l == Len(stack)
  <2>1. \A i \in 1..l : i = 1 \/ i \in 2..l
    BY <1>1
  <2>2. 1 \in 1..l /\ \A i \in 2..l : i \in 1..l
    BY <1>1
  <2> QED
    BY <1>1, <2>1, <2>2 DEF Waiting, Of, Rest
<1> QED
  BY <1>1, <1>2 DEF Ready, Live, TypeInv

\* Messages that do something for an NFT.
RoleOps == {"transfer", "burn", "receiveNft", "redeem", "conjunction", "mintNft", "addEntries"}

LEMMA NoRole ==
  ASSUME NEW h, h.op \notin RoleOps, NEW W, NEW V, W \subseteq V \cup {h}, NEW n
  PROVE  Keeps(W, V, n)
<1>1. ~ Moves(h, n) /\ ~ Burns(h, n) /\ ~ Mints(h, n) /\ ~ Enters(h, n)
  BY DEF Moves, Burns, Mints, Enters, RoleOps
<1> QED
  BY <1>1, KeepsDrop

\* A message about one NFT does nothing for another.
LEMMA OtherRole ==
  ASSUME NEW h, h.op \in {"transfer", "burn", "receiveNft", "mintNft"},
         NEW W, NEW V, W \subseteq V \cup {h}
  PROVE  /\ \A n : n # h.nft => Keeps(W, V, n)
         /\ h.op \in {"transfer", "receiveNft"} => KeepsVoucher(W, V, h.nft)
<1>1. ASSUME NEW n, n # h.nft
      PROVE  Keeps(W, V, n)
  <2>1. ~ Moves(h, n) /\ ~ Burns(h, n) /\ ~ Mints(h, n) /\ ~ Enters(h, n)
    BY <1>1 DEF Moves, Burns, Mints, Enters
  <2> QED
    BY <2>1, KeepsDrop
<1>2. ASSUME h.op \in {"transfer", "receiveNft"}
      PROVE  KeepsVoucher(W, V, h.nft)
  <2>1. ~ Burns(h, h.nft) /\ ~ Mints(h, h.nft) /\ ~ Enters(h, h.nft)
    BY <1>2 DEF Burns, Mints, Enters
  <2>2. \A m \in W : m = h \/ m \in V
    OBVIOUS
  <2> QED
    BY <2>1, <2>2 DEF KeepsVoucher
<1> QED
  BY <1>1, <1>2

\* A burn mints nothing and enters no channel.
LEMMA BurnRole ==
  ASSUME NEW h, h.op = "burn", NEW W, NEW V, W \subseteq V \cup {h}, NEW n
  PROVE  /\ (\E m \in W : Mints(m, n)) => \E m \in V : Mints(m, n)
         /\ (\E m \in W : Enters(m, n)) => \E m \in V : Enters(m, n)
<1>1. ~ Mints(h, n) /\ ~ Enters(h, n)
  BY DEF Mints, Enters
<1>2. \A m \in W : m = h \/ m \in V
  OBVIOUS
<1> QED
  BY <1>1, <1>2

\* No messages, or one.
LEMMA OfNone == Of(<<>>) = {}
BY NoMsgs DEF Of

LEMMA OfOne ==
  ASSUME NEW m
  PROVE  Of(<<m>>) = {m}
BY OneMsg DEF Of

\* The messages for the tokens of a packet.
LEMMA OfAll ==
  ASSUME NEW packet \in PacketsIn
  PROVE  /\ \A m \in Of(TransferAll(packet)) :
              \E n \in PacketNfts(packet) : m = TransferNft(n, packet.receiver)
         /\ \A n \in PacketNfts(packet) : TransferNft(n, packet.receiver) \in Of(TransferAll(packet))
         /\ \A m \in Of(MintAll(packet)) :
              \E n \in PacketNfts(packet) : m = MintNft(n, packet.receiver)
         /\ \A n \in PacketNfts(packet) : MintNft(n, packet.receiver) \in Of(MintAll(packet))
<1> DEFINE D == DOMAIN packet.tokens
           T == TransferAll(packet)
           M == MintAll(packet)
<1>1. /\ IsSeq(T) /\ DOMAIN T = D /\ IsSeq(M) /\ DOMAIN M = D
      /\ \A i \in D : T[i] = TransferNft(NftOf(packet, i), packet.receiver)
      /\ \A i \in D : M[i] = MintNft(NftOf(packet, i), packet.receiver)
  BY TransferAllOK, MintAllOK DEF TransferAll, MintAll
<1>2. D = 1..Len(T) /\ D = 1..Len(M)
  BY <1>1, SeqFacts
<1> HIDE DEF D, T, M
<1>3. Of(T) = {T[i] : i \in D} /\ Of(M) = {M[i] : i \in D}
  BY <1>2 DEF Of
<1>4. PacketNfts(packet) = {NftOf(packet, i) : i \in D}
  BY DEF PacketNfts, D
<1> QED
  BY <1>1, <1>3, <1>4 DEF T, M

\* A message that changes nothing of the books.
LEMMA CalmLive ==
  ASSUME Ready, Head(stack).op \notin RoleOps \cup {"reply"},
         NEW new, NEW msgs, IsSeq(msgs), Done(new, msgs),
         new.owner = store.owner, new.outgoing = store.outgoing,
         new.incoming = store.incoming, new.metadata = store.metadata,
         store.registry \subseteq new.registry, new.packets = store.packets,
         new.given = store.given,
         \A m \in Of(msgs) : MsgInv(m)' /\ m.op # "callback" /\ Rank(m) = Rank(Head(stack)),
         \/ Len(msgs) <= 1
         \/ tx.kind = "receive" /\ Rank(Head(stack)) = 1,
         tx.kind = "receive" =>
           \A n \in PacketNfts(tx.packet) :
             Gives(Head(stack), n) => \E m \in Of(msgs) : Gives(m, n)
  PROVE  Live'
<1>1. /\ Waiting = {Head(stack)} \cup Rest /\ Books(store, remote, Waiting)
  BY HeadFacts
<1>2. \A n \in Nfts : Keeps(Waiting, Of(msgs) \cup Rest, n)
  BY <1>1, NoRole
<1>3. Books(new, remote, Of(msgs) \cup Rest)
  BY <1>1, <1>2, FrameAll
<1>4. \A n : Out(new, remote, n) <=> Out(store, remote, n)
  BY DEF Out, AwayIn
<1>5. \A i \in 1..Len(msgs) : Rank(msgs[i]) = Rank(Head(stack))
  BY DEF Of
<1>6. Head(stack).op \notin {"reply", "conjunction"}
  BY DEF RoleOps
<1> QED
  BY <1>3, <1>4, <1>5, <1>6, StepLive DEF Ready, GivenStep

\* Packet messages belong to a receive.
LEMMA PacketOpsKind ==
  ASSUME Ready, Head(stack).op \in PacketOps \cup {"conjunction", "proxy", "instantiate", "mintNft"}
  PROVE  tx.kind = "receive" /\ ReceiveMsg(Head(stack)) /\ Missing /\ Served
         /\ tx.packet \in PacketsIn /\ PacketNfts(tx.packet) \subseteq Nfts
<1>1. MsgInv(Head(stack)) /\ tx.kind \in {"send", "receive", "resolve"}
  BY HeadFacts, TxKinds DEF Ready
<1>2. tx.kind = "receive"
  BY <1>1 DEF MsgInv, SendMsg, ResolveMsg, CallOps, PacketOps, EntriesOps
<1> QED
  BY <1>1, <1>2, TxKinds, PacketNftsIn DEF MsgInv, Ready, Live

\* A reply that waits is not the message that executes.
LEMMA ReplyWaits ==
  ASSUME Ready, tx.kind = "resolve", Head(stack).op \in CallOps \ {"ackCallback"}
  PROVE  \E r \in Rest : r.op = "reply"
<1>1. ResolveMsg(Head(stack)) /\ Waiting = {Head(stack)} \cup Rest
  BY HeadFacts DEF MsgInv
<1> QED
  BY <1>1 DEF ResolveMsg, CallOps

\* The incoming proxy, a new collection, a pause.
LEMMA QuietLive ==
  ASSUME Ready,
         \/ ExecProxy(Head(stack)) /\ Done(store, <<>>)
         \/ ExecPause(Head(stack))
         \/ Head(stack).op \in {"instantiate", "callback"} /\ Done(store, <<>>)
  PROVE  Live'
<1>1. Head(stack).op \in {"proxy", "instantiate", "pause", "callback"}
  BY DEF ExecProxy, ExecPause
<1>2. PICK new \in {store, [store EXCEPT !.po = PausedPolicy]} : Done(new, <<>>)
  BY DEF ExecPause
<1>3. /\ new.owner = store.owner /\ new.outgoing = store.outgoing
      /\ new.incoming = store.incoming /\ new.metadata = store.metadata
      /\ new.registry = store.registry /\ new.packets = store.packets
      /\ new.given = store.given
  BY <1>2, HeadFacts DEF Stores
<1>4. IsSeq(<<>>) /\ Len(<<>>) <= 1
  BY NoMsgs
<1>5. \A n : ~ Gives(Head(stack), n)
  BY <1>1 DEF Gives
<1>6. Head(stack).op \notin RoleOps \cup {"reply"}
  BY <1>1 DEF RoleOps
<1> QED
  BY <1>2, <1>3, <1>4, <1>5, <1>6, OfNone, CalmLive

\* Vouchers to be redeemed: a transfer for every NFT of the packet.
LEMMA RedeemLive ==
  ASSUME Ready, ExecRedeem(Head(stack))
  PROVE  Live'
<1> DEFINE h == Head(stack)
           packet == tx.packet
           msgs == TransferAll(packet)
<1>1. h.op = "redeem"
  BY DEF ExecRedeem
<1>2. /\ tx.kind = "receive" /\ ReceiveMsg(h) /\ Missing
      /\ packet \in PacketsIn /\ PacketNfts(packet) \subseteq Nfts
  BY <1>1, PacketOpsKind DEF PacketOps
<1>3. h.packet = packet /\ ComesBack
  BY <1>1, <1>2 DEF ReceiveMsg, PacketOps
<1>4. Done(store, msgs)
  BY <1>3 DEF ExecRedeem
<1>5. /\ IsSeq(msgs)
      /\ \A m \in Of(msgs) : \E n \in PacketNfts(packet) : m = TransferNft(n, packet.receiver)
      /\ \A n \in PacketNfts(packet) : TransferNft(n, packet.receiver) \in Of(msgs)
  BY <1>2, TransferAllOK, OfAll
<1> HIDE DEF msgs
<1>6. /\ Waiting = {h} \cup Rest /\ Books(store, remote, Waiting)
      /\ store' = store /\ tx' = tx /\ remote' = remote
  BY <1>4, <1>5, HeadFacts, DoneWaiting DEF Ready
<1>7. ASSUME NEW n \in Nfts
      PROVE  Keeps(Waiting, Of(msgs) \cup Rest, n)
  <2>1. Moves(h, n) => \E m \in Of(msgs) : Moves(m, n)
    <3>1. Moves(h, n) => n \in PacketNfts(packet)
      BY <1>1, <1>3 DEF Moves
    <3>2. Moves(TransferNft(n, packet.receiver), n)
      BY DEF Moves, TransferNft
    <3> QED
      BY <1>5, <3>1, <3>2
  <2>2. ~ Burns(h, n) /\ ~ Mints(h, n) /\ ~ Enters(h, n)
    BY <1>1 DEF Burns, Mints, Enters
  <2> QED
    BY <1>6, <2>1, <2>2 DEF Keeps
<1>8. Books(store, remote, Of(msgs) \cup Rest)
  BY <1>6, <1>7, FrameAll
<1>9. ASSUME NEW m \in Of(msgs)
      PROVE  MsgInv(m)' /\ m.op # "callback" /\ Rank(m) = 1
  <2>1. PICK n \in PacketNfts(packet) : m = TransferNft(n, packet.receiver)
    BY <1>5
  <2>2. m.op = "transfer" /\ m.nft = n /\ m.to = packet.receiver
    BY <2>1 DEF TransferNft
  <2>3. ~ Out(store, remote, n)
    BY <1>2, <1>3 DEF Missing
  <2>4. n \in store.given => packet.receiver = Ics721
    BY <1>1, <1>2, <1>3 DEF ReceiveMsg
  <2>5. CommonMsg(m)'
    BY <1>6, <2>2, <2>3, <2>4 DEF CommonMsg
  <2>6. ReceiveMsg(m)'
    BY <1>3, <1>6, <2>2 DEF ReceiveMsg, ComesBack, PacketOps, EntriesOps, FirstOps
  <2>7. Rank(m) = 1
    BY <2>2, Ranks DEF NftOps
  <2> QED
    BY <1>2, <1>6, <2>2, <2>5, <2>6, <2>7 DEF MsgInv
<1>10. Rank(h) = 1
  BY <1>1, Ranks DEF NftOps
<1>11. \A n : Gives(TransferNft(n, packet.receiver), n)
  BY DEF Gives, TransferNft
<1>12. \A i \in 1..Len(msgs) : Rank(msgs[i]) = Rank(Head(stack))
  BY <1>9, <1>10 DEF Of
<1>13. \A n \in PacketNfts(packet) : \E m \in Of(msgs) : Gives(m, n)
  BY <1>5, <1>11
<1> QED
  BY <1>1, <1>2, <1>4, <1>5, <1>8, <1>9, <1>10, <1>12, <1>13, StepLive DEF Ready, GivenStep

\* Vouchers to be created: of a collection that is to be instantiated first, or not.
LEMMA CreateLive ==
  ASSUME Ready, ExecCreate(Head(stack))
  PROVE  Live'
<1> DEFINE h == Head(stack)
           packet == tx.packet
           class == packet.class
           new == [store EXCEPT !.registry = @ \cup {class}]
           front == IF class \in store.registry THEN <<>> ELSE <<Instantiate(class)>>
           msgs == front \o <<Mint(packet)>>
<1>1. h.op = "create"
  BY DEF ExecCreate
<1>2. tx.kind = "receive" /\ ReceiveMsg(h)
  BY <1>1, PacketOpsKind DEF PacketOps
<1>3. h.packet = packet /\ ~ ComesBack
  BY <1>1, <1>2 DEF ReceiveMsg, PacketOps
<1>4. Done(new, msgs)
  BY <1>3 DEF ExecCreate
<1>5. /\ new.owner = store.owner /\ new.outgoing = store.outgoing
      /\ new.incoming = store.incoming /\ new.metadata = store.metadata
      /\ store.registry \subseteq new.registry /\ new.packets = store.packets
      /\ new.given = store.given
  BY HeadFacts DEF Stores
<1>6. IsSeq(front) /\ \A i \in 1..Len(front) : front[i] = Instantiate(class)
  BY NoMsgs, OneMsg
<1>7. IsSeq(<<Mint(packet)>>) /\ Len(<<Mint(packet)>>) = 1 /\ <<Mint(packet)>>[1] = Mint(packet)
  BY OneMsg
<1> HIDE DEF front
<1>8. /\ IsSeq(msgs) /\ Len(front) \in Nat /\ Len(msgs) = Len(front) + 1
      /\ \A i \in 1..Len(msgs) :
           msgs[i] = IF i <= Len(front) THEN front[i] ELSE <<Mint(packet)>>[i - Len(front)]
  BY <1>6, <1>7, ConcatFacts, SeqFacts
<1>9. \A m \in Of(msgs) : m \in {Instantiate(class), Mint(packet)}
  <2> SUFFICES ASSUME NEW i \in 1..Len(msgs)
               PROVE  msgs[i] \in {Instantiate(class), Mint(packet)}
    BY DEF Of
  <2> HIDE DEF msgs
  <2>1. CASE i <= Len(front)
    BY <1>6, <1>8, <2>1
  <2>2. CASE i = Len(front) + 1
    BY <1>7, <1>8, <2>2
  <2> QED
    BY <1>8, <2>1, <2>2
<1>10. Mint(packet) \in Of(msgs)
  <2> HIDE DEF msgs
  <2>1. Len(front) + 1 \in 1..Len(msgs) /\ msgs[Len(front) + 1] = Mint(packet)
    BY <1>7, <1>8
  <2> QED
    BY <2>1 DEF Of
<1> HIDE DEF msgs, new
<1>11. store' = new /\ tx' = tx /\ remote' = remote
  BY <1>4 DEF Done
<1>12. ASSUME NEW m \in Of(msgs)
       PROVE  MsgInv(m)' /\ m.op # "callback" /\ Rank(m) = 1
  <2>1. m.op \in {"instantiate", "mint"} /\ (m.op = "mint" => m.packet = packet)
    BY <1>9 DEF Instantiate, Mint
  <2>2. CommonMsg(m)'
    BY <2>1 DEF CommonMsg
  <2>3. ReceiveMsg(m)'
    BY <1>3, <1>11, <2>1 DEF ReceiveMsg, ComesBack, PacketOps, EntriesOps, FirstOps
  <2>4. Rank(m) = 1
    BY <2>1, Ranks DEF NftOps
  <2> QED
    BY <1>2, <1>11, <2>1, <2>2, <2>3, <2>4 DEF MsgInv
<1>13. Rank(h) = 1 /\ h.op \notin RoleOps \cup {"reply"}
  BY <1>1, Ranks DEF NftOps, RoleOps
<1>14. \A n : Gives(Mint(packet), n)
  BY DEF Gives, Mint
<1> QED
  BY <1>2, <1>4, <1>5, <1>8, <1>10, <1>12, <1>13, <1>14, CalmLive

\* Metadata and a mint for every NFT of the packet.
LEMMA MintLive ==
  ASSUME Ready, ExecMint(Head(stack))
  PROVE  Live'
<1> DEFINE h == Head(stack)
           packet == tx.packet
           N == PacketNfts(packet)
           new == [store EXCEPT !.metadata = @ \cup N]
           msgs == MintAll(packet)
<1>1. h.op = "mint"
  BY DEF ExecMint
<1>2. /\ tx.kind = "receive" /\ ReceiveMsg(h)
      /\ packet \in PacketsIn /\ N \subseteq Nfts
  BY <1>1, PacketOpsKind DEF PacketOps
<1>3. h.packet = packet /\ ~ ComesBack
  BY <1>1, <1>2 DEF ReceiveMsg, PacketOps
<1>4. Done(new, msgs)
  BY <1>3 DEF ExecMint
<1>5. /\ IsSeq(msgs)
      /\ \A m \in Of(msgs) : \E n \in N : m = MintNft(n, packet.receiver)
      /\ \A n \in N : MintNft(n, packet.receiver) \in Of(msgs)
  BY <1>2, MintAllOK, OfAll
<1> HIDE DEF msgs
<1>6. /\ Waiting = {h} \cup Rest /\ Books(store, remote, Waiting) /\ store \in Stores
      /\ store' = new /\ tx' = tx /\ remote' = remote
  BY <1>4, <1>5, HeadFacts, DoneWaiting DEF Ready
<1>7. /\ new.owner = store.owner /\ new.metadata = store.metadata \cup N
      /\ new.packets = store.packets /\ new.given = store.given
  BY <1>6 DEF Stores
<1>8. \A n \in Nfts : Keeps(Waiting, Of(msgs) \cup Rest, n)
  <2>1. h.op \notin RoleOps
    BY <1>1 DEF RoleOps
  <2> QED
    BY <1>6, <2>1, NoRole
<1>9. \A n \in N : Mints(MintNft(n, packet.receiver), n)
  BY DEF Mints, MintNft
<1>10. Books(new, remote, Of(msgs) \cup Rest)
  <2>1. \A n \in N : \E m \in Of(msgs) \cup Rest : Mints(m, n)
    BY <1>5, <1>9
  <2> QED
    BY <1>6, <1>8, <2>1, MetadataBooks
<1> HIDE DEF new
<1>11. ASSUME NEW m \in Of(msgs)
       PROVE  MsgInv(m)' /\ m.op # "callback" /\ Rank(m) = 1
  <2>1. PICK n \in N : m = MintNft(n, packet.receiver)
    BY <1>5
  <2>2. m.op = "mintNft" /\ m.nft = n /\ m.to = packet.receiver
    BY <2>1 DEF MintNft
  <2>3. CommonMsg(m)'
    BY <2>2 DEF CommonMsg
  <2>4. ReceiveMsg(m)'
    BY <1>3, <1>6, <1>7, <2>2 DEF ReceiveMsg, ComesBack, PacketOps, EntriesOps, FirstOps
  <2>5. Rank(m) = 1
    BY <2>2, Ranks DEF NftOps
  <2> QED
    BY <1>2, <1>6, <2>2, <2>3, <2>4, <2>5 DEF MsgInv
<1>12. Rank(h) = 1
  BY <1>1, Ranks DEF NftOps
<1>13. \A i \in 1..Len(msgs) : Rank(msgs[i]) = Rank(Head(stack))
  BY <1>11, <1>12 DEF Of
<1>14. \A n : Out(new, remote, n) <=> Out(store, remote, n)
  BY <1>7 DEF Out, AwayIn
<1>15. \A n \in N : \E m \in Of(msgs) : Gives(m, n)
  <2>1. \A n : Gives(MintNft(n, packet.receiver), n)
    BY DEF Gives, MintNft
  <2> QED
    BY <1>5, <2>1
<1> QED
  BY <1>1, <1>2, <1>4, <1>5, <1>7, <1>10, <1>11, <1>12, <1>13, <1>14, <1>15, StepLive
     DEF Ready, GivenStep

\* No messages come in the place of this one or a single one, and one owner has changed.
LEMMA OwnerLive ==
  ASSUME Ready, Head(stack).op \notin {"reply", "conjunction"}, NEW x \in Nfts,
         NEW who \in Accounts \cup {NoOne}, NEW G, NEW new,
         new = [store EXCEPT !.owner[x] = who, !.given = G], GivenStep(new),
         NEW msgs, IsSeq(msgs), Done(new, msgs), Books(new, remote, Of(msgs) \cup Rest),
         Len(msgs) <= 1,
         \A m \in Of(msgs) : MsgInv(m)' /\ m.op # "callback" /\ Rank(m) = Rank(Head(stack)),
         tx.kind = "receive" =>
           /\ \A n : Gives(Head(stack), n) => n = x /\ Head(stack).op \in {"transfer", "mintNft"}
           /\ who = tx.packet.receiver \/ Head(stack).op \in CallOps
  PROVE  Live'
<1>1. /\ new.owner[x] = who /\ \A n \in Nfts : n # x => new.owner[n] = store.owner[n]
      /\ new.metadata = store.metadata /\ new.packets = store.packets
  <2>1. store \in Stores
    BY HeadFacts
  <2> QED
    BY <2>1 DEF Stores
<1>2. \A n : Out(new, remote, n) <=> Out(store, remote, n)
  BY <1>1 DEF Out, AwayIn
<1>3. \A i \in 1..Len(msgs) : Rank(msgs[i]) = Rank(Head(stack))
  BY DEF Of
<1>4. ASSUME tx.kind = "receive", NEW n \in PacketNfts(tx.packet)
      PROVE  /\ Gives(Head(stack), n) =>
                  \/ \E m \in Of(msgs) : Gives(m, n)
                  \/ /\ Head(stack).op \in {"transfer", "mintNft"}
                     /\ new.owner[n] = tx.packet.receiver
             /\ \/ new.owner[n] \in {store.owner[n], tx.packet.receiver}
                \/ Head(stack).op \in CallOps
  <2>1. n \in Nfts
    BY <1>4, TxKinds, PacketNftsIn DEF Ready
  <2>2. Head(stack).op \in CallOps => ~ Gives(Head(stack), n)
    BY DEF CallOps, Gives
  <2> QED
    BY <1>1, <1>4, <2>1, <2>2
<1> QED
  BY <1>1, <1>2, <1>3, <1>4, StepLive DEF Ready

\* No messages at all.
LEMMA HandedLive ==
  ASSUME Ready, Head(stack).op \notin {"reply", "conjunction"}, NEW x \in Nfts,
         NEW who \in Accounts \cup {NoOne}, NEW G, NEW new,
         new = [store EXCEPT !.owner[x] = who, !.given = G], GivenStep(new),
         Done(new, <<>>), Books(new, remote, Rest),
         tx.kind = "receive" =>
           /\ \A n : Gives(Head(stack), n) => n = x /\ Head(stack).op \in {"transfer", "mintNft"}
           /\ who = tx.packet.receiver \/ Head(stack).op \in CallOps
  PROVE  Live'
<1>1. PICK msgs : msgs = <<>>
  OBVIOUS
<1>2. IsSeq(msgs) /\ Len(msgs) <= 1 /\ Of(msgs) = {}
  BY <1>1, NoMsgs, OfNone
<1>3. Of(msgs) \cup Rest = Rest
  BY <1>2
<1>4. Books(new, remote, Of(msgs) \cup Rest)
  BY <1>3
<1>5. \A m \in Of(msgs) : MsgInv(m)' /\ m.op # "callback" /\ Rank(m) = Rank(Head(stack))
  BY <1>2
<1>6. Done(new, msgs)
  BY <1>1
<1> QED
  BY <1>2, <1>4, <1>5, <1>6, OwnerLive

\* An NFT of the bridge goes to the receiver, or back to the sender.
LEMMA TransferLive ==
  ASSUME Ready, Head(stack).op = "transfer",
         Done(HandedTo(Head(stack).nft, Head(stack).to, tx.kind = "receive"), <<>>)
  PROVE  Live'
<1>1. PICK h, x : h = Head(stack) /\ x = h.nft
  OBVIOUS
<1>2. PICK G : G = IF tx.kind = "receive" /\ h.to = Ics721
                   THEN store.given \cup {x} ELSE store.given
  OBVIOUS
<1>3. PICK new : new = [store EXCEPT !.owner[x] = h.to, !.given = G]
  OBVIOUS
<1>4. Done(new, <<>>) /\ GivenBut(store, G, x)
  BY <1>1, <1>2, <1>3 DEF HandedTo, GivenBut
<1>5. /\ MsgOK(h) /\ MsgInv(h) /\ store.owner[x] = Ics721
      /\ tx.kind \in {"send", "receive", "resolve"}
  BY <1>1, HeadFacts, TxKinds DEF Ready, Works
<1>6. /\ x \in Nfts /\ h.to \in Accounts /\ ~ Out(store, remote, x)
      /\ x \in store.given => h.to = Ics721
  BY <1>1, <1>5 DEF MsgOK, BaseOK, MsgInv, CommonMsg
<1>7. /\ Waiting = {h} \cup Rest /\ Books(store, remote, Waiting) /\ store \in Stores
  BY <1>1, HeadFacts
<1>8. (\A n \in Nfts : n # x => Keeps(Waiting, Rest, n)) /\ KeepsVoucher(Waiting, Rest, x)
  <2>1. h.op = "transfer" /\ Waiting \subseteq Rest \cup {h}
    BY <1>1, <1>7
  <2>2. \A n : n # h.nft => Keeps(Waiting, Rest, n)
    BY ONLY <2>1, OtherRole
  <2>3. KeepsVoucher(Waiting, Rest, h.nft)
    BY ONLY <2>1, OtherRole
  <2> QED
    BY <1>1, <2>2, <2>3
<1>9. tx.kind # "receive" => h.to # Ics721
  <2>1. tx.kind = "resolve" => h.to \in Senders
    BY <1>1, <1>5 DEF MsgInv, ResolveMsg
  <2>2. tx.kind # "send"
    BY <1>1, <1>5 DEF MsgInv, SendMsg
  <2> QED
    BY <1>5, <2>1, <2>2, Names
<1>10. tx.kind = "receive" => h.to = tx.packet.receiver
  BY <1>1, <1>5 DEF MsgInv, ReceiveMsg
<1>11. Books(new, remote, Rest)
  <2>1. x \in G => h.to = Ics721
    BY <1>2, <1>6
  <2>2. h.to = Ics721 => x \in G
    BY <1>2, <1>9
  <2>3. store.owner[x] # NoOne
    BY <1>5, Names
  <2> QED
    BY <1>3, <1>4, <1>6, <1>7, <1>8, <2>1, <2>2, <2>3, GiveBooks
<1>12. GivenStep(new)
  <2>1. new.given = G
    BY <1>3, <1>7 DEF Stores
  <2> QED
    BY <1>2, <1>10, <2>1 DEF GivenStep
<1>13. \A n : Gives(Head(stack), n) => n = x
  BY <1>1 DEF Gives
<1> QED
  BY <1>3, <1>4, <1>6, <1>10, <1>11, <1>12, <1>13, <1>1, HandedLive

\* A voucher is burned.
LEMMA BurnLive ==
  ASSUME Ready, Head(stack).op = "burn",
         Done([store EXCEPT !.owner[Head(stack).nft] = NoOne], <<>>)
  PROVE  Live'
<1>1. PICK h, x, new :
        h = Head(stack) /\ x = h.nft /\ new = [store EXCEPT !.owner[x] = NoOne]
  OBVIOUS
<1>2. MsgOK(h) /\ MsgInv(h) /\ tx.kind \in {"send", "receive", "resolve"}
  BY <1>1, HeadFacts, TxKinds DEF Ready
<1>3. tx.kind = "resolve"
  BY <1>1, <1>2 DEF MsgInv, SendMsg, ReceiveMsg
<1>4. x \in Nfts /\ ~ Out(store, remote, x) /\ x \notin store.given
  BY <1>1, <1>2 DEF MsgOK, BaseOK, MsgInv, CommonMsg
<1>5. /\ Waiting = {h} \cup Rest /\ Books(store, remote, Waiting) /\ store \in Stores
  BY <1>1, HeadFacts
<1>6. /\ \A n \in Nfts : n # x => Keeps(Waiting, Rest, n)
      /\ (\E m \in Waiting : Mints(m, x)) => \E m \in Rest : Mints(m, x)
      /\ (\E m \in Waiting : Enters(m, x)) => \E m \in Rest : Enters(m, x)
  <2>1. h.op = "burn" /\ Waiting \subseteq Rest \cup {h}
    BY <1>1, <1>5
  <2>2. \A n : n # h.nft => Keeps(Waiting, Rest, n)
    BY ONLY <2>1, OtherRole
  <2>3. /\ (\E m \in Waiting : Mints(m, x)) => \E m \in Rest : Mints(m, x)
        /\ (\E m \in Waiting : Enters(m, x)) => \E m \in Rest : Enters(m, x)
    BY ONLY <2>1, BurnRole
  <2> QED
    BY <1>1, <2>2, <2>3
<1>7. Books(new, remote, Rest)
  BY <1>1, <1>4, <1>5, <1>6, BurnBooks
<1>8. new = [store EXCEPT !.owner[x] = NoOne, !.given = store.given]
  BY <1>1, <1>5, OwnerOnly
<1>9. Done(new, <<>>)
  BY <1>1
<1>10. GivenStep(new)
  BY <1>1, <1>5 DEF Stores, GivenStep
<1> QED
  BY <1>3, <1>4, <1>7, <1>8, <1>9, <1>10, HandedLive

\* While something is done for the packet its entries are still to come.
LEMMA EntriesWait ==
  ASSUME Ready, InProgress, tx.kind = "receive",
         Head(stack).op \notin {"conjunction", "reply"} \cup EntriesOps
  PROVE  \E m \in Rest : m.op \in EntriesOps
<1>1. /\ Len(stack) \in Nat /\ Len(stack) >= 1 /\ Head(stack) = stack[1]
      /\ stack[Len(stack)].op = "reply"
  BY SeqFacts DEF Ready, TypeInv, InProgress
<1> DEFINE l == Len(stack)
<1>2. l # 1
  BY <1>1
<1>3. stack[l - 1].op \in EntriesOps
  BY <1>1, <1>2 DEF InProgress
<1>4. l # 2
  BY <1>1, <1>3
<1>5. l - 1 \in 2..l
  <2>1. l \in Nat /\ l >= 1
    BY <1>1
  <2> HIDE DEF l
  <2> QED
    BY <1>2, <1>4, <2>1
<1> QED
  BY <1>3, <1>5 DEF Rest

\* A voucher is minted.
LEMMA MintNftLive ==
  ASSUME Ready, InProgress, Head(stack).op = "mintNft",
         Done(HandedTo(Head(stack).nft, Head(stack).to, tx.kind = "receive"), <<>>)
  PROVE  Live'
<1>1. PICK h, x, packet : h = Head(stack) /\ x = h.nft /\ packet = tx.packet
  OBVIOUS
<1>2. PICK G : G = IF h.to = Ics721 THEN store.given \cup {x} ELSE store.given
  OBVIOUS
<1>3. PICK new : new = [store EXCEPT !.owner[x] = h.to, !.given = G]
  OBVIOUS
<1>4. MsgOK(h) /\ store.owner[x] = NoOne /\ x.class # Home
  BY <1>1, HeadFacts DEF Ready, Works
<1>5. /\ tx.kind = "receive" /\ ReceiveMsg(h) /\ Missing
      /\ packet \in PacketsIn /\ PacketNfts(packet) \subseteq Nfts
  BY <1>1, PacketOpsKind
<1>6. Done(new, <<>>) /\ GivenBut(store, G, x)
  BY <1>1, <1>2, <1>3, <1>5 DEF HandedTo, GivenBut
<1>7. /\ x \in PacketNfts(packet) /\ h.to = packet.receiver /\ x \in store.metadata
      /\ packet.class = packet.channel
  BY <1>1, <1>5 DEF ReceiveMsg, ComesBack
<1>8. x \in Nfts /\ h.to \in Accounts /\ x.class = packet.channel
  BY <1>5, <1>7, PacketNftsIn DEF PacketsIn
<1>9. [nft |-> x, channel |-> x.class] \notin remote
  BY <1>1, <1>5, <1>7, <1>8 DEF Missing
<1>10. /\ Waiting = {h} \cup Rest /\ Books(store, remote, Waiting) /\ store \in Stores
  BY <1>1, HeadFacts
<1>11. \E m \in Rest : Enters(m, x)
  <2>1. PICK m \in Rest : m.op \in EntriesOps
    BY <1>1, <1>5, EntriesWait DEF EntriesOps
  <2>2. ReceiveMsg(m)
    BY <1>5, <1>10 DEF Ready, Live, MsgInv
  <2>3. m.op = "addEntries" /\ m.packet = packet
    BY <1>1, <1>7, <2>1, <2>2 DEF ReceiveMsg, EntriesOps, PacketOps, ComesBack
  <2> QED
    BY <1>7, <2>3 DEF Enters
<1>12. \A n \in Nfts : n # x => Keeps(Waiting, Rest, n)
  <2>1. h.op = "mintNft" /\ Waiting \subseteq Rest \cup {h}
    BY <1>1, <1>10
  <2>2. \A n : n # h.nft => Keeps(Waiting, Rest, n)
    BY ONLY <2>1, OtherRole
  <2> QED
    BY <1>1, <2>2
<1>13. x \in G <=> h.to = Ics721
  <2>1. x \notin store.given
    BY <1>4, <1>8, <1>10, Names DEF Books, Book, Escrowed
  <2> QED
    BY <1>2, <2>1
<1>14. Books(new, remote, Rest)
  BY <1>3, <1>4, <1>6, <1>7, <1>8, <1>9, <1>10, <1>11, <1>12, <1>13, MintBooks
<1>15. GivenStep(new)
  <2>1. new.given = G
    BY <1>3, <1>10 DEF Stores
  <2> QED
    BY <1>1, <1>2, <1>5, <1>7, <2>1 DEF GivenStep
<1>16. \A n : Gives(Head(stack), n) => n = x
  BY <1>1 DEF Gives
<1> QED
  BY <1>1, <1>3, <1>6, <1>7, <1>8, <1>14, <1>15, <1>16, HandedLive

\* A message that replaces another one is the next.
LEMMA NewHead ==
  ASSUME TypeInv, stack # <<>>, NEW new, NEW m, Done(new, <<m>>)
  PROVE  Head(stack') = m
<1>1. PICK msgs : msgs = <<m>>
  OBVIOUS
<1>2. IsSeq(msgs) /\ Len(msgs) = 1 /\ msgs[1] = m /\ Done(new, msgs)
  BY <1>1, OneMsg
<1>3. /\ Len(stack) \in Nat /\ Len(stack) >= 1 /\ IsSeq(stack')
      /\ Len(stack') = 1 + Len(stack) - 1
      /\ \A i \in 1..Len(stack') : stack'[i] = IF i <= 1 THEN msgs[i] ELSE stack[i - 1 + 1]
  BY <1>2, NewStack
<1>4. Len(stack') >= 1 /\ stack'[1] = m
  BY <1>2, <1>3
<1>5. stack' # <<>>
  BY <1>3, <1>4, NoMsgs
<1> QED
  BY <1>3, <1>4, <1>5, SeqFacts

\* An NFT is sent to the bridge.
LEMMA SendNftLive ==
  ASSUME Ready, Head(stack).op = "sendNft",
         Done([store EXCEPT !.owner[Head(stack).nft] = Ics721], <<ReceiveNft(Head(stack))>>)
  PROVE  Live'
<1>1. PICK h, x, m, new :
        /\ h = Head(stack) /\ x = h.nft /\ m = ReceiveNft(h)
        /\ new = [store EXCEPT !.owner[x] = Ics721]
  OBVIOUS
<1>2. MsgOK(h) /\ MsgInv(h) /\ store.owner[x] = h.by
  BY <1>1, HeadFacts DEF Ready, Works
<1>3. x \in Nfts /\ h.by \in Senders
  BY <1>1, <1>2 DEF MsgOK, BaseOK
<1>4. store.owner[x] # NoOne /\ store.owner[x] # Ics721 /\ Ics721 \in Accounts /\ Ics721 # NoOne
  BY <1>2, <1>3, Names
<1>5. /\ Waiting = {h} \cup Rest /\ Books(store, remote, Waiting) /\ store \in Stores
  BY <1>1, HeadFacts
<1>6. ~ Out(store, remote, x) /\ x \notin store.given
  BY <1>3, <1>4, <1>5 DEF Books, Book, Noted, Out, Escrowed
<1>7. m.op = "receiveNft" /\ m.nft = x
  BY <1>1 DEF ReceiveNft
<1>8. \A n : Keeps(Waiting, {m} \cup Rest, n)
  BY <1>1, <1>5, NoRole DEF RoleOps
<1>9. KeepsVoucher(Waiting, {m} \cup Rest, x)
  BY <1>8 DEF Keeps, KeepsVoucher
<1>10. Moves(m, x)
  BY <1>7 DEF Moves
<1>11. PICK G : G = store.given
  OBVIOUS
<1>12. /\ new = [store EXCEPT !.owner[x] = Ics721, !.given = G]
       /\ GivenBut(store, G, x) /\ x \notin G
  BY <1>1, <1>5, <1>6, <1>11, OwnerOnly DEF GivenBut
<1>13. Books(new, remote, {m} \cup Rest)
  BY <1>3, <1>4, <1>5, <1>6, <1>8, <1>9, <1>10, <1>12, GiveBooks
<1>14. /\ IsSeq(<<m>>) /\ Len(<<m>>) <= 1 /\ Of(<<m>>) = {m}
  BY OneMsg, OfOne
<1>15. Done(new, <<m>>)
  BY <1>1
<1>16. store' = new /\ tx' = tx /\ remote' = remote /\ Waiting' = {m} \cup Rest
  BY <1>14, <1>15, DoneWaiting DEF Ready
<1>17. new.packets = store.packets /\ new.given = store.given
  BY <1>1, <1>5 DEF Stores
<1>18. MsgInv(m)' /\ m.op # "callback" /\ Rank(m) = Rank(h)
  <2>1. ~ Out(new, remote, x)
    BY <1>6, <1>17 DEF Out, AwayIn
  <2>2. m = Head(stack')
    BY <1>15, NewHead DEF Ready
  <2>3. CommonMsg(m)'
    BY <1>6, <1>7, <1>16, <1>17, <2>1, <2>2 DEF CommonMsg
  <2>4. tx.kind = "receive" => ReceiveMsg(m)'
    BY <1>1, <1>2, <1>7, <1>16
       DEF MsgInv, ReceiveMsg, ComesBack, BeingRedeemed, PacketOps, EntriesOps, FirstOps
  <2>5. tx.kind = "send" => SendMsg(m)'
    BY <1>7 DEF SendMsg
  <2>6. ASSUME tx.kind = "resolve"
        PROVE  ResolveMsg(m)'
    <3>1. \E r \in Rest : r.op = "reply"
      BY <2>6, ReplyWaits DEF CallOps
    <3> QED
      BY <1>7, <1>16, <3>1 DEF ResolveMsg, CallOps
  <2>7. Rank(m) = 2 /\ Rank(h) = 2
    BY <1>1, <1>7, Ranks DEF CallOps
  <2> QED
    BY <1>7, <1>16, <2>3, <2>4, <2>5, <2>6, <2>7 DEF MsgInv
<1>19. \A n : ~ Gives(Head(stack), n)
  BY DEF Gives
<1>20. Head(stack).op \notin {"reply", "conjunction"} /\ Head(stack).op \in CallOps
  BY DEF CallOps
<1>21. Books(new, remote, Of(<<m>>) \cup Rest)
  BY <1>13, <1>14
<1>22. \A o \in Of(<<m>>) : MsgInv(o)' /\ o.op # "callback" /\ Rank(o) = Rank(Head(stack))
  BY <1>1, <1>14, <1>18
<1>23. GivenStep(new)
  BY <1>17 DEF GivenStep
<1> QED
  BY <1>3, <1>4, <1>12, <1>14, <1>15, <1>19, <1>20, <1>21, <1>22, <1>23, OwnerLive

\* A message that changes no owner is done.
LEMMA GoneLive ==
  ASSUME Ready, Head(stack).op \notin {"reply", "conjunction"}, \A n : ~ Gives(Head(stack), n),
         NEW new, Done(new, <<>>), Books(new, remote, Rest),
         new.owner = store.owner, new.given = store.given,
         store.metadata \subseteq new.metadata,
         \A n \in Nfts : Out(new, remote, n) =>
           \/ Out(store, remote, n)
           \/ Head(stack).op = "receiveNft" /\ n = Head(stack).nft
  PROVE  Live'
<1>1. PICK msgs : msgs = <<>>
  OBVIOUS
<1>2. IsSeq(msgs) /\ Len(msgs) <= 1 /\ Of(msgs) = {} /\ \A i \in 1..Len(msgs) : FALSE
  BY <1>1, NoMsgs, OfNone
<1>3. Of(msgs) \cup Rest = Rest
  BY <1>2
<1>4. Books(new, remote, Of(msgs) \cup Rest)
  BY <1>3
<1>5. \A m \in Of(msgs) : MsgInv(m)' /\ m.op # "callback"
  BY <1>2
<1>6. \A i \in 1..Len(msgs) : Rank(msgs[i]) = Rank(Head(stack))
  BY <1>2
<1>7. Done(new, msgs)
  BY <1>1
<1> QED
  BY <1>2, <1>4, <1>5, <1>6, <1>7, StepLive DEF Ready, GivenStep

\* The bridge has an NFT and sends it out.
LEMMA ReceiveNftLive ==
  ASSUME Ready, ExecReceiveNft(Head(stack))
  PROVE  Live'
<1>1. PICK h, x, p, new :
        /\ h = Head(stack) /\ x = h.nft
        /\ p = [seq |-> store.nextSeq, nft |-> h.nft, channel |-> h.channel,
                sender |-> h.by, callback |-> h.callback, state |-> "sent"]
        /\ new = [store EXCEPT !.registry = @ \cup {h.nft.class},
                               !.outgoing[h.nft] = h.channel,
                               !.packets = @ \cup {p}, !.nextSeq = @ + 1]
  OBVIOUS
<1>2. h.op = "receiveNft" /\ Done(new, <<>>)
  BY <1>1 DEF ExecReceiveNft
<1>3. MsgOK(h) /\ MsgInv(h) /\ store.owner[x] = Ics721
  BY <1>1, <1>2, HeadFacts DEF Ready, Works
<1>4. x \in Nfts /\ h.channel \in Channels /\ ~ Out(store, remote, x) /\ x \notin store.given
  BY <1>1, <1>2, <1>3 DEF MsgOK, BaseOK, MsgInv, CommonMsg
<1>5. /\ Waiting = {h} \cup Rest /\ Books(store, remote, Waiting) /\ store \in Stores
  BY <1>1, HeadFacts
<1>6. p.nft = x /\ p.channel = h.channel /\ p.state = "sent"
  BY <1>1
<1>7. /\ new.owner = store.owner /\ new.incoming = store.incoming
      /\ new.metadata = store.metadata /\ new.registry = store.registry \cup {x.class}
      /\ new.packets = store.packets \cup {p} /\ new.given = store.given
      /\ new.outgoing[x] = h.channel
      /\ \A n \in Nfts : n # x => new.outgoing[n] = store.outgoing[n]
  BY <1>1, <1>4, <1>5 DEF Stores
<1>8. (\A n \in Nfts : n # x => Keeps(Waiting, Rest, n)) /\ KeepsVoucher(Waiting, Rest, x)
  <2>1. Waiting \subseteq Rest \cup {h}
    BY <1>5
  <2> QED
    BY <1>1, <1>2, <2>1, OtherRole
<1>9. Books(new, remote, Rest)
  <2>1. PICK c \in Channels : c = h.channel
    BY <1>4
  <2>2. p.channel = c /\ new.outgoing[x] = c
    BY <1>6, <1>7, <2>1
  <2> QED
    BY ONLY <1>3, <1>4, <1>5, <1>6, <1>7, <1>8, <2>1, <2>2, SentBooks, SMTT(60)
<1>10. \A n \in Nfts : Out(new, remote, n) => Out(store, remote, n) \/ n = x
  BY <1>6, <1>7 DEF Out, AwayIn
<1>11. \A n : ~ Gives(Head(stack), n)
  BY <1>1, <1>2 DEF Gives
<1>12. Head(stack).op \notin {"reply", "conjunction"} /\ store.metadata \subseteq new.metadata
  BY <1>1, <1>2, <1>7
<1> QED
  BY <1>1, <1>2, <1>7, <1>9, <1>10, <1>11, <1>12, GoneLive

\* An NFT of the callback contract is not away, and was not given to the bridge.
LEMMA HookOwns ==
  ASSUME Ready, Head(stack).op = "callback", NEW nft \in Nfts, store.owner[nft] = Hook
  PROVE  /\ ~ Out(store, remote, nft) /\ nft \notin store.given /\ store.owner[nft] # NoOne
         /\ Books(store, remote, Waiting) /\ store \in Stores
         /\ \A n : Keeps(Waiting, Rest, n)
         /\ \A n : ~ Gives(Head(stack), n)
         /\ Head(stack).op \in CallOps /\ Head(stack).op \notin {"reply", "conjunction"}
<1>1. PICK h : h = Head(stack)
  OBVIOUS
<1>2. /\ Waiting = {h} \cup Rest /\ Books(store, remote, Waiting) /\ store \in Stores
  BY <1>1, HeadFacts
<1>3. Hook # NoOne /\ Hook # Ics721
  BY Names DEF Senders
<1>4. ~ Out(store, remote, nft) /\ nft \notin store.given
  BY <1>2, <1>3 DEF Books, Book, Noted, Out, Escrowed
<1>5. h.op \notin RoleOps /\ Waiting \subseteq Rest \cup {h}
  BY <1>1, <1>2 DEF RoleOps
<1>6. \A n : Keeps(Waiting, Rest, n)
  BY <1>5, NoRole
<1>7. \A n : ~ Gives(Head(stack), n)
  BY DEF Gives
<1> QED
  BY <1>2, <1>3, <1>4, <1>6, <1>7 DEF CallOps

\* The callback contract hands on an NFT that it owns.
LEMMA GiveLive ==
  ASSUME Ready, Head(stack).op = "callback", NEW nft \in Nfts, NEW to \in Accounts,
         store.owner[nft] = Hook, Done(HandedTo(nft, to, TRUE), <<>>)
  PROVE  Live'
<1>1. PICK G : G = IF to = Ics721 THEN store.given \cup {nft} ELSE store.given
  OBVIOUS
<1>2. PICK new : new = [store EXCEPT !.owner[nft] = to, !.given = G]
  OBVIOUS
<1>3. Done(new, <<>>) /\ GivenBut(store, G, nft)
  BY <1>1, <1>2 DEF HandedTo, GivenBut
<1>4. /\ ~ Out(store, remote, nft) /\ nft \notin store.given /\ store.owner[nft] # NoOne
      /\ Books(store, remote, Waiting) /\ store \in Stores
      /\ \A n : Keeps(Waiting, Rest, n)
      /\ \A n : ~ Gives(Head(stack), n)
      /\ Head(stack).op \in CallOps /\ Head(stack).op \notin {"reply", "conjunction"}
  BY HookOwns
<1>5. KeepsVoucher(Waiting, Rest, nft)
  BY <1>4 DEF Keeps, KeepsVoucher
<1>6. nft \in G <=> to = Ics721
  BY <1>1, <1>4
<1>7. Books(new, remote, Rest)
  BY <1>2, <1>3, <1>4, <1>5, <1>6, GiveBooks
<1>8. GivenStep(new)
  BY <1>4 DEF GivenStep
<1> QED
  BY <1>2, <1>3, <1>4, <1>7, <1>8, HandedLive

\* Or burns it.
LEMMA HookBurnLive ==
  ASSUME Ready, Head(stack).op = "callback", NEW nft \in Nfts,
         store.owner[nft] = Hook, Done([store EXCEPT !.owner[nft] = NoOne], <<>>)
  PROVE  Live'
<1>1. PICK new : new = [store EXCEPT !.owner[nft] = NoOne]
  OBVIOUS
<1>2. /\ ~ Out(store, remote, nft) /\ nft \notin store.given
      /\ Books(store, remote, Waiting) /\ store \in Stores
      /\ \A n : Keeps(Waiting, Rest, n)
      /\ \A n : ~ Gives(Head(stack), n)
      /\ Head(stack).op \in CallOps /\ Head(stack).op \notin {"reply", "conjunction"}
  BY HookOwns
<1>3. /\ (\E m \in Waiting : Mints(m, nft)) => \E m \in Rest : Mints(m, nft)
      /\ (\E m \in Waiting : Enters(m, nft)) => \E m \in Rest : Enters(m, nft)
  BY <1>2 DEF Keeps
<1>4. Books(new, remote, Rest)
  BY <1>1, <1>2, <1>3, BurnBooks
<1>5. new = [store EXCEPT !.owner[nft] = NoOne, !.given = store.given]
  BY <1>1, <1>2, OwnerOnly
<1>6. Done(new, <<>>)
  BY <1>1
<1>7. GivenStep(new)
  BY <1>2 DEF GivenStep
<1> QED
  BY <1>2, <1>4, <1>5, <1>6, <1>7, HandedLive

\* It sends one away that is not being redeemed, or pauses the bridge.
LEMMA CallLive ==
  ASSUME Ready, Head(stack).op = "callback", NEW m, m.op \in {"sendNft", "pause"},
         m.op = "sendNft" => m.nft \notin BeingRedeemed, Done(store, <<m>>)
  PROVE  Live'
<1>1. PICK msgs : msgs = <<m>>
  OBVIOUS
<1>2. IsSeq(msgs) /\ Len(msgs) <= 1 /\ Of(msgs) = {m} /\ Done(store, msgs)
  BY <1>1, OneMsg, OfOne
<1>3. /\ Waiting' = {m} \cup Rest /\ store' = store /\ tx' = tx /\ remote' = remote
  BY <1>2, DoneWaiting DEF Ready
<1>4. MsgInv(m)'
  <2>1. MsgInv(Head(stack))
    BY HeadFacts
  <2>2. CommonMsg(m)'
    <3>1. m = Head(stack')
      BY NewHead DEF Ready
    <3> QED
      BY <3>1 DEF CommonMsg
  <2>3. tx.kind = "receive" => ReceiveMsg(m)'
    BY <1>3 DEF ReceiveMsg, ComesBack, BeingRedeemed, PacketOps, EntriesOps, FirstOps
  <2>4. tx.kind # "send"
    BY <2>1 DEF MsgInv, SendMsg
  <2>5. ASSUME tx.kind = "resolve"
        PROVE  ResolveMsg(m)'
    <3>1. \E r \in Rest : r.op = "reply"
      BY <2>5, ReplyWaits DEF CallOps
    <3> QED
      BY <1>3, <3>1 DEF ResolveMsg, CallOps
  <2> QED
    BY <1>3, <2>2, <2>3, <2>4, <2>5 DEF MsgInv
<1>5. Rank(m) = 2 /\ Rank(Head(stack)) = 2
  BY Ranks DEF CallOps
<1>6. \A n : ~ Gives(Head(stack), n)
  BY DEF Gives
<1>7. Head(stack).op \notin RoleOps \cup {"reply"}
  BY DEF RoleOps
<1>8. \A o \in Of(msgs) : MsgInv(o)' /\ o.op # "callback" /\ Rank(o) = Rank(Head(stack))
  BY <1>2, <1>4, <1>5
<1> QED
  BY <1>2, <1>6, <1>7, <1>8, CalmLive

\* The channel the NFTs went out on is removed.
LEMMA RedeemEntriesLive ==
  ASSUME Ready, ExecRedeemEntries(Head(stack))
  PROVE  Live'
<1>1. PICK h, packet, N, new :
        /\ h = Head(stack) /\ packet = tx.packet /\ N = PacketNfts(packet)
        /\ new = [store EXCEPT !.outgoing = SetAll(@, N, NoChannel)]
  OBVIOUS
<1>2. h.op = "redeemEntries"
  BY <1>1 DEF ExecRedeemEntries
<1>3. tx.kind = "receive" /\ ReceiveMsg(h) /\ Missing
  BY <1>1, <1>2, PacketOpsKind DEF PacketOps, EntriesOps
<1>4. h.packet = packet /\ ComesBack
  BY <1>1, <1>2, <1>3 DEF ReceiveMsg, PacketOps, EntriesOps
<1>5. Done(new, <<>>)
  BY <1>1, <1>4 DEF ExecRedeemEntries
<1>6. /\ Waiting = {h} \cup Rest /\ Books(store, remote, Waiting) /\ store \in Stores
  BY <1>1, HeadFacts
<1>7. h.op \notin RoleOps /\ Waiting \subseteq Rest \cup {h}
  BY <1>2, <1>6 DEF RoleOps
<1>8. \A n : Keeps(Waiting, Rest, n)
  BY <1>7, NoRole
<1>9. \A n \in N : ~ Out(store, remote, n)
  BY <1>1, <1>3, <1>4 DEF Missing
<1>10. Books(new, remote, Rest)
  BY <1>1, <1>6, <1>8, <1>9, RedeemedBooks
<1>11. /\ new.owner = store.owner /\ new.metadata = store.metadata
       /\ new.packets = store.packets /\ new.given = store.given
  BY <1>1, <1>6 DEF Stores
<1>12. \A n : Out(new, remote, n) <=> Out(store, remote, n)
  BY <1>11 DEF Out, AwayIn
<1>13. \A n : ~ Gives(Head(stack), n)
  BY <1>1, <1>2 DEF Gives
<1>14. Head(stack).op \notin {"reply", "conjunction"} /\ store.metadata \subseteq new.metadata
  BY <1>1, <1>2, <1>11
<1> QED
  BY <1>5, <1>10, <1>11, <1>12, <1>13, <1>14, GoneLive

\* The channel new vouchers came by is entered.
LEMMA AddEntriesLive ==
  ASSUME Ready, ExecAddEntries(Head(stack))
  PROVE  Live'
<1>1. PICK h, packet, N, new :
        /\ h = Head(stack) /\ packet = tx.packet /\ N = PacketNfts(packet)
        /\ new = [store EXCEPT !.incoming = SetAll(@, N, packet.channel)]
  OBVIOUS
<1>2. h.op = "addEntries"
  BY <1>1 DEF ExecAddEntries
<1>3. tx.kind = "receive" /\ ReceiveMsg(h) /\ Served /\ packet \in PacketsIn /\ N \subseteq Nfts
  BY <1>1, <1>2, PacketOpsKind DEF PacketOps, EntriesOps
<1>4. h.packet = packet /\ packet.class = packet.channel
  BY <1>1, <1>2, <1>3 DEF ReceiveMsg, PacketOps, EntriesOps, ComesBack
<1>5. Done(new, <<>>)
  BY <1>1, <1>4 DEF ExecAddEntries
<1>6. /\ Waiting = {h} \cup Rest /\ Books(store, remote, Waiting) /\ store \in Stores
      /\ Ordered
  BY <1>1, HeadFacts
<1>7. \A m \in Rest : m.op \notin FirstOps \cup NftOps \cup CallOps
  BY <1>1, <1>2, <1>6, RestOps DEF Ready, EntriesOps
<1>8. ASSUME NEW m \in Waiting, NEW n
      PROVE  ~ Gives(m, n) /\ ~ Moves(m, n) /\ ~ Burns(m, n) /\ ~ Mints(m, n)
  <2>1. m.op \notin FirstOps \cup NftOps \cup CallOps
    BY <1>2, <1>6, <1>7 DEF FirstOps, NftOps, CallOps
  <2> QED
    BY <2>1 DEF Gives, Moves, Burns, Mints, FirstOps, NftOps, CallOps
<1>9. \A n \in N : n.class = packet.channel /\ n \in store.metadata
  BY <1>1, <1>3, <1>4, <1>8, PacketNftsIn DEF Served, ComesBack
<1>10. ASSUME NEW n, n \notin N
       PROVE  Keeps(Waiting, Rest, n)
  <2>1. ~ Moves(h, n) /\ ~ Burns(h, n) /\ ~ Mints(h, n) /\ ~ Enters(h, n)
    BY <1>1, <1>2, <1>4, <1>10 DEF Moves, Burns, Mints, Enters
  <2>2. Waiting \subseteq Rest \cup {h}
    BY <1>6
  <2> QED
    BY <2>1, <2>2, KeepsDrop
<1>11. Books(new, remote, Rest)
  BY <1>1, <1>6, <1>8, <1>9, <1>10, EnteredBooks
<1>12. /\ new.owner = store.owner /\ new.metadata = store.metadata
       /\ new.packets = store.packets /\ new.given = store.given
  BY <1>1, <1>6 DEF Stores
<1>13. \A n : Out(new, remote, n) <=> Out(store, remote, n)
  BY <1>12 DEF Out, AwayIn
<1>14. \A n : ~ Gives(Head(stack), n)
  BY <1>1, <1>2 DEF Gives
<1>15. Head(stack).op \notin {"reply", "conjunction"} /\ store.metadata \subseteq new.metadata
  BY <1>1, <1>2, <1>12
<1> QED
  BY <1>5, <1>11, <1>12, <1>13, <1>14, <1>15, GoneLive

\* Messages of ranks lo to hi, each higher than the one before.
Sorted(s, lo, hi) ==
  /\ IsSeq(s) /\ \A i \in 1..Len(s) : Rank(s[i]) \in lo..hi
  /\ \A i, j \in 1..Len(s) : i < j => Rank(s[i]) < Rank(s[j])

\* None or one.
LEMMA SortedShort ==
  ASSUME NEW m, NEW lo, NEW hi, Rank(m) \in lo..hi
  PROVE  Sorted(<<>>, lo, hi) /\ Sorted(<<m>>, lo, hi)
<1>1. Sorted(<<>>, lo, hi)
  BY NoMsgs DEF Sorted
<1>2. PICK s : s = <<m>>
  OBVIOUS
<1>3. IsSeq(s) /\ Len(s) = 1 /\ s[1] = m
  BY <1>2, OneMsg
<1>4. \A i \in 1..Len(s) : i = 1
  BY <1>3
<1>5. Sorted(s, lo, hi)
  BY <1>3, <1>4 DEF Sorted
<1> QED
  BY <1>1, <1>2, <1>5

\* Messages in front of others.
LEMMA OfConcat ==
  ASSUME NEW s, NEW t, IsSeq(s), IsSeq(t)
  PROVE  Of(s \o t) = Of(s) \cup Of(t)
<1>1. PICK r, k, l : r = s \o t /\ k = Len(s) /\ l = Len(t)
  OBVIOUS
<1>2. /\ k \in Nat /\ l \in Nat /\ Len(r) = k + l
      /\ \A i \in 1..(k + l) : r[i] = IF i <= k THEN s[i] ELSE t[i - k]
  BY <1>1, ConcatFacts, SeqFacts
<1>3. ASSUME NEW i \in 1..(k + l)
      PROVE  r[i] \in Of(s) \cup Of(t)
  <2>1. CASE i <= k
    BY <1>1, <1>2, <2>1 DEF Of
  <2>2. CASE i > k
    <3>1. i - k \in 1..l /\ r[i] = t[i - k]
      BY <1>2, <2>2
    <3> QED
      BY <1>1, <3>1 DEF Of
  <2> QED
    BY <1>2, <2>1, <2>2
<1>4. ASSUME NEW i \in 1..k
      PROVE  s[i] \in Of(r)
  <2>1. i \in 1..(k + l) /\ r[i] = s[i]
    BY <1>2
  <2> QED
    BY <1>2, <2>1 DEF Of
<1>5. ASSUME NEW i \in 1..l
      PROVE  t[i] \in Of(r)
  <2>1. k + i \in 1..(k + l) /\ ~ (k + i <= k) /\ (k + i) - k = i
    BY <1>2
  <2>2. r[k + i] = t[i]
    BY <1>2, <2>1
  <2> QED
    BY <1>2, <2>1, <2>2 DEF Of
<1>6. /\ Of(r) = {r[i] : i \in 1..(k + l)}
      /\ Of(s) = {s[i] : i \in 1..k} /\ Of(t) = {t[i] : i \in 1..l}
  BY <1>1, <1>2 DEF Of
<1>7. Of(r) \subseteq Of(s) \cup Of(t)
  BY <1>3, <1>6
<1>8. Of(s) \subseteq Of(r) /\ Of(t) \subseteq Of(r)
  BY <1>4, <1>5, <1>6
<1> QED
  BY <1>1, <1>7, <1>8

\* Lower ones in front of higher ones.
LEMMA SortedConcat ==
  ASSUME NEW lo \in Int, NEW mid \in Int, NEW hi \in Int, lo <= mid, mid < hi,
         NEW s, NEW t, Sorted(s, lo, mid), Sorted(t, mid + 1, hi)
  PROVE  Sorted(s \o t, lo, hi) /\ Of(s \o t) = Of(s) \cup Of(t)
<1>1. PICK r, k, l : r = s \o t /\ k = Len(s) /\ l = Len(t)
  OBVIOUS
<1>2. /\ k \in Nat /\ l \in Nat /\ Len(r) = k + l /\ IsSeq(r)
      /\ \A i \in 1..(k + l) : r[i] = IF i <= k THEN s[i] ELSE t[i - k]
  BY <1>1, ConcatFacts, SeqFacts DEF Sorted
<1>3. ASSUME NEW i \in 1..(k + l), i <= k
      PROVE  i \in 1..k /\ r[i] = s[i] /\ Rank(r[i]) \in lo..mid
  BY <1>1, <1>2, <1>3 DEF Sorted
<1>4. ASSUME NEW i \in 1..(k + l), ~ (i <= k)
      PROVE  i - k \in 1..l /\ r[i] = t[i - k] /\ Rank(r[i]) \in (mid + 1)..hi
  <2>1. i - k \in 1..l /\ r[i] = t[i - k]
    BY <1>2, <1>4
  <2> QED
    BY <1>1, <2>1 DEF Sorted
<1>5. \A i \in 1..(k + l) : Rank(r[i]) \in lo..hi
  BY <1>3, <1>4
<1>6. ASSUME NEW i \in 1..(k + l), NEW j \in 1..(k + l), i < j
      PROVE  Rank(r[i]) < Rank(r[j])
  <2>1. CASE j <= k
    <3>1. i <= k
      BY <1>2, <1>6, <2>1
    <3> QED
      BY <1>1, <1>3, <1>6, <2>1, <3>1 DEF Sorted
  <2>2. CASE i <= k /\ ~ (j <= k)
    BY <1>3, <1>4, <2>2
  <2>3. CASE ~ (i <= k)
    <3>1. ~ (j <= k) /\ i - k < j - k
      BY <1>2, <1>6, <2>3
    <3> QED
      BY <1>1, <1>4, <2>3, <3>1 DEF Sorted
  <2> QED
    BY <2>1, <2>2, <2>3
<1>7. Sorted(r, lo, hi)
  BY <1>2, <1>5, <1>6 DEF Sorted
<1>8. Of(r) = Of(s) \cup Of(t)
  BY <1>1, OfConcat DEF Sorted
<1> QED
  BY <1>1, <1>7, <1>8

\* What the conjunction is for a packet: at most a proxy and a callback, and two messages
\* for its NFTs.
LEMMA OperandsSorted ==
  ASSUME NEW packet \in PacketsIn, NEW front, NEW entries,
         front = (IF IsRedemption(packet) THEN RedeemVouchers(packet) ELSE CreateVouchers(packet)),
         entries = (IF IsRedemption(packet) THEN RedeemOutgoingChannelEntries(packet)
                                            ELSE AddIncomingChannelEntries(packet))
  PROVE  /\ Sorted(Operands(packet), 0, 3)
         /\ front \in Of(Operands(packet))
         /\ \A m \in Of(Operands(packet)) : m \in {ProxyMsg, front, Callback, entries}
<1>1. PICK a, b, c, d :
        /\ a = (IF store.incomingProxy THEN <<ProxyMsg>> ELSE <<>>)
        /\ b = <<front>>
        /\ c = (IF packet.callback THEN <<Callback>> ELSE <<>>)
        /\ d = <<entries>>
  OBVIOUS
<1>2. Operands(packet) = a \o b \o c \o d
  BY <1>1 DEF Operands
<1>3. front.op \in {"redeem", "create"} /\ entries.op \in EntriesOps
  BY DEF RedeemVouchers, CreateVouchers, RedeemOutgoingChannelEntries,
         AddIncomingChannelEntries, EntriesOps
<1>4. Rank(ProxyMsg) = 0 /\ Rank(front) = 1 /\ Rank(Callback) = 2 /\ Rank(entries) = 3
  BY <1>3, Ranks DEF ProxyMsg, Callback, FirstOps, NftOps, CallOps
<1>5. Sorted(a, 0, 0) /\ Sorted(b, 1, 1) /\ Sorted(c, 2, 2) /\ Sorted(d, 3, 3)
  <2>1. /\ Rank(ProxyMsg) \in 0..0 /\ Rank(front) \in 1..1 /\ Rank(Callback) \in 2..2
        /\ Rank(entries) \in 3..3
    BY <1>4
  <2>2. Sorted(<<>>, 0, 0) /\ Sorted(<<ProxyMsg>>, 0, 0)
    BY <2>1, SortedShort
  <2>3. Sorted(<<>>, 2, 2) /\ Sorted(<<Callback>>, 2, 2)
    BY <2>1, SortedShort
  <2>4. Sorted(<<front>>, 1, 1) /\ Sorted(<<entries>>, 3, 3)
    BY <2>1, SortedShort
  <2> QED
    BY <1>1, <2>2, <2>3, <2>4
<1>6. PICK ab : ab = a \o b
  OBVIOUS
<1>7. Sorted(ab, 0, 1) /\ Of(ab) = Of(a) \cup Of(b)
  BY <1>5, <1>6, SortedConcat
<1>8. PICK abc : abc = ab \o c
  OBVIOUS
<1>9. Sorted(abc, 0, 2) /\ Of(abc) = Of(ab) \cup Of(c)
  BY <1>5, <1>7, <1>8, SortedConcat
<1>10. Sorted(abc \o d, 0, 3) /\ Of(abc \o d) = Of(abc) \cup Of(d)
  BY <1>5, <1>9, SortedConcat
<1>11. Of(a) \subseteq {ProxyMsg} /\ Of(b) = {front} /\ Of(c) \subseteq {Callback}
       /\ Of(d) = {entries}
  BY <1>1, OfNone, OfOne
<1>12. Operands(packet) = abc \o d
  BY <1>2, <1>6, <1>8
<1> QED
  BY <1>7, <1>9, <1>10, <1>11, <1>12

\* The conjunction is taken apart.
LEMMA ConjunctionLive ==
  ASSUME Ready, ReceiveInv, ExecConjunction(Head(stack))
  PROVE  Live'
<1>1. PICK h, packet, ops, front, entries :
        /\ h = Head(stack) /\ packet = tx.packet /\ ops = Operands(packet)
        /\ front = (IF IsRedemption(packet) THEN RedeemVouchers(packet)
                                            ELSE CreateVouchers(packet))
        /\ entries = (IF IsRedemption(packet) THEN RedeemOutgoingChannelEntries(packet)
                                              ELSE AddIncomingChannelEntries(packet))
  OBVIOUS
<1>2. h.op = "conjunction"
  BY <1>1 DEF ExecConjunction
<1>3. /\ tx.kind = "receive" /\ ReceiveMsg(h) /\ Missing /\ Served
      /\ packet \in PacketsIn /\ PacketNfts(packet) \subseteq Nfts
  BY <1>1, <1>2, PacketOpsKind
<1>4. /\ h.operands = ops /\ (IsRedemption(packet) <=> ComesBack) /\ store = tx.before
      /\ ComesBack =>
           \A n \in PacketNfts(packet) : n \in store.given => packet.receiver = Ics721
  BY <1>1, <1>2, <1>3 DEF ReceiveMsg, FirstOps
<1>5. Done(store, ops)
  BY <1>1, <1>4 DEF ExecConjunction
<1>6. /\ Sorted(ops, 0, 3) /\ front \in Of(ops)
      /\ \A m \in Of(ops) : m \in {ProxyMsg, front, Callback, entries}
  BY <1>1, <1>3, OperandsSorted
<1>7. IsSeq(ops)
  BY <1>6 DEF Sorted
<1>8. /\ Waiting = {h} \cup Rest /\ Waiting' = Of(ops) \cup Rest
      /\ store' = store /\ tx' = tx /\ remote' = remote
      /\ Books(store, remote, Waiting) /\ IsSeq(stack)
  BY <1>1, <1>5, <1>7, HeadFacts, DoneWaiting DEF Ready, TypeInv
<1>9. /\ Len(stack) \in Nat /\ stack[1] = h /\ Len(stack) = 2 /\ stack[2].op = "reply"
  <2>1. Len(stack) \in Nat /\ Len(stack) >= 1 /\ stack[1] = h /\ stack # <<>>
    BY <1>1, <1>8, SeqFacts DEF Ready
  <2>2. InProgress
    BY <1>3, <2>1 DEF ReceiveInv
  <2>3. stack[Len(stack)].op = "reply"
    BY <2>2 DEF InProgress
  <2>4. Len(stack) # 1
    BY <1>2, <2>1, <2>3
  <2>5. ~ (Len(stack) > 2)
    BY <1>2, <2>1, <2>2 DEF InProgress
  <2>6. PICK l : l = Len(stack)
    OBVIOUS
  <2>7. l \in Nat /\ l >= 1 /\ l # 1 /\ ~ (l > 2)
    BY <2>1, <2>4, <2>5, <2>6
  <2>8. l = 2
    BY <2>7
  <2> QED
    BY <2>1, <2>3, <2>6, <2>8
<1>10. Sorted(Tail(stack), 4, 4)
  <2>1. PICK t : t = Tail(stack)
    OBVIOUS
  <2>2. IsSeq(t) /\ Len(t) = 1 /\ t[1] = stack[2]
    <3>1. /\ IsSeq(t) /\ Len(t) = Len(stack) - 1
          /\ \A i \in 1..(Len(stack) - 1) : t[i] = stack[i + 1]
      BY <1>8, <2>1, TailFacts DEF Ready
    <3>2. Len(stack) - 1 = 1 /\ 1 \in 1..(Len(stack) - 1) /\ 1 + 1 = 2
      BY <1>9
    <3> QED
      BY <3>1, <3>2
  <2>3. Rank(stack[2]) = 4
    BY <1>9 DEF Rank, FirstOps, NftOps, CallOps, EntriesOps
  <2>4. \A i \in 1..Len(t) : i = 1
    BY <2>2
  <2> QED
    BY <2>1, <2>2, <2>3, <2>4 DEF Sorted
<1>11. Ordered'
  <2>1. Sorted(ops \o Tail(stack), 0, 4)
    BY <1>6, <1>10, SortedConcat
  <2>2. stack' = ops \o Tail(stack)
    BY <1>5 DEF Done
  <2>3. \A i, j \in 1..Len(stack') : i < j => Rank(stack'[i]) < Rank(stack'[j])
    BY <2>1, <2>2 DEF Sorted
  <2> QED
    BY <2>3 DEF Ordered, Rank, FirstOps, NftOps, CallOps, EntriesOps
<1>12. ASSUME NEW m \in Of(ops)
       PROVE  MsgInv(m)'
  <2>1. CommonMsg(m)'
    BY <1>1, <1>6 DEF CommonMsg, ProxyMsg, Callback, RedeemVouchers, CreateVouchers,
                      RedeemOutgoingChannelEntries, AddIncomingChannelEntries
  <2>2. CASE m = ProxyMsg
    <3>1. m.op = "proxy"
      BY <2>2 DEF ProxyMsg
    <3> QED
      BY <1>3, <1>4, <1>8, <2>1, <3>1 DEF MsgInv, ReceiveMsg, PacketOps, EntriesOps
  <2>3. CASE m = Callback
    <3>1. m.op = "callback"
      BY <2>3 DEF Callback
    <3> QED
      BY <1>3, <1>8, <2>1, <3>1 DEF MsgInv, ReceiveMsg, PacketOps, EntriesOps, FirstOps
  <2>4. CASE m = front
    <3>1. m.packet = packet /\ m.op = IF ComesBack THEN "redeem" ELSE "create"
      BY <1>1, <1>4, <2>4 DEF RedeemVouchers, CreateVouchers
    <3> QED
      BY <1>1, <1>3, <1>4, <1>8, <2>1, <3>1
         DEF MsgInv, ReceiveMsg, PacketOps, EntriesOps, FirstOps, ComesBack
  <2>5. CASE m = entries
    <3>1. m.packet = packet /\ m.op = IF ComesBack THEN "redeemEntries" ELSE "addEntries"
      BY <1>1, <1>4, <2>5 DEF RedeemOutgoingChannelEntries, AddIncomingChannelEntries
    <3> QED
      BY <1>1, <1>3, <1>8, <2>1, <3>1
         DEF MsgInv, ReceiveMsg, PacketOps, EntriesOps, FirstOps, ComesBack
  <2> QED
    BY <1>6, <2>2, <2>3, <2>4, <2>5
<1>13. ASSUME NEW m \in Rest
       PROVE  MsgInv(m)'
  <2>1. Head(stack).op # "reply" /\ Head(stack).op # "receiveNft" /\ GivenStep(store)
    BY <1>1, <1>2 DEF GivenStep
  <2> QED
    BY <1>5, <1>7, <2>1, RestInv DEF Ready
<1>14. Books(store, remote, Of(ops) \cup Rest)
  <2>1. ASSUME NEW n
        PROVE  Keeps(Waiting, Of(ops) \cup Rest, n)
    <3>1. Moves(h, n) => \E m \in Of(ops) : Moves(m, n)
      BY <1>2, <1>4 DEF Moves, Of
    <3>2. ~ Burns(h, n) /\ ~ Mints(h, n) /\ ~ Enters(h, n)
      BY <1>2 DEF Burns, Mints, Enters
    <3> QED
      BY <1>8, <3>1, <3>2 DEF Keeps
  <2> QED
    BY <1>8, <2>1, FrameAll
<1>15. Missing' /\ Served'
  <2>1. Missing'
    BY <1>3, <1>8 DEF Missing, ComesBack
  <2>2. \A n : Gives(front, n)
    BY <1>1 DEF Gives, RedeemVouchers, CreateVouchers
  <2>3. Served'
    BY <1>6, <1>8, <2>2 DEF Served, Gives
  <2> QED
    BY <2>1, <2>3
<1> QED
  BY <1>8, <1>11, <1>12, <1>13, <1>14, <1>15 DEF Live

\* The acknowledgement callback is tried in a submessage of its own.
LEMMA AckCallbackLive ==
  ASSUME Ready, ExecAckCallback(Head(stack))
  PROVE  Live'
<1>1. PICK h, a, r, msgs :
        h = Head(stack) /\ a = Callback /\ r = Reply("callback") /\ msgs = <<a, r>>
  OBVIOUS
<1>2. h.op = "ackCallback" /\ Done(store, msgs)
  BY <1>1 DEF ExecAckCallback
<1>3. /\ MsgInv(h) /\ Ordered /\ Waiting = {h} \cup Rest /\ Books(store, remote, Waiting)
      /\ tx.kind \in {"send", "receive", "resolve"}
  BY <1>1, HeadFacts, TxKinds DEF Ready
<1>4. tx.kind = "resolve"
  BY <1>2, <1>3 DEF MsgInv, SendMsg, ReceiveMsg
<1>5. Rest = {}
  <2> SUFFICES ASSUME NEW m \in Rest
               PROVE  FALSE
    OBVIOUS
  <2>1. m.op \notin NftOps \cup CallOps
    BY <1>1, <1>2, <1>3, RestOps DEF Ready, CallOps
  <2>2. ResolveMsg(m)
    BY <1>3, <1>4 DEF Ready, Live, MsgInv
  <2>3. m.op = "reply"
    BY <2>1, <2>2 DEF ResolveMsg, NftOps
  <2>4. PICK i \in 2..Len(stack) : m = stack[i]
    BY DEF Rest
  <2>5. Len(stack) \in Nat /\ Len(stack) >= 1 /\ Head(stack) = stack[1]
    BY SeqFacts DEF Ready, TypeInv
  <2>6. 1 \in 1..Len(stack) /\ i \in 1..Len(stack) /\ i # 1
    BY <2>4, <2>5
  <2> QED
    BY <1>1, <1>2, <2>3, <2>4, <2>5, <2>6 DEF Ready, TypeInv
<1>6. /\ IsSeq(msgs) /\ Len(msgs) = 2 /\ msgs[1] = a /\ msgs[2] = r
  BY <1>1, TwoMsgs
<1>7. Of(msgs) = {a, r}
  <2>1. \A i : i \in 1..Len(msgs) <=> i = 1 \/ i = 2
    BY <1>6
  <2> QED
    BY <1>6, <2>1 DEF Of
<1>8. Waiting' = {a, r} /\ store' = store /\ tx' = tx /\ remote' = remote
  BY <1>2, <1>5, <1>6, <1>7, DoneWaiting DEF Ready
<1>9. a.op = "callback" /\ r.op = "reply" /\ r.saved = store
  BY <1>1 DEF Callback, Reply
<1>10. \A n : Keeps(Waiting, {}, n)
  <2>1. h.op \notin RoleOps /\ Waiting \subseteq {} \cup {h}
    BY <1>2, <1>3, <1>5 DEF RoleOps
  <2> QED
    BY <2>1, NoRole
<1>11. Books(store, remote, {})
  BY <1>3, <1>10, FrameAll
<1>12. Books(store, remote, {a, r})
  <2>1. \A n : Keeps({}, {a, r}, n)
    BY DEF Keeps
  <2> QED
    BY <1>11, <2>1, FrameAll
<1>13. Ordered'
  <2>1. Rank(a) \in 2..3 /\ Rank(r) \in 4..4
    BY <1>9 DEF Rank, FirstOps, NftOps, CallOps, EntriesOps
  <2>2. IsSeq(stack) /\ Len(stack) \in Nat /\ Len(stack) >= 1
    BY SeqFacts DEF Ready, TypeInv
  <2>3. /\ Len(stack') = 2 + Len(stack) - 1
        /\ \A i \in 1..Len(stack') :
             stack'[i] = IF i <= 2 THEN msgs[i] ELSE stack[i - 2 + 1]
    BY <1>2, <1>6, NewStack DEF Ready
  <2>4. PICK l : l = Len(stack)
    OBVIOUS
  <2>5. l = 1
    <3>1. l \in Nat /\ l >= 1 /\ ~ (2 \in 2..l)
      BY <1>5, <2>2, <2>4 DEF Rest
    <3> QED
      BY <3>1
  <2>6. Len(stack') = 2 /\ stack'[1] = a /\ stack'[2] = r
    BY <1>6, <2>3, <2>4, <2>5
  <2>7. \A i, j \in 1..Len(stack') : i < j => i = 1 /\ j = 2
    BY <2>6
  <2>8. \A i, j \in 1..Len(stack') : i < j => Rank(stack'[i]) < Rank(stack'[j])
    BY <2>1, <2>6, <2>7
  <2> QED
    BY <2>8 DEF Ordered, Rank, FirstOps, NftOps, CallOps, EntriesOps
<1>14. ASSUME NEW m \in {a, r}
       PROVE  MsgInv(m)'
  <2>1. m.op \in {"callback", "reply"}
    BY <1>9
  <2>2. CommonMsg(m)'
    BY <2>1 DEF CommonMsg
  <2>3. m.op = "reply" => Books(m.saved, remote, {})
    BY <1>9, <1>11
  <2>4. ResolveMsg(m)'
    BY <1>8, <1>9, <2>1, <2>3 DEF ResolveMsg, CallOps
  <2> QED
    BY <1>4, <1>8, <2>2, <2>4 DEF MsgInv
<1> QED
  BY <1>4, <1>8, <1>12, <1>13, <1>14 DEF Live

\* What the callback contract does.
LEMMA CallbackLive ==
  ASSUME Ready, ~ ResendsRedeemed, ExecCallback(Head(stack))
  PROVE  Live'
<1>1. Head(stack).op = "callback"
  BY DEF ExecCallback
<1>2. CASE Done(store, <<>>)
  BY <1>1, <1>2, QuietLive
<1>3. ASSUME NEW nft \in Nfts, NEW to \in Accounts, store.owner[nft] = Hook,
             Done(HandedTo(nft, to, TRUE), <<>>)
      PROVE  Live'
  BY <1>1, <1>3, GiveLive
<1>6. ASSUME NEW nft \in Nfts, store.owner[nft] = Hook,
             Done([store EXCEPT !.owner[nft] = NoOne], <<>>)
      PROVE  Live'
  BY <1>1, <1>6, HookBurnLive
<1>4. ASSUME NEW nft \in Nfts, NEW channel \in Channels, nft \notin BeingRedeemed,
             Done(store, <<SendNft(nft, Hook, Via, channel, FALSE)>>)
      PROVE  Live'
  <2>1. PICK m : m = SendNft(nft, Hook, Via, channel, FALSE)
    OBVIOUS
  <2>2. m.op = "sendNft" /\ m.nft = nft
    BY <2>1 DEF SendNft
  <2>3. m.op \in {"sendNft", "pause"} /\ m.nft \notin BeingRedeemed
    BY <1>4, <2>2
  <2>4. Done(store, <<m>>)
    BY <1>4, <2>1
  <2> QED
    BY <1>1, <2>3, <2>4, CallLive
<1>5. CASE Done(store, <<PauseBridge>>)
  <2>1. PICK m : m = PauseBridge
    OBVIOUS
  <2>2. m.op = "pause"
    BY <2>1 DEF PauseBridge
  <2> QED
    BY <1>1, <1>5, <2>1, <2>2, CallLive
<1> QED
  BY <1>2, <1>3, <1>4, <1>5, <1>6 DEF ExecCallback

\* Every message that works.
LEMMA ExecuteLive ==
  ASSUME Ready, ReceiveInv, ~ ResendsRedeemed, Execute(Head(stack)),
         ~ (ExecProxy(Head(stack)) /\ Failed)
  PROVE  Live' /\ tx' = tx
<1>0. tx' = tx
  BY DEF Execute, ExecConjunction, ExecRedeem, ExecCreate, ExecMint, ExecRedeemEntries,
         ExecAddEntries, ExecReceiveNft, ExecPause, ExecAckCallback, ExecCollection,
         ExecProxy, ExecCallback, Done
<1> SUFFICES Live'
  BY <1>0
<1>1. CASE \/ ExecConjunction(Head(stack)) \/ ExecRedeem(Head(stack))
           \/ ExecCreate(Head(stack)) \/ ExecMint(Head(stack))
  BY <1>1, ConjunctionLive, RedeemLive, CreateLive, MintLive
<1>2. CASE \/ ExecRedeemEntries(Head(stack)) \/ ExecAddEntries(Head(stack))
           \/ ExecReceiveNft(Head(stack)) \/ ExecPause(Head(stack))
           \/ ExecAckCallback(Head(stack))
  BY <1>2, RedeemEntriesLive, AddEntriesLive, ReceiveNftLive, QuietLive, AckCallbackLive
<1>3. CASE ExecCollection(Head(stack))
  <2>1. CASE Head(stack).op = "instantiate" /\ Done(store, <<>>)
    BY <2>1, QuietLive
  <2>2. CASE /\ Head(stack).op = "transfer"
             /\ Done(HandedTo(Head(stack).nft, Head(stack).to, tx.kind = "receive"), <<>>)
    BY <2>2, TransferLive
  <2>3. CASE /\ Head(stack).op = "mintNft"
             /\ Done(HandedTo(Head(stack).nft, Head(stack).to, tx.kind = "receive"), <<>>)
    <3>1. tx.kind = "receive"
      BY <2>3, PacketOpsKind
    <3>2. stack # <<>>
      BY DEF Ready
    <3>3. InProgress
      BY <3>1, <3>2 DEF ReceiveInv
    <3> QED
      BY <2>3, <3>3, MintNftLive
  <2>4. CASE /\ Head(stack).op = "burn"
             /\ Done([store EXCEPT !.owner[Head(stack).nft] = NoOne], <<>>)
    BY <2>4, BurnLive
  <2>5. CASE /\ Head(stack).op = "sendNft"
             /\ Done([store EXCEPT !.owner[Head(stack).nft] = Ics721],
                     <<ReceiveNft(Head(stack))>>)
    BY <2>5, SendNftLive
  <2> QED
    BY <1>3, <2>1, <2>2, <2>3, <2>4, <2>5 DEF ExecCollection
<1>4. CASE ExecProxy(Head(stack))
  <2>1. Done(store, <<>>)
    BY <1>4 DEF ExecProxy
  <2> QED
    BY <1>4, <2>1, QuietLive
<1>5. CASE ExecCallback(Head(stack))
  BY <1>5, CallbackLive
<1> QED
  BY <1>1, <1>2, <1>3, <1>4, <1>5 DEF Execute

-----------------------------------------------------------------------------
(* A message fails, or a submessage is over.                               *)

\* Nothing waits any more.
LEMMA NothingLive ==
  ASSUME stack' = <<>>, Books(store', remote', {}), tx'.kind # "receive"
  PROVE  Live'
<1>1. Waiting' = {}
  BY OfNone DEF Waiting, Of
<1>2. Ordered'
  BY NoMsgs DEF Ordered, Rank, FirstOps, NftOps, CallOps, EntriesOps
<1>3. Books(store, remote, Waiting)'
  BY <1>1
<1> QED
  BY <1>1, <1>2, <1>3 DEF Live

\* When a packet ends no message fails but those of the callback contract, and they
\* leave the books as they were.
LEMMA FailedResolve ==
  ASSUME TypeInv, ResolveInv, Live, ~ NoTx, stack # <<>>, tx.kind = "resolve", Failed,
         \/ ~ Works(Head(stack))
         \/ ExecProxy(Head(stack))
         \/ CallbackFails(Head(stack))
  PROVE  Live' /\ tx' = tx /\ remote' = remote
<1>1. PICK h : h = Head(stack)
  OBVIOUS
<1>2. Len(stack) \in Nat /\ Len(stack) >= 1 /\ h = stack[1]
  BY <1>1, SeqFacts DEF TypeInv
<1>3. h \in Waiting
  BY <1>2 DEF Waiting, Of
<1>4. ResolveMsg(h)
  BY <1>3 DEF Live, MsgInv
<1>5. h.op \in CallOps \ {"ackCallback"}
  <2>1. CASE ~ Works(h)
    <3>1. h.op \notin {"transfer", "burn", "reply", "ackCallback"}
      BY <1>4, <2>1 DEF Works, ResolveMsg, BridgeOps
    <3> QED
      BY <1>4, <3>1 DEF ResolveMsg
  <2>2. CASE ExecProxy(h)
    BY <1>4, <2>2 DEF ExecProxy, ResolveMsg, CallOps
  <2>3. CASE CallbackFails(h)
    BY <2>3 DEF CallbackFails, CallOps
  <2> QED
    BY <1>1, <2>1, <2>2, <2>3
<1>6. PICK i \in 1..Len(stack) : stack[i].op = "reply"
  BY <1>4, <1>5 DEF ResolveMsg, Waiting, Of
<1>7. PICK r \in 1..Len(stack) :
        /\ stack[r].op = "reply" /\ store' = stack[r].saved
        /\ IsSeq(stack') /\ Len(stack') = Len(stack) - r
        /\ tx' = IF stack[r].id = "ack" THEN [tx EXCEPT !.result = "error"] ELSE tx
  BY <1>6, FailedFacts
<1>8. remote' = remote
  BY FailedFacts
<1>9. r = Len(stack)
  BY <1>7, ReplyRest DEF Live
<1>10. stack' = <<>>
  BY <1>2, <1>7, <1>9, SeqFacts
<1>11. tx' = tx
  BY <1>7 DEF ResolveInv
<1>12. Books(store', remote, {})
  <2>1. stack[r] \in Waiting
    BY <1>7 DEF Waiting, Of
  <2>2. ResolveMsg(stack[r])
    BY <2>1 DEF Live, MsgInv
  <2> QED
    BY <1>7, <2>2 DEF ResolveMsg
<1>13. Books(store', remote', {}) /\ tx'.kind # "receive"
  BY <1>8, <1>11, <1>12
<1> QED
  BY <1>8, <1>10, <1>11, <1>13, NothingLive

\* A submessage is over: nothing waits any more.
LEMMA ReplyLive ==
  ASSUME TypeInv, Live, ~ NoTx, Head(stack).op = "reply", stack # <<>>,
         ReplySuccess, tx'.kind = tx.kind,
         tx.kind = "receive" => tx'.packet = tx.packet
  PROVE  Live'
<1>1. IsSeq(stack) /\ Len(stack) \in Nat /\ Len(stack) >= 1 /\ Head(stack) = stack[1]
  BY SeqFacts DEF TypeInv
<1>2. 1 = Len(stack)
  <2>1. 1 \in 1..Len(stack) /\ stack[1].op = "reply"
    BY <1>1
  <2> QED
    BY <2>1, ReplyRest DEF Live
<1>3. stack' = <<>> /\ store' = store /\ remote' = remote
  <2>1. IsSeq(stack') /\ Len(stack') = 0
    BY <1>1, <1>2, TailFacts DEF ReplySuccess
  <2>2. stack' = <<>>
    BY <2>1, SeqFacts
  <2> QED
    BY <2>2 DEF ReplySuccess
<1>4. \A m \in Waiting : m = Head(stack)
  <2>1. PICK l : l = Len(stack)
    OBVIOUS
  <2>2. \A i \in 1..l : i = 1
    BY <1>2, <2>1
  <2> QED
    BY <1>1, <2>1, <2>2 DEF Waiting, Of
<1>5. Books(store, remote, {})
  <2>1. Head(stack).op \notin RoleOps /\ Waiting \subseteq {} \cup {Head(stack)}
    BY <1>4 DEF RoleOps
  <2>2. \A n : Keeps(Waiting, {}, n)
    BY <2>1, NoRole
  <2> QED
    BY <2>2, FrameAll DEF Live
<1>6. CASE tx.kind # "receive"
  BY <1>3, <1>5, <1>6, NothingLive
<1>7. CASE tx.kind = "receive"
  <2>1. Waiting' = {}
    BY <1>3, OfNone DEF Waiting, Of
  <2>2. Ordered'
    BY <1>3, NoMsgs DEF Ordered, Rank, FirstOps, NftOps, CallOps, EntriesOps
  <2>3. Missing'
    BY <1>3, <1>7 DEF Live, Missing, ComesBack
  <2>4. \A n : \A m \in Waiting : ~ Gives(m, n)
    BY <1>4 DEF Gives
  <2>5. Served'
    BY <1>3, <1>7, <2>1, <2>4 DEF Live, Served, ComesBack
  <2> QED
    BY <1>3, <1>5, <1>7, <2>1, <2>2, <2>3, <2>5 DEF Live
<1> QED
  BY <1>6, <1>7

\* A receive or a send that fails has done nothing.
LEMMA FailedUndone ==
  ASSUME TypeInv, ReceiveInv, ResolveInv, ~ NoTx, stack # <<>>, Failed,
         tx.kind \in {"receive", "send"}, tx'.kind = tx.kind, tx'.before = tx.before,
         \/ ~ Works(Head(stack))
         \/ ExecProxy(Head(stack))
         \/ CallbackFails(Head(stack))
  PROVE  Undone'
<1>1. CASE tx.kind = "receive"
  <2>1. InProgress
    BY <1>1 DEF ReceiveInv
  <2>2. /\ stack' = <<>> /\ tx'.result = "error" /\ store' = tx.before
    BY <1>1, <2>1, FailedReceive
  <2> QED
    BY <1>1, <2>2 DEF Undone
<1>2. CASE tx.kind = "send"
  <2>1. \A i \in 1..Len(stack) : stack[i].op # "reply"
    BY <1>2 DEF ResolveInv
  <2>2. store' = tx.before /\ stack' = <<>> /\ tx' = [tx EXCEPT !.result = "reverted"]
    BY <2>1, FailedFacts
  <2>3. TxOK
    BY DEF TypeInv
  <2>4. tx'.result = "reverted"
    BY <2>2, <2>3, TxResult DEF Results, NoTx
  <2> QED
    BY <1>2, <2>2, <2>4 DEF Undone
<1> QED
  BY <1>1, <1>2

\* The next message of a transaction.
LEMMA ContinueBooks ==
  ASSUME TypeInv, ReceiveInv, ResolveInv, BooksInv, ~ ResendsRedeemed, Continue
  PROVE  BooksInv'
<1>1. /\ stack # <<>> /\ ~ NoTx /\ tx'.kind = tx.kind /\ tx'.before = tx.before
      /\ TypeInv'
  BY ContinueKind, ContinueTypes DEF Continue
<1>2. TxOK /\ tx.kind \in {"send", "receive", "resolve"}
  BY <1>1, TxKinds DEF TypeInv
<1>3. tx' = tx \/ \E r \in Results : tx' = [tx EXCEPT !.result = r]
  BY ContinueCases, FailedFacts DEF Done, ReplySuccess, Results
<1>4. ~ NoTx' /\ (tx.kind = "receive" => tx'.packet = tx.packet)
  BY <1>1, <1>2, <1>3 DEF TxOK, NoTx, Idle
<1>5. Live /\ tx.result \in {"none", "ok"} /\ Books(tx.before, Held, {})
  BY <1>1 DEF BooksInv, Undone, Going
<1>6. remote' = remote
  BY ContinueCases, FailedFacts DEF Done, ReplySuccess
<1>7. Books(tx.before, Held, {})'
  BY <1>1, <1>4, <1>5, <1>6 DEF Held
<1>8. Undone' \/ Going'
  <2>1. CASE /\ Works(Head(stack)) /\ Execute(Head(stack))
             /\ ~ (ExecProxy(Head(stack)) /\ Failed)
    <3>1. Live' /\ tx' = tx
      BY <1>1, <1>5, <2>1, ExecuteLive DEF Ready
    <3> QED
      BY <1>5, <3>1 DEF Going
  <2>2. CASE /\ Failed
             /\ \/ ~ Works(Head(stack))
                \/ ExecProxy(Head(stack))
                \/ CallbackFails(Head(stack))
    <3>1. CASE tx.kind \in {"receive", "send"}
      BY <1>1, <2>2, <3>1, FailedUndone
    <3>2. CASE tx.kind = "resolve"
      BY <1>1, <1>5, <2>2, <3>2, FailedResolve DEF Going
    <3> QED
      BY <1>2, <3>1, <3>2
  <2>3. CASE Head(stack).op = "reply" /\ ReplySuccess
    <3>1. Live'
      BY <1>1, <1>3, <1>4, <1>5, <2>3, ReplyLive
    <3>2. tx'.result \in {"none", "ok"}
      BY <1>1, <1>2, <1>5, <2>3, TxResult DEF ReplySuccess, Results
    <3> QED
      BY <3>1, <3>2 DEF Going
  <2> QED
    BY <1>1, <2>1, <2>2, <2>3 DEF Continue, CallbackFails
<1> QED
  BY <1>4, <1>7, <1>8 DEF BooksInv

-----------------------------------------------------------------------------
(* Transactions begin and end.                                             *)

\* At first every NFT is at home.
LEMMA InitBooks == Init => BooksInv
<1> SUFFICES ASSUME Init
             PROVE  Books(store, remote, {})
  BY DEF Init, BooksInv, NoTx
<1> SUFFICES ASSUME NEW n \in Nfts
             PROVE  Book(store, remote, {}, n)
  BY DEF Books
<1>1. /\ store.packets = {} /\ store.metadata = {} /\ store.incoming[n] = NoChannel
      /\ store.given = {}
      /\ n.class # Home => store.owner[n] = NoOne
  BY DEF Init
<1>2. store.owner[n] \in Users \cup {NoOne}
  BY DEF Init, Nfts
<1>3. \A c : [nft |-> n, channel |-> c] \in remote => c = n.class
  <2> SUFFICES ASSUME NEW c, [nft |-> n, channel |-> c] \in remote
               PROVE  c = n.class
    OBVIOUS
  <2>1. PICK m \in Nfts : [nft |-> n, channel |-> c] = [nft |-> m, channel |-> m.class]
    BY DEF Init
  <2> QED
    BY <2>1, HeldPair
<1>4. ~ Out(store, remote, n)
  BY <1>1, <1>3 DEF Out, AwayIn
<1>5. Noted(store, remote, n)
  BY <1>4 DEF Noted, Out
<1>6. Once(store, remote, n)
  BY <1>1 DEF Once
<1>7. Escrowed(store, remote, {}, n)
  BY <1>1, <1>2, NamesAssumption DEF Escrowed, Accounts
<1>8. Voucher(store, remote, {}, n)
  <2>1. n.class # Home => n.class # NoChannel
    BY Names
  <2> QED
    BY <1>1, <2>1 DEF Voucher
<1> QED
  BY <1>5, <1>6, <1>7, <1>8 DEF Book

\* A user sends an NFT.
LEMMA UserSendBooks ==
  ASSUME TypeInv, BooksInv, NEW nft \in Nfts, NEW via, NEW channel \in Channels,
         NEW callback \in BOOLEAN, UserSend(nft, via, channel, callback)
  PROVE  BooksInv'
<1>1. PICK m : m = SendNft(nft, store.owner[nft], via, channel, callback)
  OBVIOUS
<1>2. m.op = "sendNft"
  BY <1>1 DEF SendNft
<1>3. /\ stack' = <<m>> /\ store' = store /\ remote' = remote
      /\ tx' = [kind |-> "send", before |-> store, result |-> "none"]
      /\ Books(store, remote, {})
  BY <1>1 DEF UserSend, BooksInv
<1>4. tx'.kind = "send" /\ tx'.before = store /\ tx'.result = "none" /\ ~ NoTx'
  BY <1>3 DEF NoTx, Idle
<1>5. Waiting' = {m}
  BY <1>3, OfOne DEF Waiting, Of
<1>6. Books(store, remote, {m})
  <2>1. \A n : Keeps({}, {m}, n)
    BY DEF Keeps
  <2> QED
    BY <1>3, <2>1, FrameAll
<1>7. Ordered'
  <2>1. PICK s : s = stack'
    OBVIOUS
  <2>2. Len(s) = 1
    BY <1>3, <2>1, OneMsg
  <2>3. \A i, j \in 1..Len(s) : ~ (i < j)
    BY <2>2
  <2> QED
    BY <2>1, <2>3 DEF Ordered
<1>8. MsgInv(m)'
  <2>1. Head(stack') = m
    BY <1>3
  <2> QED
    BY <1>2, <1>4, <2>1 DEF MsgInv, CommonMsg, SendMsg
<1>9. Live'
  BY <1>3, <1>4, <1>5, <1>6, <1>7, <1>8 DEF Live
<1>10. Held' = remote
  BY <1>3, <1>4 DEF Held
<1> QED
  BY <1>3, <1>4, <1>9, <1>10 DEF BooksInv, Going

\* NFTs that another chain has sent here come back if they are not its own.
LEMMA ComesBackIsRedemption ==
  ASSUME TypeInv, Books(store, remote, {}), NEW packet \in PacketsIn, RecvPacket(packet)
  PROVE  /\ IsRedemption(packet) <=> packet.class # packet.channel
         /\ packet.class # packet.channel =>
              \A n \in PacketNfts(packet) : \A d \in Channels :
                AwayIn(store, remote, n, d) => d = packet.channel
         /\ packet.class # packet.channel =>
              \A n \in PacketNfts(packet) : \A p \in store.packets : p.nft = n => ~ Binds(p)
         /\ packet.class # packet.channel =>
              \A n \in PacketNfts(packet) : n \notin store.given
<1>1. /\ PacketNfts(packet) \subseteq Nfts /\ PacketNfts(packet) # {}
      /\ \A n \in PacketNfts(packet) : n.class = packet.class
      /\ packet.channel \in Channels
  BY PacketNftsIn DEF PacketsIn
<1>2. ASSUME NEW n \in PacketNfts(packet), packet.class # packet.channel
      PROVE  /\ store.outgoing[n] = packet.channel
             /\ \A d \in Channels : AwayIn(store, remote, n, d) => d = packet.channel
             /\ \A p \in store.packets : p.nft = n => ~ Binds(p)
             /\ n \notin store.given
  <2>1. [nft |-> n, channel |-> packet.channel] \in remote
    BY DEF RecvPacket
  <2>2. AwayIn(store, remote, n, packet.channel)
    BY <1>1, <1>2, <2>1 DEF AwayIn
  <2>3. Noted(store, remote, n) /\ Once(store, remote, n)
    BY <1>1 DEF Books, Book
  <2>4. store.outgoing[n] = packet.channel
    BY <1>1, <2>2, <2>3 DEF Noted
  <2>5. \A d \in Channels : AwayIn(store, remote, n, d) => d = packet.channel
    BY <1>1, <2>2, <2>3, AwayOnce
  <2>6. \A p \in store.packets : p.nft = n => ~ Binds(p)
    BY <1>1, <1>2, <2>1, <2>3 DEF Once
  <2>7. n \notin store.given
    BY <1>1, <2>2 DEF Books, Book, Escrowed, Out
  <2> QED
    BY <2>4, <2>5, <2>6, <2>7
<1>3. packet.class = packet.channel => ~ IsRedemption(packet)
  BY DEF IsRedemption, SentOutHere
<1>4. packet.class # packet.channel => IsRedemption(packet)
  BY <1>1, <1>2 DEF IsRedemption, SentOutHere
<1> QED
  BY <1>2, <1>3, <1>4

\* A packet is received, or refused at once.
LEMMA RecvBooks ==
  ASSUME TypeInv, BooksInv, NEW packet \in PacketsIn, RecvPacket(packet)
  PROVE  BooksInv'
<1>1. PICK ops, conj, r, N, pairs :
        /\ ops = Operands(packet) /\ conj = Conjunction(ops) /\ r = Reply("ack")
        /\ N = PacketNfts(packet)
        /\ pairs = {[nft |-> n, channel |-> packet.channel] : n \in N}
  OBVIOUS
<1>2. /\ Books(store, remote, {}) /\ Receive(packet) /\ store \in Stores
      /\ \A n \in N : [nft |-> n, channel |-> packet.channel] \in remote
  BY <1>1 DEF BooksInv, RecvPacket, TypeInv
<1>3. /\ store' = store /\ remote' = remote \ pairs
      /\ tx'.kind = "receive" /\ tx'.packet = packet /\ tx'.before = store /\ ~ NoTx'
      /\ \/ stack' = <<>> /\ tx'.result = "error"
         \/ stack' = <<conj, r>> /\ tx'.result = "none"
  BY <1>1, <1>2 DEF Receive, Submessage, NoTx, Idle
<1>4. Held' = remote
  <2>1. pairs \subseteq remote
    BY <1>1, <1>2
  <2>2. Held' = remote' \cup pairs
    BY <1>1, <1>3 DEF Held
  <2> QED
    BY <1>3, <2>1, <2>2
<1>5. Books(tx.before, Held, {})'
  BY <1>2, <1>3, <1>4
<1>6. CASE stack' = <<>> /\ tx'.result = "error"
  BY <1>3, <1>5, <1>6 DEF BooksInv, Undone
<1>7. CASE stack' = <<conj, r>> /\ tx'.result = "none"
  <2>1. /\ N \subseteq Nfts /\ \A n \in N : n.class = packet.class
        /\ packet.channel \in Channels
    BY <1>1, PacketNftsIn DEF PacketsIn
  <2>2. /\ IsRedemption(packet) <=> packet.class # packet.channel
        /\ packet.class # packet.channel =>
              \A n \in N : \A d \in Channels :
                AwayIn(store, remote, n, d) => d = packet.channel
        /\ packet.class # packet.channel =>
              \A n \in N : \A p \in store.packets : p.nft = n => ~ Binds(p)
        /\ packet.class # packet.channel => \A n \in N : n \notin store.given
    BY <1>1, <1>2, ComesBackIsRedemption
  <2>3. conj.op = "conjunction" /\ conj.operands = ops /\ r.op = "reply"
    BY <1>1 DEF Conjunction, Reply
  <2>4. Waiting' = {conj, r} /\ Len(stack') = 2 /\ stack'[1] = conj /\ stack'[2] = r
    <3>1. PICK s : s = <<conj, r>>
      OBVIOUS
    <3>2. Len(s) = 2 /\ s[1] = conj /\ s[2] = r
      BY <3>1, TwoMsgs
    <3>3. \A i : i \in 1..Len(s) <=> i = 1 \/ i = 2
      BY <3>2
    <3>4. Of(s) = {conj, r}
      BY <3>2, <3>3 DEF Of
    <3> QED
      BY <1>7, <3>1, <3>2, <3>4 DEF Waiting, Of
  <2>5. Books(store, remote \ pairs, {conj, r})
    <3>1. ASSUME NEW n \in N, n.class # packet.channel
          PROVE  Moves(conj, n)
      <4>1. IsRedemption(packet)
        BY <2>1, <2>2, <3>1
      <4>2. RedeemVouchers(packet) \in Of(ops)
        BY <1>1, <4>1, OperandsSorted
      <4>3. PICK i \in 1..Len(ops) : ops[i] = RedeemVouchers(packet)
        BY <4>2 DEF Of
      <4>4. ops[i].op = "redeem" /\ ops[i].packet = packet
        BY <4>3 DEF RedeemVouchers
      <4> QED
        BY <1>1, <2>3, <4>4 DEF Moves
    <3>2. PICK S, V : S = remote \ pairs /\ V = {conj, r}
      OBVIOUS
    <3>3. Arriving(remote, S, N, packet.channel)
      <4>1. \A h \in remote \ S : \E m \in N : h = [nft |-> m, channel |-> packet.channel]
        BY <1>1, <3>2
      <4> QED
        BY <2>1, <3>2, <4>1, HeldPair DEF Arriving
    <3>4. \A n \in N : n.class # packet.channel => \E m \in V : Moves(m, n)
      BY <2>1, <3>1, <3>2
    <3>5. Books(store, S, V)
      BY <1>2, <3>3, <3>4, ArriveBooks
    <3> QED
      BY <3>2, <3>5
  <2>6. Ordered'
    <3>1. Rank(conj) = 0 /\ Rank(r) = 4
      BY <2>3 DEF Rank, FirstOps, NftOps, CallOps, EntriesOps
    <3>2. PICK s : s = stack'
      OBVIOUS
    <3>3. Len(s) = 2 /\ s[1] = conj /\ s[2] = r
      BY <2>4, <3>2
    <3>4. \A i, j \in 1..Len(s) : i < j => Rank(s[i]) < Rank(s[j])
      <4>1. \A i, j \in 1..Len(s) : i < j => i = 1 /\ j = 2
        BY <3>3
      <4> QED
        BY <3>1, <3>3, <4>1
    <3> QED
      BY <3>2, <3>4 DEF Ordered, Rank, FirstOps, NftOps, CallOps, EntriesOps
  <2>7. ComesBack' <=> packet.class # packet.channel
    BY <1>3 DEF ComesBack
  <2>8. MsgInv(conj)' /\ MsgInv(r)'
    <3>1. CommonMsg(conj)' /\ CommonMsg(r)'
      BY <2>3 DEF CommonMsg
    <3>2. Operands(tx.packet)' = ops
      BY <1>1, <1>3 DEF Operands, IsRedemption, SentOutHere
    <3>3. IsRedemption(tx.packet)' <=> IsRedemption(packet)
      BY <1>3 DEF IsRedemption, SentOutHere
    <3>4. ReceiveMsg(conj)'
      BY <1>1, <1>3, <2>2, <2>3, <2>7, <3>2, <3>3 DEF ReceiveMsg, PacketOps, EntriesOps
    <3>5. ReceiveMsg(r)'
      BY <2>3 DEF ReceiveMsg, PacketOps, EntriesOps, FirstOps
    <3> QED
      BY <1>3, <3>1, <3>4, <3>5 DEF MsgInv
  <2>9. Missing'
    <3> SUFFICES ASSUME NEW n \in N
                 PROVE  /\ [nft |-> n, channel |-> packet.channel] \notin remote'
                        /\ packet.class # packet.channel => ~ Out(store', remote', n)
      BY <1>1, <1>3, <2>7 DEF Missing
    <3>1. [nft |-> n, channel |-> packet.channel] \notin remote'
      BY <1>1, <1>3
    <3>2. ASSUME packet.class # packet.channel, NEW d \in Channels, AwayIn(store, remote', n, d)
          PROVE  FALSE
      <4>1. AwayIn(store, remote, n, d)
        BY <1>3, <3>2 DEF AwayIn
      <4>2. d = packet.channel
        BY <2>2, <3>2, <4>1
      <4> QED
        BY <2>2, <3>1, <3>2, <4>2 DEF AwayIn
    <3> QED
      BY <1>3, <3>1, <3>2 DEF Out
  <2>10. Served'
    <3>1. \A n : Gives(conj, n)
      BY <2>3 DEF Gives
    <3> QED
      BY <1>3, <2>4, <3>1 DEF Served, Gives
  <2>11. Live'
    BY <1>3, <2>4, <2>5, <2>6, <2>8, <2>9, <2>10 DEF Live
  <2> QED
    BY <1>3, <1>5, <1>7, <2>11 DEF BooksInv, Going
<1> QED
  BY <1>3, <1>6, <1>7

\* At most a refund or a burn, and the callback after it.
LEMMA EndingSorted ==
  ASSUME NEW p, NEW front, Sorted(front, 1, 1)
  PROVE  /\ Sorted(front \o Notify(p), 1, 2)
         /\ Of(front) \subseteq Of(front \o Notify(p))
         /\ \A w \in Of(front \o Notify(p)) : w \in Of(front) \/ w = AckCallback
<1>1. Rank(AckCallback) \in 2..2
  BY DEF Rank, FirstOps, NftOps, CallOps, EntriesOps, AckCallback
<1>2. Sorted(Notify(p), 2, 2) /\ Of(Notify(p)) \subseteq {AckCallback}
  <2>1. Sorted(<<>>, 2, 2) /\ Sorted(<<AckCallback>>, 2, 2)
    BY <1>1, SortedShort
  <2> QED
    BY <2>1, OfNone, OfOne DEF Notify
<1>3. PICK n : n = Notify(p)
  OBVIOUS
<1>4. Sorted(front \o n, 1, 2) /\ Of(front \o n) = Of(front) \cup Of(n)
  <2>1. 1 \in Int /\ 2 \in Int /\ 1 <= 1 /\ 1 < 2 /\ Sorted(n, 1 + 1, 2)
    BY <1>2, <1>3
  <2> QED
    BY <2>1, SortedConcat
<1> QED
  BY <1>2, <1>3, <1>4

\* The refund or the burn itself.
LEMMA EndingFront ==
  ASSUME NEW m, m.op \in {"transfer", "burn"}
  PROVE  Sorted(<<m>>, 1, 1) /\ Of(<<m>>) = {m}
<1>1. Rank(m) \in 1..1
  BY DEF Rank, FirstOps, NftOps, CallOps, EntriesOps
<1> QED
  BY <1>1, SortedShort, OfOne

\* What is executed at the end of a packet goes on with books that it completes.
LEMMA EndingLive ==
  ASSUME tx'.kind = "resolve", Sorted(stack', 1, 2), Books(store', remote', Waiting'),
         \A m \in Waiting' : m = AckCallback \/ MsgInv(m)'
  PROVE  Live'
<1>1. Ordered'
  <2>1. PICK s : s = stack'
    OBVIOUS
  <2>2. \A i, j \in 1..Len(s) : i < j => Rank(s[i]) < Rank(s[j])
    BY <2>1 DEF Sorted
  <2> QED
    BY <2>1, <2>2 DEF Ordered, Rank, FirstOps, NftOps, CallOps, EntriesOps
<1>2. MsgInv(AckCallback)'
  BY DEF MsgInv, CommonMsg, ResolveMsg, AckCallback, CallOps
<1>3. \A m \in Waiting' : MsgInv(m)'
  BY <1>2
<1> QED
  BY <1>1, <1>3 DEF Live

\* A voucher that arrived has returned if its incoming channel says so.
LEMMA ReturnedHere ==
  ASSUME TypeInv, Books(store, remote, {}), NEW p \in store.packets, p.state = "result"
  PROVE  store.incoming[p.nft] = p.channel <=> p.nft.class = p.channel
<1>1. store \in Stores /\ p.nft \in Nfts /\ p.channel \in Channels
  BY DEF TypeInv, Stores
<1>2. Book(store, remote, {}, p.nft)
  BY <1>1 DEF Books
<1>3. p.nft.class = p.channel => store.owner[p.nft] # NoOne /\ p.nft.class # Home
  <2>1. p.nft.class = p.channel => store.owner[p.nft] = Ics721
    BY <1>1, BindingPacket DEF Binds
  <2> QED
    BY <1>1, <2>1, Names
<1>4. store.incoming[p.nft] \in {p.nft.class, NoChannel} /\ p.channel # NoChannel
  BY <1>1, <1>2, NamesAssumption DEF Book, Voucher
<1>5. p.nft.class = p.channel => store.incoming[p.nft] = p.nft.class
  <2>1. p.nft.class = p.channel => p.nft \in store.metadata
    BY <1>2, <1>3 DEF Book, Voucher
  <2> QED
    BY <1>2, <1>3, <2>1 DEF Book, Voucher
<1> QED
  BY <1>4, <1>5

\* A packet that this bridge sent comes to its end.
LEMMA ResolveBooks ==
  ASSUME TypeInv, BooksInv, NEW p \in store.packets, NoTx, Resolve(p)
  PROVE  BooksInv'
<1>1. /\ Books(store, remote, {}) /\ store \in Stores /\ remote' = remote
      /\ tx' = [kind |-> "resolve", packet |-> p, before |-> store, result |-> "none"]
      /\ \/ AckSuccess(p) /\ p.state = "result"
         \/ HandlePacketFail(p) /\ p.state # "result"
  BY DEF BooksInv, TypeInv, Resolve, IbcPacketAck, IbcPacketTimeout, TryGetAckError
<1>2. tx'.kind = "resolve" /\ tx'.before = store /\ tx'.result = "none" /\ ~ NoTx'
  BY <1>1 DEF NoTx, Idle
<1>3. p.nft \in Nfts /\ p.sender \in Senders /\ p.channel \in Channels
  BY <1>1 DEF Stores, Senders
<1>4. ASSUME HandlePacketFail(p), p.state # "result"
      PROVE  Live'
  <2>1. PICK m : m = TransferNft(p.nft, p.sender)
    OBVIOUS
  <2>2. m.op = "transfer" /\ m.nft = p.nft /\ m.to = p.sender
    BY <2>1 DEF TransferNft
  <2>3. stack' = <<m>> \o Notify(p)
    BY <1>4, <2>1 DEF HandlePacketFail
  <2>4. /\ Sorted(stack', 1, 2) /\ m \in Waiting'
        /\ \A w \in Waiting' : w = m \/ w = AckCallback
    <3>1. PICK s : s = <<m>> /\ stack' = s \o Notify(p)
      BY <2>3
    <3>2. Sorted(s, 1, 1) /\ Of(s) = {m}
      BY <2>2, <3>1, EndingFront
    <3> QED
      BY <3>1, <3>2, EndingSorted DEF Waiting
  <2>5. /\ Books(store', remote, Waiting') /\ store'.owner[p.nft] = Ics721
        /\ ~ Out(store', remote, p.nft) /\ p.nft \notin store'.given
    <3>1. Moves(m, p.nft)
      BY <2>2 DEF Moves
    <3>2. store' = Refunded(store, p)
      BY <1>4 DEF HandlePacketFail, Refunded
    <3>3. PICK V, su : V = Waiting' /\ su = store'
      OBVIOUS
    <3>4. \E w \in V : Moves(w, p.nft)
      BY <2>4, <3>1, <3>3
    <3>5. su = Refunded(store, p)
      BY <3>2, <3>3
    <3>6. store \in Stores /\ Books(store, remote, {}) /\ p.state # "result"
      BY <1>1, <1>4
    <3>7. /\ Books(su, remote, V) /\ su.owner[p.nft] = Ics721 /\ ~ Out(su, remote, p.nft)
          /\ p.nft \notin su.given
      BY ONLY <3>4, <3>5, <3>6, p \in store.packets, FailBooks
    <3> QED
      BY <3>3, <3>7
  <2>6. MsgInv(m)'
    BY <1>1, <1>2, <1>3, <2>2, <2>5 DEF MsgInv, CommonMsg, ResolveMsg, CallOps
  <2> QED
    BY <1>1, <1>2, <2>4, <2>5, <2>6, EndingLive
<1>5. ASSUME AckSuccess(p), p.state = "result"
      PROVE  Live'
  <2>1. PICK m : m = BurnNft(p.nft)
    OBVIOUS
  <2>2. m.op = "burn" /\ m.nft = p.nft
    BY <2>1 DEF BurnNft
  <2>3. store.incoming[p.nft] = p.channel <=> p.nft.class = p.channel
    BY <1>1, <1>5, ReturnedHere
  <2>4. CASE p.nft.class = p.channel
    <3>1. stack' = <<m>> \o Notify(p)
      BY <1>5, <2>1, <2>3, <2>4 DEF AckSuccess
    <3>2. /\ Sorted(stack', 1, 2) /\ m \in Waiting'
          /\ \A w \in Waiting' : w = m \/ w = AckCallback
      <4>1. PICK s : s = <<m>> /\ stack' = s \o Notify(p)
        BY <3>1
      <4>2. Sorted(s, 1, 1) /\ Of(s) = {m}
        BY <2>2, <4>1, EndingFront
      <4> QED
        BY <4>1, <4>2, EndingSorted DEF Waiting
    <3>3. /\ Books(store', remote, Waiting') /\ store'.owner[p.nft] = Ics721
          /\ ~ Out(store', remote, p.nft)
          /\ p.nft \notin store'.given
      <4>1. Moves(m, p.nft) /\ Burns(m, p.nft)
        BY <2>2 DEF Moves, Burns
      <4>2. store' = Forget([store EXCEPT !.packets = @ \ {p}], p.nft)
        BY <1>5, <2>3, <2>4 DEF AckSuccess
      <4> QED
        BY <1>1, <2>4, <3>2, <4>1, <4>2, ReturnBooks
    <3>4. MsgInv(m)'
      BY <1>1, <1>2, <2>2, <3>3 DEF MsgInv, CommonMsg, ResolveMsg, CallOps
    <3> QED
      BY <1>1, <1>2, <3>2, <3>3, <3>4, EndingLive
  <2>5. CASE p.nft.class # p.channel
    <3>1. PICK s : s = <<>> /\ stack' = s \o Notify(p)
      BY <1>5, <2>3, <2>5 DEF AckSuccess
    <3>2. Sorted(stack', 1, 2) /\ \A w \in Waiting' : w = AckCallback
      <4>1. Sorted(s, 1, 1) /\ Of(s) = {}
        BY <3>1, NoMsgs, OfNone DEF Sorted
      <4> QED
        BY <3>1, <4>1, EndingSorted DEF Waiting
    <3>3. store' = [store EXCEPT !.packets = @ \ {p}]
      BY <1>5, <2>3, <2>5 DEF AckSuccess
    <3>4. Books(store', remote, Waiting')
      BY <1>1, <1>5, <2>5, <3>3, ArrivedBooks
    <3> QED
      BY <1>1, <1>2, <3>2, <3>4, EndingLive
  <2> QED
    BY <2>4, <2>5
<1>6. Live'
  BY <1>1, <1>4, <1>5
<1>7. Books(tx.before, Held, {})'
  <2>1. Held' = remote
    BY <1>1, <1>2 DEF Held
  <2> QED
    BY <1>1, <1>2, <2>1
<1> QED
  BY <1>2, <1>6, <1>7 DEF BooksInv, Going

\* The other chain answers.
LEMMA AnswersBooks ==
  ASSUME TypeInv, BooksInv, NEW p \in store.packets, RemoteAnswers(p)
  PROVE  BooksInv'
<1>1. NoTx /\ p.state = "sent" /\ store \in Stores /\ Books(store, remote, {}) /\ tx' = tx
  BY DEF RemoteAnswers, BooksInv, TypeInv
<1>2. PICK answer \in Acks \cup {"timeout"} :
        /\ store' = [store EXCEPT !.packets = (@ \ {p}) \cup {[p EXCEPT !.state = answer]}]
        /\ remote' = IF answer = "result"
                     THEN remote \cup {[nft |-> p.nft, channel |-> p.channel]}
                     ELSE remote
  BY DEF RemoteAnswers
<1>3. Books(store', remote', {})
  BY <1>1, <1>2, AnswerBooks
<1> QED
  BY <1>1, <1>3 DEF BooksInv, NoTx

\* The contract is migrated.
LEMMA MigrateBooks ==
  ASSUME TypeInv, BooksInv, NEW pauser, NEW proxies, Migrate(pauser, proxies)
  PROVE  BooksInv'
<1>1. NoTx /\ Books(store, remote, {}) /\ tx' = tx /\ remote' = remote
  BY DEF Migrate, BooksInv
<1>2. /\ store'.owner = store.owner /\ store'.outgoing = store.outgoing
      /\ store'.incoming = store.incoming /\ store'.metadata = store.metadata
      /\ store'.registry = store.registry /\ store'.packets = store.packets
      /\ store'.given = store.given
  BY DEF Migrate, TypeInv, Stores
<1>3. \A n : Keeps({}, {}, n)
  BY DEF Keeps
<1>4. Books(store', remote, {})
  BY <1>1, <1>2, <1>3, FrameAll
<1> QED
  BY <1>1, <1>4 DEF BooksInv, NoTx

\* An NFT of a user is not away, and was not given to the bridge.
LEMMA UserOwns ==
  ASSUME TypeInv, BooksInv, NoTx, NEW nft \in Nfts, store.owner[nft] \in Users
  PROVE  /\ ~ Out(store, remote, nft) /\ nft \notin store.given /\ store.owner[nft] # NoOne
         /\ Books(store, remote, {}) /\ store \in Stores
         /\ \A n : Keeps({}, {}, n)
<1>1. Books(store, remote, {}) /\ store \in Stores
  BY DEF BooksInv, TypeInv
<1>2. store.owner[nft] # NoOne /\ store.owner[nft] # Ics721
  BY Names DEF Senders
<1>3. ~ Out(store, remote, nft) /\ nft \notin store.given
  BY <1>1, <1>2 DEF Books, Book, Noted, Out, Escrowed
<1> QED
  BY <1>1, <1>2, <1>3 DEF Keeps

\* A user transfers an NFT.
LEMMA UserTransferBooks ==
  ASSUME TypeInv, BooksInv, NEW nft \in Nfts, NEW to \in Accounts, UserTransfer(nft, to)
  PROVE  BooksInv'
<1>1. /\ NoTx /\ tx' = tx /\ remote' = remote
      /\ store.owner[nft] \in Users
  BY DEF UserTransfer
<1>2. PICK G : G = IF to = Ics721 THEN store.given \cup {nft} ELSE store.given
  OBVIOUS
<1>3. PICK new : new = [store EXCEPT !.owner[nft] = to, !.given = G]
  OBVIOUS
<1>4. store' = new /\ GivenBut(store, G, nft)
  BY <1>2, <1>3 DEF UserTransfer, HandedTo, GivenBut
<1>5. /\ ~ Out(store, remote, nft) /\ nft \notin store.given /\ store.owner[nft] # NoOne
      /\ Books(store, remote, {}) /\ store \in Stores
      /\ \A n : Keeps({}, {}, n)
  BY <1>1, UserOwns
<1>6. KeepsVoucher({}, {}, nft)
  BY DEF KeepsVoucher
<1>7. nft \in G <=> to = Ics721
  BY <1>2, <1>5
<1>8. Books(new, remote, {})
  BY <1>3, <1>4, <1>5, <1>6, <1>7, GiveBooks
<1> QED
  BY <1>1, <1>4, <1>8 DEF BooksInv, NoTx

\* Or burns it.
LEMMA UserBurnBooks ==
  ASSUME TypeInv, BooksInv, NEW nft \in Nfts, UserBurn(nft)
  PROVE  BooksInv'
<1>1. /\ NoTx /\ tx' = tx /\ remote' = remote
      /\ store.owner[nft] \in Users
  BY DEF UserBurn
<1>2. PICK new : new = [store EXCEPT !.owner[nft] = NoOne]
  OBVIOUS
<1>3. store' = new
  BY <1>2 DEF UserBurn
<1>4. /\ ~ Out(store, remote, nft) /\ nft \notin store.given
      /\ Books(store, remote, {}) /\ store \in Stores
      /\ \A n : Keeps({}, {}, n)
  BY <1>1, UserOwns
<1>5. Books(new, remote, {})
  BY <1>2, <1>4, BurnBooks
<1> QED
  BY <1>1, <1>3, <1>5 DEF BooksInv, NoTx

\* An admin of another chain releases an NFT there whose voucher is gone.
LEMMA RemoteReleasesBooks ==
  ASSUME TypeInv, BooksInv, NEW nft \in Nfts, RemoteReleases(nft)
  PROVE  BooksInv'
<1>1. /\ NoTx /\ tx' = tx /\ store' = store /\ store.owner[nft] = NoOne
      /\ remote' = remote \cup {[nft |-> nft, channel |-> nft.class]}
  BY DEF RemoteReleases
<1>2. Books(store, remote, {}) /\ store \in Stores
  BY <1>1 DEF BooksInv, TypeInv
<1>3. Books(store, remote', {})
  BY <1>1, <1>2, ReleaseBooks
<1> QED
  BY <1>1, <1>3 DEF BooksInv, NoTx

\* A transaction is over.
LEMMA CommitBooks ==
  ASSUME TypeInv, BooksInv, Commit
  PROVE  BooksInv'
<1>1. /\ stack = <<>> /\ ~ NoTx /\ tx' = Idle /\ store' = store
      /\ Books(tx.before, Held, {}) /\ (Undone \/ Going)
  BY DEF Commit, BooksInv
<1>2. CASE Undone
  <2>1. remote' = Held
    BY <1>2 DEF Undone, Commit, Held
  <2> QED
    BY <1>1, <1>2, <2>1 DEF Undone, BooksInv, NoTx
<1>3. CASE Going
  <2>1. remote' = remote
    BY <1>3 DEF Going, Commit
  <2>2. Waiting = {}
    BY <1>1, OfNone DEF Waiting
  <2>3. Books(store, remote, {})
    BY <1>3, <2>2 DEF Going, Live
  <2> QED
    BY <1>1, <2>1, <2>3 DEF BooksInv, NoTx
<1> QED
  BY <1>1, <1>2, <1>3

\* No step breaks the books.
LEMMA NextBooks ==
  ASSUME TypeInv, ReceiveInv, ResolveInv, BooksInv, ~ ResendsRedeemed, [Next]_vars
  PROVE  BooksInv'
<1>1. CASE UNCHANGED vars
  <2>1. store' = store /\ stack' = stack /\ tx' = tx /\ remote' = remote
    BY <1>1 DEF vars
  <2>2. Waiting' = Waiting /\ Held' = Held /\ (ComesBack' <=> ComesBack)
    BY <2>1 DEF Waiting, Held, ComesBack
  <2>3. Ordered' <=> Ordered
    BY <2>1 DEF Ordered, Rank, FirstOps, NftOps, CallOps, EntriesOps
  <2>4. ASSUME NEW m
        PROVE  MsgInv(m)' <=> MsgInv(m)
    <3>1. CommonMsg(m)' <=> CommonMsg(m)
      BY <2>1 DEF CommonMsg
    <3>2. /\ Operands(tx.packet)' = Operands(tx.packet) /\ BeingRedeemed' = BeingRedeemed
          /\ IsRedemption(tx.packet)' <=> IsRedemption(tx.packet)
      BY <2>1 DEF Operands, IsRedemption, SentOutHere, BeingRedeemed
    <3>3. ReceiveMsg(m)' <=> ReceiveMsg(m)
      BY <2>1, <2>2, <3>2 DEF ReceiveMsg
    <3>4. ResolveMsg(m)' <=> ResolveMsg(m)
      BY <2>1, <2>2 DEF ResolveMsg
    <3> QED
      BY <2>1, <3>1, <3>3, <3>4 DEF MsgInv, SendMsg
  <2>5. (Missing' <=> Missing) /\ (Served' <=> Served)
    BY <2>1, <2>2 DEF Missing, Served
  <2>6. Live' <=> Live
    BY <2>1, <2>2, <2>3, <2>4, <2>5 DEF Live
  <2> QED
    BY <2>1, <2>2, <2>6 DEF BooksInv, NoTx, Undone, Going
<1>2. ASSUME NEW nft \in Nfts, NEW via, NEW channel \in Channels, NEW callback \in BOOLEAN,
             UserSend(nft, via, channel, callback)
      PROVE  BooksInv'
  BY <1>2, UserSendBooks
<1>3. ASSUME NEW packet \in PacketsIn, RecvPacket(packet)
      PROVE  BooksInv'
  BY <1>3, RecvBooks
<1>4. ASSUME NEW p \in store.packets, NoTx, Resolve(p)
      PROVE  BooksInv'
  BY <1>4, ResolveBooks
<1>5. ASSUME NEW p \in store.packets, RemoteAnswers(p)
      PROVE  BooksInv'
  BY <1>5, AnswersBooks
<1>6. ASSUME NEW pauser, NEW proxies, Migrate(pauser, proxies)
      PROVE  BooksInv'
  BY <1>6, MigrateBooks
<1>7. ASSUME NEW nft \in Nfts, NEW to \in Accounts, UserTransfer(nft, to)
      PROVE  BooksInv'
  BY <1>7, UserTransferBooks
<1>8. ASSUME NEW nft \in Nfts, UserBurn(nft) \/ RemoteReleases(nft)
      PROVE  BooksInv'
  BY <1>8, UserBurnBooks, RemoteReleasesBooks
<1> QED
  BY <1>1, <1>2, <1>3, <1>4, <1>5, <1>6, <1>7, <1>8, ContinueBooks, CommitBooks DEF Next

\* The books hold at all times.
LEMMA BooksAlways ==
  ASSUME ~ ResendsRedeemed
  PROVE  Spec => [](TypeInv /\ ReceiveInv /\ ResolveInv /\ BooksInv)
<1>1. Init => TypeInv /\ ReceiveInv /\ ResolveInv /\ BooksInv
  <2>1. Init => ReceiveInv /\ ResolveInv
    BY DEF Init, ReceiveInv, ResolveInv, Idle
  <2> QED
    BY <2>1, InitTypes, InitBooks
<1>2. ASSUME TypeInv, ReceiveInv, ResolveInv, BooksInv, [Next]_vars
      PROVE  TypeInv' /\ ReceiveInv' /\ ResolveInv' /\ BooksInv'
  BY <1>2, NextTypes, NextReceive, NextResolve, NextBooks
<1> QED
  BY <1>1, <1>2, PTL DEF Spec

-----------------------------------------------------------------------------
(* What the books say.                                                     *)

\* If no callback contract sends on an NFT while it is being redeemed: every NFT that
\* is away is escrowed, and its channel noted so that it can come back
\* (AwayIsRedeemable).  The outgoing entry is removed only when the NFT is handed out.
THEOREM Redeemable == ASSUME ~ ResendsRedeemed PROVE Spec => []AwayIsRedeemable
<1>1. BooksInv => AwayIsRedeemable
  <2> SUFFICES ASSUME BooksInv, NoTx, NEW nft \in Nfts, NEW channel \in Channels,
                      Away(nft, channel)
               PROVE  /\ store.owner[nft] = Ics721
                      /\ store.outgoing[nft] = channel
                      /\ nft.class \in store.registry
    BY DEF AwayIsRedeemable
  <2>1. AwayIn(store, remote, nft, channel)
    BY DEF Away, AwayIn
  <2>2. Noted(store, remote, nft)
    BY DEF BooksInv, Books, Book
  <2> QED
    BY <2>1, <2>2 DEF Noted
<1> QED
  BY <1>1, BooksAlways, PTL

\* The bridge owns nothing but what is away, and what a packet or an owner put with it by
\* naming its address; and that it never sends out: however a transfer of its own ends,
\* no NFT is left with it that nobody can ask back (EscrowedIsAway).
THEOREM NothingStranded == ASSUME ~ ResendsRedeemed PROVE Spec => []EscrowedIsAway
<1>1. BooksInv => EscrowedIsAway
  <2> SUFFICES ASSUME BooksInv, NoTx, NEW nft \in Nfts
               PROVE  /\ store.owner[nft] = Ics721 =>
                           nft \in store.given \/ \E channel \in Channels : Away(nft, channel)
                      /\ nft \in store.given =>
                           /\ store.owner[nft] = Ics721
                           /\ \A channel \in Channels : ~ Away(nft, channel)
    BY DEF EscrowedIsAway
  <2>1. Escrowed(store, remote, {}, nft)
    BY DEF BooksInv, Books, Book
  <2>2. \A channel : Away(nft, channel) <=> AwayIn(store, remote, nft, channel)
    BY DEF Away, AwayIn
  <2> QED
    BY <2>1, <2>2 DEF Escrowed, Out
<1> QED
  BY <1>1, BooksAlways, PTL

\* The incoming channel and the metadata of a voucher are kept in step, though each is
\* stored by a message of its own, and every voucher that exists has them, whatever its
\* owners and the callback contracts burn (VoucherBooks).
THEOREM VouchersKept == ASSUME ~ ResendsRedeemed PROVE Spec => []VoucherBooks
<1>1. BooksInv => VoucherBooks
  <2> SUFFICES ASSUME BooksInv, NoTx, NEW nft \in Nfts, nft.class # Home
               PROVE  /\ store.incoming[nft] = nft.class <=> nft \in store.metadata
                      /\ store.owner[nft] # NoOne => nft \in store.metadata
                      /\ store.owner[nft] # NoOne /\ [nft |-> nft, channel |-> nft.class] \in remote =>
                           \E p \in store.packets : p.nft = nft /\ p.channel = nft.class /\ p.state = "result"
    BY DEF VoucherBooks
  <2>1. Voucher(store, remote, {}, nft)
    BY DEF BooksInv, Books, Book
  <2> QED
    BY <2>1 DEF Voucher, Returned
<1> QED
  BY <1>1, BooksAlways, PTL

\* The refund of a packet that failed and the burn of a voucher that returned always go
\* through: the bridge still owns the NFT, and what the callback contract does is undone
\* if it fails (ResolveNeverReverts).
THEOREM PacketsEnd == ASSUME ~ ResendsRedeemed PROVE Spec => []ResolveNeverReverts
<1>1. BooksInv => ResolveNeverReverts
  <2> SUFFICES ASSUME BooksInv, tx.kind = "resolve"
               PROVE  tx.result # "reverted"
    BY DEF ResolveNeverReverts
  <2>1. ~ NoTx
    BY DEF NoTx, Idle
  <2>2. Going
    BY <2>1 DEF BooksInv, Undone
  <2> QED
    BY <2>2 DEF Going
<1> QED
  BY <1>1, BooksAlways, PTL

\* The incoming proxy is asked before anything has changed, and the callback contract
\* when the receiver owns every NFT of the packet (ObserversSeeTransfer).
THEOREM Observers == ASSUME ~ ResendsRedeemed PROVE Spec => []ObserversSeeTransfer
<1>1. TypeInv /\ BooksInv => ObserversSeeTransfer
  <2> SUFFICES ASSUME TypeInv, BooksInv, tx.kind = "receive", stack # <<>>
               PROVE  /\ Head(stack).op = "proxy" => store = tx.before
                      /\ Head(stack).op = "callback" =>
                           \A n \in PacketNfts(tx.packet) : store.owner[n] = tx.packet.receiver
    BY DEF ObserversSeeTransfer
  <2>1. ~ NoTx
    BY DEF NoTx, Idle
  <2>2. Live
    BY <2>1 DEF BooksInv, Undone, Going
  <2>3. Head(stack) \in Waiting /\ \A m \in Waiting : m = Head(stack) \/ m \in Rest
    <3>1. Len(stack) \in Nat /\ Len(stack) >= 1 /\ Head(stack) = stack[1]
      BY SeqFacts DEF TypeInv
    <3>2. \A i \in 1..Len(stack) : i = 1 \/ i \in 2..Len(stack)
      BY <3>1
    <3> QED
      BY <3>1, <3>2 DEF Waiting, Of, Rest
  <2>4. Head(stack).op = "proxy" => store = tx.before
    BY <2>2, <2>3 DEF Live, MsgInv, ReceiveMsg, FirstOps
  <2>5. ASSUME Head(stack).op = "callback", NEW n \in PacketNfts(tx.packet)
        PROVE  store.owner[n] = tx.packet.receiver
    <3>1. \A m \in Rest : m.op \notin FirstOps \cup NftOps
      BY <2>2, <2>5, RestOps DEF Live, CallOps
    <3>2. \A m \in Waiting : ~ Gives(m, n)
      BY <2>3, <2>5, <3>1 DEF Gives, FirstOps, NftOps
    <3> QED
      BY <2>2, <2>3, <2>5, <3>2 DEF Live, Served
  <2> QED
    BY <2>4, <2>5
<1> QED
  BY <1>1, BooksAlways, PTL
=============================================================================
