------------------------------ MODULE BridgeTx ------------------------------
(***************************************************************************)
(* One bridge at the granularity of the messages inside a transaction.     *)
(*                                                                         *)
(* A CosmWasm transaction executes its messages one after the other, the   *)
(* messages a handler returns before those that were waiting.  A message   *)
(* that fails takes with it everything up to the innermost submessage with *)
(* a reply, or the transaction.  `stack` holds the messages still to       *)
(* execute; a message "reply" closes a submessage and keeps the store to   *)
(* go back to.  Ics721Net takes such a transaction as one step: what can   *)
(* be seen from within - by the incoming proxy, the callback contracts,    *)
(* and whatever these call back - is the subject of this module.           *)
(*                                                                         *)
(* External: the cw721 collections, the proxies, a contract `Hook` that    *)
(* takes the callbacks, and the chains at the other ends of the channels,  *)
(* which follow the protocol (`remote` is what they hold).                 *)
(***************************************************************************)
EXTENDS Naturals, Sequences, PausePolicy

CONSTANTS Channels,        \* channels, all to different chains
          Home,            \* class id of a collection of this chain
          Tokens, Users,
          Hook,            \* the callback contract; it may be the pauser, too
          Ics721, NoOne, NoChannel,
          Proxies,         \* if there is an incoming and if an outgoing proxy: the
                           \* settings to go through
          Instantiable,    \* classes whose collection accepts init_msg
          ResendsRedeemed, \* a callback may send on the NFT being redeemed
          MaxPackets       \* bound: packets ever sent

\* A channel stands for the class of the other chain's collection: the prefix
\* of the channel before the class id it has there.
Classes == {Home} \cup Channels
Nfts == [class: Classes, token: Tokens]
Accounts == Users \cup {Hook, Ics721}

\* What an acknowledgement can be read as.
Acks == {"result", "error", "unparseable"}

ASSUME HookAssumption == Hook \in Pausers
ASSUME BoundAssumption == MaxPackets \in Nat
ASSUME ProxiesAssumption == Proxies \subseteq BOOLEAN \X BOOLEAN

\* Every account has an address of its own, and none is no account; likewise channels
\* and classes.
ASSUME NamesAssumption ==
  /\ Home \notin Channels /\ NoChannel \notin Channels
  /\ Ics721 \notin Users \cup {Hook} /\ NoOne \notin Accounts

VARIABLES store,   \* owners, the contract's storage and the packets it sent; and in
                   \* `given`, of which the code keeps no record, the NFTs that the
                   \* bridge owns because somebody named its address as the receiver
          stack,   \* messages to execute, the next one first
          tx,      \* the transaction that executes them
          remote   \* NFTs that the chain at the end of a channel can send here

vars == <<store, stack, tx, remote>>

Idle == [kind |-> "idle"]

Init ==
  /\ \E owner \in [Tokens -> Users], pauser \in {Hook, NoPauser},
        proxies \in Proxies :
       store = [owner    |-> [n \in Nfts |-> IF n.class = Home THEN owner[n.token] ELSE NoOne],
                given    |-> {},
                outgoing |-> [n \in Nfts |-> NoChannel],
                incoming |-> [n \in Nfts |-> NoChannel],
                metadata |-> {},
                registry |-> {},
                incomingProxy |-> proxies[1],
                outgoingProxy |-> proxies[2],
                po |-> SetPauser(pauser),
                packets |-> {},
                nextSeq |-> 1]
  /\ stack = <<>>
  /\ tx = Idle
  /\ remote = {[nft |-> n, channel |-> n.class] : n \in {m \in Nfts : m.class # Home}}

-----------------------------------------------------------------------------
(* The messages.                                                           *)

Conjunction(operands) == [op |-> "conjunction", operands |-> operands]
ProxyMsg == [op |-> "proxy"]
RedeemVouchers(packet) == [op |-> "redeem", packet |-> packet]
CreateVouchers(packet) == [op |-> "create", packet |-> packet]
Instantiate(class) == [op |-> "instantiate", class |-> class]
Mint(packet) == [op |-> "mint", packet |-> packet]
RedeemOutgoingChannelEntries(packet) == [op |-> "redeemEntries", packet |-> packet]
AddIncomingChannelEntries(packet) == [op |-> "addEntries", packet |-> packet]
Callback == [op |-> "callback"]
AckCallback == [op |-> "ackCallback"]
SendNft(nft, by, via, channel, callback) ==
  [op |-> "sendNft", nft |-> nft, by |-> by, via |-> via, channel |-> channel,
   callback |-> callback]
ReceiveNft(msg) ==
  [op |-> "receiveNft", nft |-> msg.nft, by |-> msg.by, via |-> msg.via,
   channel |-> msg.channel, callback |-> msg.callback]
PauseBridge == [op |-> "pause"]
TransferNft(nft, to) == [op |-> "transfer", nft |-> nft, to |-> to]
MintNft(nft, to) == [op |-> "mintNft", nft |-> nft, to |-> to]
BurnNft(nft) == [op |-> "burn", nft |-> nft]

\* The end of a submessage that asked for a reply.
Reply(id) == [op |-> "reply", id |-> id, saved |-> store]

\* What the contract executes itself, none of it while it is paused.
BridgeOps == {"conjunction", "redeem", "create", "mint", "redeemEntries",
              "addEntries", "receiveNft", "pause"}

NftOf(packet, i) == [class |-> packet.class, token |-> packet.tokens[i]]
PacketNfts(packet) == {NftOf(packet, i) : i \in DOMAIN packet.tokens}

\* One message for every token of a packet, in their order.
TransferAll(packet) ==
  [i \in DOMAIN packet.tokens |-> TransferNft(NftOf(packet, i), packet.receiver)]
MintAll(packet) ==
  [i \in DOMAIN packet.tokens |-> MintNft(NftOf(packet, i), packet.receiver)]

\* Puts a value for some NFTs in one of the maps.
SetAll(map, nfts, value) == [n \in Nfts |-> IF n \in nfts THEN value ELSE map[n]]

-----------------------------------------------------------------------------
(* Executing a message.                                                    *)

\* The conditions under which a message does not fail.
Works(msg) ==
  /\ msg.op \in BridgeOps => ErrorIfPaused(store.po)
  /\ msg.op = "redeem" => msg.packet.class \in store.registry
  /\ msg.op = "instantiate" => msg.class \in Instantiable \cap store.registry
  /\ msg.op = "mint" => msg.packet.class \in store.registry
  /\ msg.op \in {"transfer", "burn"} => store.owner[msg.nft] = Ics721
  /\ msg.op = "mintNft" => msg.nft.class # Home /\ store.owner[msg.nft] = NoOne
  /\ msg.op = "sendNft" => store.owner[msg.nft] = msg.by
  /\ msg.op = "receiveNft" =>
       /\ msg.via = "proxy" <=> store.outgoingProxy
       /\ store.owner[msg.nft] = Ics721
       /\ store.nextSeq <= MaxPackets
  /\ msg.op = "pause" => PauseAllowed(store.po, Hook)

\* The message changes the store and is replaced by the messages it returns.
Done(new, msgs) ==
  /\ store' = new
  /\ stack' = msgs \o Tail(stack)
  /\ UNCHANGED <<tx, remote>>

Replies == {i \in DOMAIN stack : stack[i].op = "reply"}

\* The message fails: so do all messages up to the next reply.
Failed ==
  IF Replies = {}
  THEN /\ store' = tx.before
       /\ stack' = <<>>
       /\ tx' = [tx EXCEPT !.result = "reverted"]
       /\ UNCHANGED remote
  ELSE LET i == CHOOSE i \in Replies : \A j \in Replies : i <= j
       IN  /\ store' = stack[i].saved
           /\ stack' = SubSeq(stack, i + 1, Len(stack))
           /\ tx' = IF stack[i].id = "ack" THEN [tx EXCEPT !.result = "error"] ELSE tx
           /\ UNCHANGED remote

\* The submessage went through: `reply` sets the acknowledgement.  The one for an
\* acknowledgement callback replies on error only.
ReplySuccess ==
  /\ store' = store
  /\ stack' = Tail(stack)
  /\ tx' = IF Head(stack).id = "ack" THEN [tx EXCEPT !.result = "ok"] ELSE tx
  /\ UNCHANGED remote

-----------------------------------------------------------------------------
(* The bridge's own handlers.                                              *)

\* The NFTs of a packet that were sent out on the channel the packet came by.
SentOutHere(packet) ==
  {n \in PacketNfts(packet) :
     packet.class # packet.channel /\ store.outgoing[n] = packet.channel}

IsRedemption(packet) == SentOutHere(packet) # {}

\* Calls the proxy when all is done.
FaultyProxyLast(packet) ==
  <<IF IsRedemption(packet) THEN RedeemVouchers(packet) ELSE CreateVouchers(packet)>> \o
  (IF packet.callback THEN <<Callback>> ELSE <<>>) \o
  (IF store.incomingProxy THEN <<ProxyMsg>> ELSE <<>>) \o
  <<IF IsRedemption(packet) THEN RedeemOutgoingChannelEntries(packet)
                            ELSE AddIncomingChannelEntries(packet)>>

\* Notes the channel before the callback contract is called.
FaultyCallbackLast(packet) ==
  (IF store.incomingProxy THEN <<ProxyMsg>> ELSE <<>>) \o
  <<IF IsRedemption(packet) THEN RedeemVouchers(packet) ELSE CreateVouchers(packet)>> \o
  <<IF IsRedemption(packet) THEN RedeemOutgoingChannelEntries(packet)
                            ELSE AddIncomingChannelEntries(packet)>> \o
  (IF packet.callback THEN <<Callback>> ELSE <<>>)

\* Treats the receive callback like the acknowledgement callback.
FaultyTolerantCallback(packet) ==
  (IF store.incomingProxy THEN <<ProxyMsg>> ELSE <<>>) \o
  <<IF IsRedemption(packet) THEN RedeemVouchers(packet) ELSE CreateVouchers(packet)>> \o
  (IF packet.callback THEN <<AckCallback>> ELSE <<>>) \o
  <<IF IsRedemption(packet) THEN RedeemOutgoingChannelEntries(packet)
                            ELSE AddIncomingChannelEntries(packet)>>

\* What the conjunction executes, in the order of into_submessage.
Operands(packet) ==
  (IF store.incomingProxy THEN <<ProxyMsg>> ELSE <<>>) \o
  <<IF IsRedemption(packet) THEN RedeemVouchers(packet) ELSE CreateVouchers(packet)>> \o
  (IF packet.callback THEN <<Callback>> ELSE <<>>) \o
  <<IF IsRedemption(packet) THEN RedeemOutgoingChannelEntries(packet)
                            ELSE AddIncomingChannelEntries(packet)>>

\* Asks for no reply.
FaultySubmessage(packet) == <<Conjunction(Operands(packet))>>

Submessage(packet) == <<Conjunction(Operands(packet)), Reply("ack")>>

\* receive_ibc_packet: an error before the submessage is acknowledged at once.
Receive(packet) ==
  LET accepted == /\ ErrorIfPaused(store.po)
                  /\ SentOutHere(packet) \in {{}, PacketNfts(packet)}
                  /\ IsRedemption(packet) => packet.class \in store.registry
  IN  /\ stack' = IF accepted THEN Submessage(packet) ELSE <<>>
      /\ tx' = [kind |-> "receive", packet |-> packet, before |-> store,
                result |-> IF accepted THEN "none" ELSE "error"]
      /\ remote' = remote \ {[nft |-> n, channel |-> packet.channel] : n \in PacketNfts(packet)}
      /\ UNCHANGED store

ExecConjunction(msg) == msg.op = "conjunction" /\ Done(store, msg.operands)

ExecRedeem(msg) ==
  msg.op = "redeem" /\ Done(store, TransferAll(msg.packet))

\* A class the contract does not know is registered and instantiated.
ExecCreate(msg) ==
  /\ msg.op = "create"
  /\ LET class == msg.packet.class
     IN  Done([store EXCEPT !.registry = @ \cup {class}],
              (IF class \in store.registry THEN <<>> ELSE <<Instantiate(class)>>)
                \o <<Mint(msg.packet)>>)

ExecMint(msg) ==
  /\ msg.op = "mint"
  /\ Done([store EXCEPT !.metadata = @ \cup PacketNfts(msg.packet)],
          MintAll(msg.packet))

ExecRedeemEntries(msg) ==
  /\ msg.op = "redeemEntries"
  /\ Done([store EXCEPT !.outgoing = SetAll(@, PacketNfts(msg.packet), NoChannel)], <<>>)

ExecAddEntries(msg) ==
  /\ msg.op = "addEntries"
  /\ Done([store EXCEPT !.incoming = SetAll(@, PacketNfts(msg.packet), msg.packet.channel)],
          <<>>)

\* Takes the present owner of the NFT, the bridge, for the one who sent it.
FaultyReceiveNft(msg) ==
  /\ msg.op = "receiveNft"
  /\ Done([store EXCEPT
             !.registry = @ \cup {msg.nft.class},
             !.outgoing[msg.nft] = msg.channel,
             !.packets = @ \cup {[seq |-> store.nextSeq, nft |-> msg.nft,
                                  channel |-> msg.channel, sender |-> store.owner[msg.nft],
                                  callback |-> msg.callback, state |-> "sent"]},
             !.nextSeq = @ + 1],
          <<>>)

ExecReceiveNft(msg) ==
  /\ msg.op = "receiveNft"
  /\ Done([store EXCEPT
             !.registry = @ \cup {msg.nft.class},
             !.outgoing[msg.nft] = msg.channel,
             !.packets = @ \cup {[seq |-> store.nextSeq, nft |-> msg.nft,
                                  channel |-> msg.channel, sender |-> msg.by,
                                  callback |-> msg.callback, state |-> "sent"]},
             !.nextSeq = @ + 1],
          <<>>)

ExecPause(msg) == msg.op = "pause" /\ Done([store EXCEPT !.po = PausedPolicy], <<>>)

-----------------------------------------------------------------------------
(* The end of a packet that this bridge sent.                              *)

\* Calls the contract without a submessage.
FaultyNotify(p) == IF p.callback THEN <<Callback>> ELSE <<>>

\* ack_callback_msg: the message to the callback contract, if the memo asks for it.
Notify(p) == IF p.callback THEN <<AckCallback>> ELSE <<>>

\* Leaves the metadata of a burned voucher behind.
FaultyForget(st, nft) == [st EXCEPT !.incoming[nft] = NoChannel]

\* What is removed from the contract's maps with a voucher that is burned.
Forget(st, nft) == [st EXCEPT !.incoming[nft] = NoChannel, !.metadata = @ \ {nft}]

\* Clears the channel of an NFT that has arrived.
FaultyAckSuccess(p) ==
  LET settled == [store EXCEPT !.packets = @ \ {p}, !.outgoing[p.nft] = NoChannel]
      returned == store.incoming[p.nft] = p.channel
  IN  /\ store' = IF returned THEN Forget(settled, p.nft) ELSE settled
      /\ stack' = (IF returned THEN <<BurnNft(p.nft)>> ELSE <<>>) \o Notify(p)

AckSuccess(p) ==
  LET settled == [store EXCEPT !.packets = @ \ {p}]
      returned == store.incoming[p.nft] = p.channel
  IN  /\ store' = IF returned THEN Forget(settled, p.nft) ELSE settled
      /\ stack' = (IF returned THEN <<BurnNft(p.nft)>> ELSE <<>>) \o Notify(p)

HandlePacketFail(p) ==
  /\ store' = [store EXCEPT !.packets = @ \ {p}, !.outgoing[p.nft] = NoChannel]
  /\ stack' = <<TransferNft(p.nft, p.sender)>> \o Notify(p)

\* Takes what it cannot parse for a success.
FaultyTryGetAckError(ack) == ack = "error"

\* "What we can not parse is an ACK fail."
TryGetAckError(ack) == ack # "result"

IbcPacketAck(p) ==
  /\ p.state \in Acks
  /\ IF TryGetAckError(p.state) THEN HandlePacketFail(p) ELSE AckSuccess(p)

IbcPacketTimeout(p) == p.state = "timeout" /\ HandlePacketFail(p)

Resolve(p) ==
  /\ p.nft.class \in store.registry
  /\ IbcPacketAck(p) \/ IbcPacketTimeout(p)
  /\ tx' = [kind |-> "resolve", packet |-> p, before |-> store, result |-> "none"]
  /\ UNCHANGED remote

ExecAckCallback(msg) ==
  msg.op = "ackCallback" /\ Done(store, <<Callback, Reply("callback")>>)

-----------------------------------------------------------------------------
(* Foreign contracts.                                                      *)

\* An NFT changes hands; if the bridge was named as the receiver, that is noted.
HandedTo(nft, to, named) ==
  [store EXCEPT !.owner[nft] = to,
                !.given = IF named /\ to = Ics721 THEN @ \cup {nft} ELSE @]

ExecCollection(msg) ==
  \/ msg.op = "instantiate" /\ Done(store, <<>>)
  \/ /\ msg.op \in {"transfer", "mintNft"}
     /\ Done(HandedTo(msg.nft, msg.to, tx.kind = "receive"), <<>>)
  \/ msg.op = "burn" /\ Done([store EXCEPT !.owner[msg.nft] = NoOne], <<>>)
  \/ msg.op = "sendNft" /\ Done([store EXCEPT !.owner[msg.nft] = Ics721], <<ReceiveNft(msg)>>)

ExecProxy(msg) == msg.op = "proxy" /\ (Done(store, <<>>) \/ Failed)

\* The NFTs the callback contract is being given back.
BeingRedeemed ==
  IF tx.kind = "receive" /\ tx.packet.class # tx.packet.channel
  THEN PacketNfts(tx.packet) ELSE {}

Via == IF store.outgoingProxy THEN "proxy" ELSE "collection"

\* The callback contract does nothing, hands an NFT on, burns one, sends one away, or
\* pauses the bridge.
ExecCallback(msg) ==
  /\ msg.op = "callback"
  /\ \/ Done(store, <<>>)
     \/ \E nft \in Nfts, to \in Accounts :
          store.owner[nft] = Hook /\ Done(HandedTo(nft, to, TRUE), <<>>)
     \/ \E nft \in Nfts :
          store.owner[nft] = Hook /\ Done([store EXCEPT !.owner[nft] = NoOne], <<>>)
     \/ \E nft \in Nfts, channel \in Channels :
          /\ store.owner[nft] = Hook
          /\ nft \in BeingRedeemed => ResendsRedeemed
          /\ Done(store, <<SendNft(nft, Hook, Via, channel, FALSE)>>)
     \/ Done(store, <<PauseBridge>>)

\* The callback contract fails.
CallbackFails(msg) == msg.op = "callback" /\ Failed

-----------------------------------------------------------------------------
(* Transactions.                                                           *)

NoTx == tx = Idle

\* A user sends an NFT to the bridge, or to its outgoing proxy.
UserSend(nft, via, channel, callback) ==
  /\ NoTx /\ store.owner[nft] \in Users
  /\ stack' = <<SendNft(nft, store.owner[nft], via, channel, callback)>>
  /\ tx' = [kind |-> "send", before |-> store, result |-> "none"]
  /\ UNCHANGED <<store, remote>>

\* A user transfers an NFT, to whichever address.
UserTransfer(nft, to) ==
  /\ NoTx /\ store.owner[nft] \in Users
  /\ store' = HandedTo(nft, to, TRUE)
  /\ UNCHANGED <<stack, tx, remote>>

\* A user burns an NFT: the bridge hears nothing of it.
UserBurn(nft) ==
  /\ NoTx /\ store.owner[nft] \in Users
  /\ store' = [store EXCEPT !.owner[nft] = NoOne]
  /\ UNCHANGED <<stack, tx, remote>>

\* An admin of the chain an NFT comes from releases it there when its voucher here is
\* gone, so that it can be sent here again.
RemoteReleases(nft) ==
  /\ NoTx /\ nft.class # Home /\ store.owner[nft] = NoOne
  /\ remote' = remote \cup {[nft |-> nft, channel |-> nft.class]}
  /\ UNCHANGED <<store, stack, tx>>

\* The chain at the other end sends some of the NFTs it has for this chain, to any
\* address of this chain: that of the bridge is as good as another.
PacketsIn ==
  [channel: Channels, class: Classes,
   tokens: {<<t>> : t \in Tokens} \cup {<<t, u>> : t, u \in Tokens},
   receiver: Accounts, callback: BOOLEAN]

RecvPacket(packet) ==
  /\ NoTx
  /\ Len(packet.tokens) = 2 => packet.tokens[1] # packet.tokens[2]
  /\ \A n \in PacketNfts(packet) : [nft |-> n, channel |-> packet.channel] \in remote
  /\ Receive(packet)

\* It receives a packet, and says so the way a bridge does.  If it does not, the packet
\* times out or is acknowledged: by the bridge, or "by the SDK, and not by our
\* counterparty contract" (try_get_ack_error) with who knows what.
RemoteAnswers(p) ==
  /\ NoTx /\ p.state = "sent"
  /\ \E answer \in Acks \cup {"timeout"} :
       /\ store' = [store EXCEPT !.packets = (@ \ {p}) \cup {[p EXCEPT !.state = answer]}]
       /\ remote' = IF answer = "result"
                    THEN remote \cup {[nft |-> p.nft, channel |-> p.channel]}
                    ELSE remote
  /\ UNCHANGED <<stack, tx>>

Migrate(pauser, proxies) ==
  /\ NoTx
  /\ store' = [store EXCEPT !.po = SetPauser(pauser), !.incomingProxy = proxies[1],
                            !.outgoingProxy = proxies[2]]
  /\ UNCHANGED <<stack, tx, remote>>

Execute(msg) ==
  \/ ExecConjunction(msg) \/ ExecRedeem(msg) \/ ExecCreate(msg) \/ ExecMint(msg)
  \/ ExecRedeemEntries(msg) \/ ExecAddEntries(msg) \/ ExecReceiveNft(msg)
  \/ ExecPause(msg) \/ ExecAckCallback(msg)
  \/ ExecCollection(msg) \/ ExecProxy(msg) \/ ExecCallback(msg)

\* The transaction goes on with its next message.
Continue ==
  /\ stack # <<>>
  /\ LET msg == Head(stack)
     IN  \/ Works(msg) /\ Execute(msg)
         \/ ~ Works(msg) /\ Failed
         \/ CallbackFails(msg)
         \/ msg.op = "reply" /\ ReplySuccess

\* It is committed; the other chain gets the acknowledgement, and its NFTs back with
\* an error.
Commit ==
  /\ stack = <<>> /\ ~ NoTx
  /\ remote' = IF tx.kind = "receive" /\ tx.result = "error"
               THEN remote \cup {[nft |-> n, channel |-> tx.packet.channel] :
                                   n \in PacketNfts(tx.packet)}
               ELSE remote
  /\ tx' = Idle
  /\ UNCHANGED <<store, stack>>

Next ==
  \/ \E nft \in Nfts, via \in {"collection", "proxy"}, channel \in Channels, callback \in BOOLEAN :
       UserSend(nft, via, channel, callback)
  \/ \E nft \in Nfts, to \in Accounts : UserTransfer(nft, to)
  \/ \E nft \in Nfts : UserBurn(nft) \/ RemoteReleases(nft)
  \/ \E packet \in PacketsIn : RecvPacket(packet)
  \/ \E p \in store.packets : NoTx /\ Resolve(p)
  \/ \E p \in store.packets : RemoteAnswers(p)
  \/ \E pauser \in {Hook, NoPauser}, proxies \in Proxies : Migrate(pauser, proxies)
  \/ Continue
  \/ Commit

Spec == Init /\ [][Next]_vars

-----------------------------------------------------------------------------
(* Properties.                                                             *)

Stores ==
  [owner: [Nfts -> Accounts \cup {NoOne}], given: SUBSET Nfts,
   outgoing: [Nfts -> Channels \cup {NoChannel}],
   incoming: [Nfts -> Channels \cup {NoChannel}],
   metadata: SUBSET Nfts, registry: SUBSET Classes,
   incomingProxy: BOOLEAN, outgoingProxy: BOOLEAN, po: PauseOrchestrator,
   packets: SUBSET [seq: 1..MaxPackets, nft: Nfts, channel: Channels,
                    sender: Users \cup {Hook}, callback: BOOLEAN,
                    state: Acks \cup {"sent", "timeout"}],
   nextSeq: 1..(MaxPackets + 1)]

\* The storage items, the packets and the other chains hold values of their types.
TypeOK ==
  /\ store \in Stores
  /\ ~ NoTx => tx.before \in Stores /\ tx.result \in {"none", "ok", "error", "reverted"}
  /\ remote \subseteq [nft: Nfts, channel: Channels]

\* The packet may still come back, or its voucher is still to be burned.
Binds(p) == p.state # "result" \/ p.nft.class = p.channel

\* The NFT is on its way through the channel, or held on the chain at its end.
Away(nft, channel) ==
  \/ nft.class # channel /\ [nft |-> nft, channel |-> channel] \in remote
  \/ \E p \in store.packets : p.nft = nft /\ p.channel = channel /\ Binds(p)

\* Between transactions every NFT that is away - on its way or held on another chain -
\* is escrowed, and the channel it went out on is noted, so that the other chain
\* can send it back (state.rs: OUTGOING_CLASS_TOKEN_TO_CHANNEL holds "the local
\* channel that NFTs have been sent out on").
AwayIsRedeemable ==
  NoTx =>
    \A nft \in Nfts, channel \in Channels : Away(nft, channel) =>
         /\ store.owner[nft] = Ics721
         /\ store.outgoing[nft] = channel
         /\ nft.class \in store.registry

\* What the bridge owns is away, or was put with it by a packet or an owner that named
\* its address, never both: no way a transfer that this bridge made can end -
\* acknowledged or timed out, with data that does not parse, with callbacks that fail -
\* leaves an NFT behind that nobody can ask back, and what it was given is not sent out
\* (ibc_packet_ack, handle_packet_fail; for a receipt addr_validate takes any address).
EscrowedIsAway ==
  NoTx =>
    \A nft \in Nfts :
      /\ store.owner[nft] = Ics721 =>
           nft \in store.given \/ \E channel \in Channels : Away(nft, channel)
      /\ nft \in store.given =>
           /\ store.owner[nft] = Ics721
           /\ \A channel \in Channels : ~ Away(nft, channel)

\* Between transactions the incoming channel and the metadata of a voucher are kept
\* together, and for every voucher that exists; they outlive one that its owner burned,
\* but not one that the bridge burned.  The NFT is not on its own chain meanwhile -
\* unless it returned there and is still to be burned (callback_mint, the incoming
\* entries and ibc_packet_ack keep them in step although each is a message of its own).
VoucherBooks ==
  NoTx =>
    \A nft \in Nfts : nft.class # Home =>
      /\ store.incoming[nft] = nft.class <=> nft \in store.metadata
      /\ store.owner[nft] # NoOne => nft \in store.metadata
      /\ store.owner[nft] # NoOne /\ [nft |-> nft, channel |-> nft.class] \in remote =>
           \E p \in store.packets : p.nft = nft /\ p.channel = nft.class /\ p.state = "result"

\* Every packet is acknowledged, "regardless of if our processing of this packet
\* works" (ibc_packet_receive), and one that is acknowledged with an error has left
\* nothing behind, whatever proxy and callback contract did before the failure.
ReceiveAcknowledged ==
  tx.kind = "receive" /\ stack = <<>> =>
    \/ tx.result = "ok"
    \/ tx.result = "error" /\ store = tx.before

\* The proxy is asked before anything has changed, the callback contract when the
\* receiver owns the NFTs: it is called "on receiving the NFT after transfer was
\* completed" (types.rs).
ObserversSeeTransfer ==
  tx.kind = "receive" /\ stack # <<>> =>
    /\ Head(stack).op = "proxy" => store = tx.before
    /\ Head(stack).op = "callback" =>
         \A n \in PacketNfts(tx.packet) : store.owner[n] = tx.packet.receiver

\* A bridge that its callback contract pauses in the middle of a receive does not
\* take the packet: no NFT comes in with a paused bridge.
NoReceiptWhenPaused ==
  tx.kind = "receive" /\ tx.result = "ok" /\ stack = <<>> => ~ store.po.paused

\* Refund and burn never fail, and least of all because of the callback contract:
\* else "the NFT would have been minted on the other chain while the NFT on this
\* chain would not have been burned" (ack_callback_msg).
ResolveNeverReverts == tx.kind = "resolve" => tx.result # "reverted"

\* A failing receive callback fails the transfer, a failing acknowledgement callback
\* does not undo the refund or the burn (types.rs, ReceiverExecuteMsg).
CallbackFailure ==
  [][stack # <<>> /\ CallbackFails(Head(stack)) =>
       IF tx.kind = "receive"
       THEN tx'.result = "error" /\ store' = tx.before /\ stack' = <<>>
       ELSE store'.packets = store.packets /\ tx'.result = tx.result]_vars

=============================================================================
