----------------------------- MODULE PacketRules -----------------------------
(***************************************************************************)
(* How a bridge takes a packet of several tokens apart: it validates the   *)
(* packet, pairs the token ids with their uris and data (zip_optional),    *)
(* sorts the tokens into redemptions and creations, and makes one message  *)
(* for every token.  The other modules start from a packet that is well    *)
(* formed; here it is any that another implementation may send: lists of   *)
(* different lengths, empty fields, the same token twice, tokens that were *)
(* sent out on this channel beside tokens that were not.                   *)
(***************************************************************************)
EXTENDS Naturals, SequencesExt

CONSTANTS TokenIds, Uris, Data,
          None,       \* an optional field that is not there
          MaxTokens,  \* bound: longest list in a packet
          Channel, OtherChannel, NoChannel,
          Ics721, User, NoOne,
          OldData     \* what is stored of a token that came in before

ASSUME BoundAssumption == MaxTokens \in Nat
ASSUME NoneAssumption == None \notin SeqOf(Uris, MaxTokens) \cup SeqOf(Data, MaxTokens)
ASSUME AccountAssumption == User # Ics721 /\ NoOne \notin {User, Ics721}
ASSUME ChannelAssumption == Channel \notin {OtherChannel, NoChannel}

\* A list of token_uris or token_data, or none.
Optional(values) == SeqOf(values, MaxTokens) \cup {None}

\* `popped`: the class id has the prefix of the sender's channel end.  `namesGiven`:
\* class id, class uri and class data are not empty.  The receiver is any valid address, the
\* bridge's own too.
Packets == [tokenIds: SeqOf(TokenIds, MaxTokens), tokenUris: Optional(Uris),
            tokenData: Optional(Data), popped: BOOLEAN, namesGiven: BOOLEAN,
            receiver: {User, Ics721}]

\* The owner of an NFT and the bridge's entries of it, in any combination.  The entries
\* outlive what they were made for: a voucher that was burned abroad or by its owner keeps
\* one of them, and an NFT that came in again has both.
Tokens ==
  {[owner |-> owner, outgoing |-> outgoing, incoming |-> incoming,
    data |-> IF incoming = NoChannel THEN None ELSE OldData] :
     owner \in {NoOne, User, Ics721}, outgoing \in {NoChannel, Channel, OtherChannel},
     incoming \in {NoChannel, Channel, OtherChannel}}

VARIABLES packet,      \* being received
          mintable,    \* the bridge made the collection, or will
          books,       \* what it has of each token
          before,      \* what it had
          rest,        \* the iterators over the token lists
          redemptions, \* token ids to redeem
          creations,   \* tokens to create
          executed,    \* messages executed
          step         \* what comes next, or the acknowledgement

vars == <<packet, mintable, books, before, rest, redemptions, creations, executed, step>>

\* A class that gets the prefix of this end is never one of a collection of this chain.
Init ==
  /\ packet \in Packets
  /\ mintable \in BOOLEAN /\ (packet.popped \/ mintable)
  /\ books \in [TokenIds -> Tokens]
  /\ before = books
  /\ rest = [ids |-> packet.tokenIds, uris |-> packet.tokenUris, data |-> packet.tokenData]
  /\ redemptions = <<>> /\ creations = <<>> /\ executed = 0
  /\ step = "validate"

-----------------------------------------------------------------------------
SameLength(list, ids) == list = None \/ Len(list) = Len(ids)

\* Compares one of the two lists only.
FaultyValidate(p) ==
  /\ p.namesGiven /\ p.tokenIds # <<>>
  /\ SameLength(p.tokenUris, p.tokenIds)

\* NonFungibleTokenPacketData::validate.
Validate(p) ==
  /\ p.namesGiven /\ p.tokenIds # <<>>
  /\ SameLength(p.tokenData, p.tokenIds)
  /\ SameLength(p.tokenUris, p.tokenIds)

ReceivePacket ==
  /\ step = "validate"
  /\ step' = IF Validate(packet) THEN "sort" ELSE "error"
  /\ UNCHANGED <<packet, mintable, books, before, rest, redemptions, creations,
                 executed>>

\* ZipOptional::next on the two nested iterators: all that are there must go on.
HasNext == \A list \in {rest.ids, rest.uris, rest.data} : list # <<>>

\* Gives every token the whole list.
FaultyHeadOf(list) == list

HeadOf(list) == IF list = None THEN None ELSE Head(list)
TailOf(list) == IF list = None THEN None ELSE Tail(list)

NextToken == [id |-> Head(rest.ids), uri |-> HeadOf(rest.uris), data |-> HeadOf(rest.data)]

ReturningToSource(id) == packet.popped /\ books[id].outgoing = Channel

SortToken ==
  /\ step = "sort" /\ HasNext
  /\ rest' = [ids |-> Tail(rest.ids), uris |-> TailOf(rest.uris), data |-> TailOf(rest.data)]
  /\ IF ReturningToSource(NextToken.id)
     THEN redemptions' = Append(redemptions, NextToken.id) /\ UNCHANGED creations
     ELSE creations' = Append(creations, NextToken) /\ UNCHANGED redemptions
  /\ UNCHANGED <<packet, mintable, books, before, executed, step>>

\* Redeems what can be redeemed and forgets the rest.
FaultyAction ==
  IF redemptions # <<>> THEN "redeem" ELSE IF creations # <<>> THEN "create" ELSE "error"

\* "All token ids in the transfer must be either a redeption or creation".
Action ==
  IF (redemptions = <<>>) = (creations = <<>>) THEN "error"
  ELSE IF redemptions # <<>> THEN "redeem" ELSE "create"

SortDone ==
  /\ step = "sort" /\ ~ HasNext
  /\ step' = Action
  /\ UNCHANGED <<packet, mintable, books, before, rest, redemptions, creations,
                 executed>>

-----------------------------------------------------------------------------
(* The messages of the accepted packet: one for every token, then one for the entries. *)

\* callback_redeem_vouchers: a TransferNft of the collection, which fails if the bridge
\* does not own the token - any more, if it is in the packet twice.
TransferNft ==
  /\ step = "redeem" /\ executed < Len(redemptions)
  /\ LET id == redemptions[executed + 1]
     IN  /\ books[id].owner = Ics721
         /\ books' = [books EXCEPT ![id].owner = packet.receiver]
  /\ executed' = executed + 1
  /\ UNCHANGED <<packet, mintable, before, rest, redemptions, creations, step>>

\* callback_mint saves the data of a token and has it minted, if it does not exist.
MintNft ==
  /\ step = "create" /\ executed < Len(creations)
  /\ LET token == creations[executed + 1]
     IN  /\ mintable /\ books[token.id].owner = NoOne
         /\ books' = [books EXCEPT ![token.id].owner = packet.receiver,
                                   ![token.id].data = token.data]
  /\ executed' = executed + 1
  /\ UNCHANGED <<packet, mintable, before, rest, redemptions, creations, step>>

\* A message that fails undoes the ones before it; the error is acknowledged.
MessageFails ==
  /\ \/ /\ step = "redeem" /\ executed < Len(redemptions)
        /\ books[redemptions[executed + 1]].owner # Ics721
     \/ /\ step = "create" /\ executed < Len(creations)
        /\ ~ mintable \/ books[creations[executed + 1].id].owner # NoOne
  /\ books' = before
  /\ step' = "error"
  /\ UNCHANGED <<packet, mintable, before, rest, redemptions, creations, executed>>

\* The tokens in redeem_outgoing_channels.
Redeemed == ToSet(redemptions)

RedeemOutgoingChannelEntries ==
  /\ step = "redeem" /\ executed = Len(redemptions)
  /\ books' = [id \in TokenIds |-> IF id \in Redeemed
                                   THEN [books[id] EXCEPT !.outgoing = NoChannel]
                                   ELSE books[id]]
  /\ step' = "ok"
  /\ UNCHANGED <<packet, mintable, before, rest, redemptions, creations, executed>>

AddIncomingChannelEntries ==
  /\ step = "create" /\ executed = Len(creations)
  /\ books' = [id \in TokenIds |-> IF \E token \in ToSet(creations) : token.id = id
                                   THEN [books[id] EXCEPT !.incoming = Channel]
                                   ELSE books[id]]
  /\ step' = "ok"
  /\ UNCHANGED <<packet, mintable, before, rest, redemptions, creations, executed>>

Next ==
  \/ ReceivePacket \/ SortToken \/ SortDone
  \/ TransferNft \/ MintNft \/ MessageFails
  \/ RedeemOutgoingChannelEntries \/ AddIncomingChannelEntries

Spec == Init /\ [][Next]_vars

-----------------------------------------------------------------------------
(* Properties.                                                             *)

\* The lists, the books and the step hold values of their types.
TypeOK ==
  /\ redemptions \in SeqOf(TokenIds, MaxTokens)
  /\ \A i \in DOMAIN creations :
       creations[i] \in [id: TokenIds, uri: Uris \cup {None}, data: Data \cup {None}]
  /\ books \in [TokenIds -> [owner: {NoOne, User, Ics721},
                             outgoing: {NoChannel, Channel, OtherChannel},
                             incoming: {NoChannel, Channel, OtherChannel},
                             data: Data \cup {None, OldData}]]
  /\ executed \in 0..MaxTokens
  /\ step \in {"validate", "sort", "redeem", "create", "ok", "error"}

\* What the packet says of its i-th token.
DataOf(i) == IF packet.tokenData = None THEN None ELSE packet.tokenData[i]

SentOutHere(id) == packet.popped /\ before[id].outgoing = Channel

\* A packet that is acknowledged as a success has given every one of its tokens to the
\* receiver, with the data it has in the packet if it is new, and changed nothing else: no
\* token is dropped because a list of uris or data is too short, or because the other
\* tokens of the packet are of the other kind (ZipOptional::next ends with the shorter list).
EveryTokenArrives ==
  step = "ok" =>
    /\ \A i \in DOMAIN packet.tokenIds :
         LET id == packet.tokenIds[i]
         IN  books[id] = IF SentOutHere(id)
                         THEN [before[id] EXCEPT !.owner = packet.receiver, !.outgoing = NoChannel]
                         ELSE [before[id] EXCEPT !.owner = packet.receiver, !.incoming = Channel,
                                                 !.data = DataOf(i)]
    /\ \A id \in TokenIds \ ToSet(packet.tokenIds) : books[id] = before[id]

\* The packets that can be received, said without the steps that receive them: the lists
\* belong together; and all tokens went out on this channel and are still held, or none of
\* them did and none exists.  The bridge does not look for a token that comes twice, because
\* "the cw721 will prevent minting of duplicates" (ibc_types.rs), as it will a second
\* transfer out of escrow - to anybody but the bridge, which still has the token to give.
\* A popped packet for a token whose entry is stale is not a creation: it is refused.
Distinguished == IsInjective(packet.tokenIds)

Receivable ==
  /\ packet.namesGiven /\ packet.tokenIds # <<>>
  /\ \A list \in {packet.tokenUris, packet.tokenData} : SameLength(list, packet.tokenIds)
  /\ \/ /\ \A id \in ToSet(packet.tokenIds) : SentOutHere(id) /\ before[id].owner = Ics721
        /\ Distinguished \/ packet.receiver = Ics721
     \/ /\ \A id \in ToSet(packet.tokenIds) : ~ SentOutHere(id) /\ before[id].owner = NoOne
        /\ Distinguished /\ mintable

\* Exactly these are acknowledged as a success, and any other leaves the books as they were.
SuccessIffReceivable ==
  /\ step = "ok" => Receivable
  /\ step = "error" => ~ Receivable /\ books = before

=============================================================================
