---------------------------- MODULE NftMetadata ----------------------------
(***************************************************************************)
(* What the NFTs and their classes look like while they travel: the data   *)
(* of packets, IBC_RECEIVE_TOKEN_METADATA, CLASS_ID_TO_CLASS and the       *)
(* contents of the cw721 contracts, added to the steps of AdminRecovery.   *)
(* Chains run the bridge of ics721-base or the one of sg-ics721, which     *)
(* differ in get_class_data and mint_msg only.                             *)
(*                                                                         *)
(* Pausing and migrating change none of this data and only keep other      *)
(* steps from happening: they are left out.                                *)
(***************************************************************************)
EXTENDS AdminRecovery

CONSTANTS Stargaze,     \* the chains that run sg-ics721
          Extensions,   \* on-chain contents of an NFT
          Blank,        \* Metadata::default() of sg-metadata
          NoData,       \* no on-chain content, token data None
          Infos,        \* what a collection tells about itself
          QueriesOf,    \* the queries every home collection answers
          NoClass,      \* there is no entry in CLASS_ID_TO_CLASS
          NotSent,      \* a voucher that was not sent on since it was minted
          NoToken,      \* the query found nothing
          QueryError,   \* the query failed
          MaxEdits      \* bound: changes of NFTs and home collections

Data == Extensions \cup {NoData}
Queries == {"GetCreatorOwnership", "Ownership", "Minter", "ContractInfo", "NumTokens",
            "CollectionInfo"}

ASSUME DataAssumption ==
  /\ Stargaze \subseteq Chains
  /\ Blank \in Extensions /\ NoData \notin Extensions
  /\ NotSent \notin Data /\ NoClass \notin Infos
  /\ {NoToken, QueryError} \cap [data: Data] = {}
  /\ QueriesOf \in [Collections -> SUBSET Queries]
  /\ MaxEdits \in Nat

VARIABLES
  content,    \* the extension of every NFT, in its cw721 contract
  info,       \* what every home collection tells about itself
  stored,     \* the values in IBC_RECEIVE_TOKEN_METADATA (NoData without an entry)
  classData,  \* CLASS_ID_TO_CLASS of every chain
  carried,    \* the class and token data of every packet
  sent,       \* the data every NFT left its chain with last
  edits       \* changes of NFTs and home collections

data == <<content, info, stored, classData, carried, sent, edits>>

HomeClass(collection) == [hops |-> <<>>, base |-> collection]

-----------------------------------------------------------------------------
(* Sending.                                                                *)

\* get_collection_data asks in the ways of three versions of cw721 for the owner.
CollectionDataAvailable(collection) ==
  /\ QueriesOf[collection] \cap {"GetCreatorOwnership", "Ownership", "Minter"} # {}
  /\ {"ContractInfo", "NumTokens"} \subseteq QueriesOf[collection]

\* get_class_data: sg-ics721 needs the CollectionInfo of sg721 as well.
ClassDataAvailable(chain, collection) ==
  /\ CollectionDataAvailable(collection)
  /\ chain \in Stargaze => "CollectionInfo" \in QueriesOf[collection]

\* Asks the collection on every send from its home.
FaultyClassOf(nft) ==
  IF IsVoucher(nft) THEN classData[nft.chain][nft.class] ELSE info[nft.class.base]

\* A known class keeps the data of its first send.
ClassOf(nft) ==
  IF Registered(nft) THEN classData[nft.chain][nft.class] ELSE info[nft.class.base]

\* Always takes the NFT as it is in its cw721 contract.
FaultyTokenMetadata(nft) == content[nft]

\* What an NFT came with, or else what its cw721 contract has.
TokenMetadata(nft) ==
  IF nft \in metadata /\ stored[nft] # NoData THEN stored[nft] ELSE content[nft]

SendWithData(nft, channel, receiver) ==
  /\ Registered(nft) \/ ClassDataAvailable(nft.chain, nft.class.base)
  /\ SendNft(nft, channel, receiver)
  /\ classData' = [classData EXCEPT ![nft.chain][nft.class] = ClassOf(nft)]
  /\ carried' = [carried EXCEPT ![nextSeq] = [class |-> ClassOf(nft),
                                              token |-> TokenMetadata(nft)]]
  /\ sent' = [sent EXCEPT ![nft] = TokenMetadata(nft)]
  /\ UNCHANGED <<content, info, stored, edits>>

-----------------------------------------------------------------------------
(* Receiving.                                                              *)

\* mint_msg of sg-ics721: sg721 has no NFT without content.
SgExtension(token) == IF token = NoData THEN Blank ELSE token

\* mint_msg: the data, or no extension at all.
MintedContent(chain, token) == IF chain \in Stargaze THEN SgExtension(token) ELSE token

\* Keeps an entry that is there already.
FaultySavedMetadata(nft, token) == IF nft \in metadata THEN stored[nft] ELSE token

\* Saved "for every token, regardless of if data is None".
SavedMetadata(nft, token) == token

\* Saves the class of home collections only.
FaultySavedClass(nft, new) == classData[nft.chain][nft.class]

\* Saved without a check if it has been set before.
SavedClass(nft, new) == new

CreateWithData(p) ==
  LET voucher == LocalNft(p)
      new == carried[p.seq]
  IN  /\ RecvCreate(p)
      /\ classData' = [classData EXCEPT ![voucher.chain][voucher.class] =
                     SavedClass(voucher, new.class)]
      /\ stored' = [stored EXCEPT ![voucher] = SavedMetadata(voucher, new.token)]
      /\ content' = [content EXCEPT ![voucher] = MintedContent(voucher.chain, new.token)]
      /\ sent' = [sent EXCEPT ![voucher] = NotSent]
      /\ UNCHANGED <<info, carried, edits>>

-----------------------------------------------------------------------------
(* Everything else removes data at most.                                   *)

OtherStep ==
  \/ \E p \in packets : RecvRedeem(p)
  \/ \E p \in packets : RecvFail(p)
  \/ \E p \in packets : Resolve(p)
  \/ \E nft \in Nfts, to \in Accounts : UserTransfer(nft, to)
  \/ \E nft \in Nfts : UserBurn(nft)
  \/ AdminNext

\* Entries go with the removals from IBC_RECEIVE_TOKEN_METADATA, contents with the NFT.
Forget ==
  /\ stored' = [nft \in Nfts |-> IF nft \in metadata' THEN stored[nft] ELSE NoData]
  /\ content' = [nft \in Nfts |-> IF nftOwner'[nft] = NoOne THEN NoData ELSE content[nft]]
  /\ UNCHANGED <<info, classData, carried, sent, edits>>

\* The creator of a collection changes an NFT.  Of vouchers that is the admin: init_msg
\* names it, and sg721 knows no such message.
EditNft(nft, extension) ==
  /\ edits < MaxEdits /\ nftOwner[nft] # NoOne
  /\ AtHome(nft) \/ nft.chain \notin Stargaze
  /\ content' = [content EXCEPT ![nft] = extension]
  /\ edits' = edits + 1
  /\ UNCHANGED <<vars, info, stored, classData, carried, sent>>

\* A home collection changes what it tells about itself, its number of tokens for one.
EditCollection(collection, new) ==
  /\ edits < MaxEdits
  /\ info' = [info EXCEPT ![collection] = new]
  /\ edits' = edits + 1
  /\ UNCHANGED <<vars, content, stored, classData, carried, sent>>

DataInit ==
  /\ Init
  /\ \E extension \in [Collections \X TokenIds -> Data] :
       content = [n \in Nfts |-> IF AtHome(n) THEN extension[<<n.class.base, n.token>>]
                                              ELSE NoData]
  /\ info \in [Collections -> Infos]
  /\ stored = [n \in Nfts |-> NoData]
  /\ classData = [c \in Chains |-> [k \in ClassIds |-> NoClass]]
  /\ carried = [seq \in 1..MaxPackets |-> [class |-> NoClass, token |-> NoData]]
  /\ sent = [n \in Nfts |-> NotSent]
  /\ edits = 0

DataNext ==
  \/ \E nft \in Nfts, channel \in ChannelIds, receiver \in Receivers :
       SendWithData(nft, channel, receiver)
  \/ \E p \in packets : CreateWithData(p)
  \/ OtherStep /\ Forget
  \/ \E nft \in Nfts, extension \in Extensions : EditNft(nft, extension)
  \/ \E collection \in Collections, new \in Infos : EditCollection(collection, new)

DataSpec == DataInit /\ [][DataNext]_<<vars, data>>

-----------------------------------------------------------------------------
(* Queries.                                                                *)

TokenAnswer(token) == [data |-> token]

\* query_token_metadata: the entry, and the cw721 contract for the uri.
QueryTokenMetadata(nft) ==
  CASE nft \notin metadata \/ ~ Registered(nft) -> NoToken
    [] nft \in metadata /\ Registered(nft) /\ nftOwner[nft] = NoOne -> QueryError
    [] OTHER -> TokenAnswer(stored[nft])

\* query_owner asks the cw721 contract of the class.
QueryOwner(nft) ==
  IF Registered(nft) /\ nftOwner[nft] # NoOne THEN nftOwner[nft] ELSE QueryError

\* query_class_metadata.
QueryClassMetadata(chain, id) == classData[chain][id]

-----------------------------------------------------------------------------
(* Properties.                                                             *)

\* Type invariant of the data.
DataTypeOK ==
  /\ content \in [Nfts -> Data]
  /\ info \in [Collections -> Infos]
  /\ stored \in [Nfts -> Data]
  /\ classData \in [Chains -> [ClassIds -> Infos \cup {NoClass}]]
  /\ carried \in [1..MaxPackets -> [class: Infos \cup {NoClass}, token: Data]]
  /\ sent \in [Nfts -> Data \cup {NotSent}]
  /\ edits \in Nat /\ nextSeq \in Nat \ {0}

\* A class is in CLASS_ID_TO_CLASS exactly if it has a collection: receive_nft, which
\* loads it for a known collection, never fails for want of it, and no metadata
\* belongs to a class without a collection (the debug_assert of query_token_metadata).
ClassesDescribed ==
  /\ \A nft \in Nfts :
       Registered(nft) <=> QueryClassMetadata(nft.chain, nft.class) # NoClass
  /\ \A nft \in metadata : Registered(nft)
  /\ \A nft \in Nfts : IsVoucher(nft) /\ nftOwner[nft] # NoOne => Registered(nft)

\* A packet that can still be received carries what its NFT left with.
PacketsCarrySent ==
  \A p \in packets :
    /\ p.seq \in 1..MaxPackets /\ p.seq < nextSeq
    /\ carried[p.seq].class # NoClass
    /\ Unresolved(p) => carried[p.seq].token = sent[SourceNft(p)]

\* Whoever asks the bridge for a voucher gets the data that the NFT it stands for left
\* the other chain with last: no entry of an earlier stay is left over, whoever burned
\* or released what in the meantime and however the NFT was changed at home.
DataAsSent ==
  \A voucher \in Nfts : IsVoucher(voucher) /\ Live(voucher) =>
    QueryTokenMetadata(voucher) = TokenAnswer(sent[Origin(voucher)])

\* A voucher goes on with the data it came with.
SentOnAsReceived ==
  \A nft \in Nfts :
    IsVoucher(nft) /\ nftOwner[nft] # NoOne /\ stored[nft] # NoData =>
      sent[nft] \in {NotSent, stored[nft]}

\* So the data is the same on every hop: two vouchers of one NFT agree.
HopsAgree ==
  \A voucher \in Nfts :
    IsVoucher(voucher) /\ Live(voucher) /\ IsVoucher(Origin(voucher)) =>
      stored[Origin(voucher)] \in {NoData, stored[voucher]}

\* Only the home NFTs of a collection exist without a prefix.
OnlyHomeUnprefixed ==
  \A nft \in Nfts : ~ IsVoucher(nft) /\ nftOwner[nft] # NoOne => AtHome(nft)

\* On all chains that know a collection it has one description, which every packet
\* carries: that of its first send, although callback_create_vouchers saves what comes
\* in without a check and packets overtake each other.
OneDescription ==
  \A collection \in Collections :
    LET home == classData[HomeOf[collection]][HomeClass(collection)]
    IN  /\ \A c \in Chains, id \in ClassIds :
             id.base = collection => classData[c][id] \in {NoClass, home}
        /\ \A p \in packets : p.class.base = collection => carried[p.seq].class = home

\* Inductive together with IInv.
DataInv ==
  /\ DataTypeOK
  /\ ClassesDescribed
  /\ PacketsCarrySent
  /\ DataAsSent
  /\ SentOnAsReceived
  /\ OnlyHomeUnprefixed
  /\ OneDescription

\* Tokens are held by whom the cw721 contract says: a client can ask for the owner, the
\* token and the class of every voucher that was not burned behind the bridge's back.
QueriesAnswer ==
  \A nft \in Nfts : IsVoucher(nft) /\ nftOwner[nft] # NoOne =>
    /\ QueryOwner(nft) = nftOwner[nft]
    /\ QueryTokenMetadata(nft) \notin {NoToken, QueryError}
    /\ QueryClassMetadata(nft.chain, nft.class) # NoClass

\* receive_nft says that without metadata in the storage it is on the home chain, and
\* so takes the content of the cw721 contract: a voucher would then never leave with
\* other data than it came with.
FallbackOnlyAtHome ==
  \A nft \in Nfts : IsVoucher(nft) /\ nftOwner[nft] # NoOne =>
    sent[nft] \in {NotSent, stored[nft]}

=============================================================================
