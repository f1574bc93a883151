# ICS-721 bridge: TLA+ models, checks and proofs

This directory models the ICS-721 bridge contract of this repository
(`packages/ics721` with `packages/cw-pause-once`, `packages/ics721-types`,
`packages/zip-optional`, deployed by `contracts/ics721-base` and
`contracts/sg-ics721`): NFTs are locked on one chain and represented by
debt vouchers on others, over unordered IBC channels.

## 1. The system

| Part | State it keeps | Operations |
| --- | --- | --- |
| Bridge (`packages/ics721`) | `OUTGOING_CLASS_TOKEN_TO_CHANNEL`, `INCOMING_CLASS_TOKEN_TO_CHANNEL`, `IBC_RECEIVE_TOKEN_METADATA`, `CLASS_ID_AND_NFT_CONTRACT_INFO`, `CLASS_ID_TO_CLASS`, proxies, code id, admin, address length | `execute` (ReceiveNft, Pause, Callback, two admin calls), `migrate`, `reply`, IBC channel open/connect/close, packet receive/ack/timeout, queries |
| Pause orchestrator (`packages/cw-pause-once`) | `pauser`, `paused` | `set_pauser`, `pause`, `error_if_paused` |
| Packet rules (`packages/ics721-types`, `ibc_helpers.rs`, `packages/zip-optional`) | none | `validate`, prefixes of class ids, pairing of token lists |
| Class registry (`execute.rs`, `query.rs`, `helpers.rs`) | unique indexes class id <-> collection | registration by send, by receive (`instantiate2`), by `migrate_legacy` |
| NFT data (`execute.rs`, `utils.rs`, `contracts/sg-ics721`) | class data, token metadata, contents of the collections | taken from the collection at home, from the storage elsewhere; minted with each voucher |
| Settings (`execute.rs`, `packages/cw-cii`) | code id, admin, address length, proxies, pauser | `instantiate` with its replies, `migrate`, `pause` |
| Callbacks and proxies (`helpers.rs`) | none | receive callback, acknowledgement callback, incoming and outgoing proxy |
| cw721 collections, IBC core, relayers, proxies, callback contracts | outside `packages/ics721` | modelled from how the bridge uses them |

How they interact.  A user calls `SendNft` on a collection, which moves the
NFT to the bridge and calls `ReceiveNft` on it; the bridge sends an IBC packet.
A relayer carries the packet to the other chain, where `ibc_packet_receive`
schedules a submessage to the bridge itself (mint or redeem, callback,
bookkeeping) and acknowledges with its outcome.  A relayer carries the
acknowledgement, or a proof of timeout, back: the bridge burns the voucher that
returned, keeps the NFT in escrow, or gives it back.

What is hard.  Nothing runs in parallel inside a chain, but the chains and the
relayers interleave freely: acknowledgements arrive late and in any order,
after the NFT has moved on; packets time out; pauses, migrations, owners and
admins act in between.  Inside a transaction the bridge calls foreign contracts
that may fail or call back.

What makes it correct: an NFT is never usable in two places; a voucher can
always be redeemed; what is in flight stays locked until it is decided; a
failed transfer leaves no trace; late messages do nothing to NFTs that moved on.

### Components in detail

**Bridge.** One contract per chain. A class id is the address of a collection behind
one `port/channel/` prefix per hop. `receive_nft` records the channel in
`OUTGOING_CLASS_TOKEN_TO_CHANNEL` and sends a packet of one token;
`receive_ibc_packet` pops the prefix of the sender's end or pushes its own, and
redeems if the popped class and token have an outgoing entry for this very channel,
else mints; `ibc_packet_ack` burns the voucher if its incoming entry names the
channel it left by, else keeps the NFT in escrow; errors and timeouts clear the
outgoing entry and return the NFT (`handle_packet_fail`). The two maps are never
reconciled: the outgoing entry of a returned voucher and the incoming entry of a
voucher that its owner burned stay. The receiver of a packet is any valid address, that
of the bridge included. *Correct if* no two copies of an NFT can be used,
every voucher is redeemable one hop down, what can still fail or burn is locked, and
every transfer ends (`SingleOwner`, `VouchersBacked`, `InFlightLocked`,
`OneBindingPacket`, `ReturnsRedeemable`, `IncomingIsLastHop`, `HomeEntriesEscrowed`,
`PacketsResolve`).

**A receive from within.** `receive_ibc_packet` changes no state: it returns one
submessage to the contract itself, a `Conjunction` of two to four messages - proxy,
`CreateVouchers` or `RedeemVouchers`, receive callback, channel entries - and `reply`
writes the acknowledgement. Foreign code runs in the middle of it (proxy, collection,
callback contract), may fail, and may call the bridge again in the same transaction.
*Correct if* a receive is all or nothing, is acknowledged in any case, and the maps
are right again when the transaction is over (`ReceiveAcknowledged`, `VoucherBooks`,
`AwayIsRedeemable`, `EscrowedIsAway`, `ObserversSeeTransfer`, `NoReceiptWhenPaused`,
`ResolveNeverReverts`, `CallbackFailure`), so that it can be thought of as one step
(`ImplementsLedger`).

**Class registry.** Local collections are registered under their own address; for a
foreign class the contract predicts the `instantiate2` address, registers it, and
compares in `reply` - after code id or address length were changed by a migration,
too. *Correct if* a class has one collection for ever and no voucher collection is
ever taken for a local one (`RegistryInv`, `VouchersKnown`, `OneCollectionPerClass`,
`CollectionsStay`).

**Admin messages.** They burn or release an NFT and clear its channel on one chain,
which cannot see the others. *Correct if*, used by the operators' rule, the network
stays consistent (`SingleEnd`, `IInv`, `HomeEntriesEscrowed`).

**Pause.** `cw-pause-once` lets one account pause once; only a migration unpauses.
*Correct if* a paused bridge takes and sends nothing but still refunds and burns
(`PausedChainFrozen`, `NoReceiptWhenPaused`).

**Packet rules.** `validate` compares the lengths of the token lists, `zip_optional`
ends with the shortest of them, and the tokens of a packet are sorted into redemptions
and creations. Duplicate ids are left to the collection. *Correct if* every token of an
accepted packet arrives with its own data, or nothing happens (`EveryTokenArrives`,
`SuccessIffReceivable`).

**Channels.** `ibc_channel_open` and `ibc_channel_connect` check order and version in
whatever step they are called; `ibc_channel_close` refuses to begin closing and accepts
that the other end did. *Correct if* open ends are unordered, joined in pairs and of one
version (`OpenMeansIcs721`), and no bridge closes first (`NeverClosesFirst`,
`ClosingFollows`).

**NFT data.** A collection is asked for its data on the first send of an NFT of it, and
the stored class is sent from then on; the content of an NFT is asked for at home and
taken from `IBC_RECEIVE_TOKEN_METADATA` elsewhere. `callback_create_vouchers` saves the
class of the packet, `callback_mint` the token data, sg-ics721 mints a default content
if there is none. *Correct if* a voucher shows what was sent, from hop to hop, though
NFT and collection change at home and old entries stay (`DataInv`, `DataAsSent`,
`HopsAgree`, `OneDescription`, `QueriesAnswer`).

**Settings.** `instantiate` stores them and has up to two proxies made, whose addresses
come back in replies; a migration drops some settings it does not name and keeps
others. *Correct if* the bridge works with what it was last told, and nobody pauses
twice (`SettingsAsTold`, `PauseOnce`).

## 2. Plan

Written, in this order:

1. `PausePolicy`, `Ics721Net` - the network of bridges, first because everything the
   contract is for is a property of several chains.
2. `NftCustody`, `Ics721Custody` - the promise to an owner, and that 1. keeps it.
3. `Ics721Net_proofs` - 1. and 2. proved.
4. `BridgeTx` - the inside of the transactions that 1. takes as one step.
5. `AdminRecovery` (composes with 1.), `ClassRegistry`, `ClassRegistry_proofs`.
6. `PacketRules` - packets of several tokens, well formed or not.
7. `ChannelHandshake`, `ChannelHandshake_proofs` - where the channels of 1. come from.
8. `Ics721Net_proofs`, last part - 5. proved on the invariant of 3.
9. `NftMetadata` (composes with 5.), `NftMetadata_proofs` - what the NFTs look like.
10. `BridgeLedger`, `BridgeTxLedger` - the bridge with one step for a transaction, and
    that 4. implements it.
11. `BridgeSetup` - how the settings come about that the others take as given.
12. `BridgeTx_proofs`, `PacketRules_proofs` - 4. and 6. proved: how a transaction goes on
    and ends, and that no token of a packet is lost.
13. `BridgeTx_proofs`, second part - the books of 4.
14. `BridgeSetup_proofs` - 11. proved.
15. `BridgeTxLedger_proofs` - the refinement of 10. proved, on top of 12. and 13.

With that every safety property that a run expects to hold is a theorem. Still open is a
common abstraction of 1. and 4.: `BridgeLedger` is about one bridge and takes what the
other chains do as given, `Ics721Net` has no callback contracts.

## 3. Modules and the code they model

| Module | Models | State ↔ code | Actions ↔ code |
| --- | --- | --- | --- |
| `PausePolicy` | `cw-pause-once` | record of `pauser`, `paused` | `SetPauser`, `ErrorIfPaused`, `PauseAllowed`, `PausedPolicy` are the methods |
| `Ics721Net` | one bridge per chain, IBC, owners | `outgoing`, `incoming`, `metadata`, `registry`, `po` are the storage maps; `nftOwner` the collections' owners; `packets`, `nextSeq` IBC core | `SendNft` = `receive_nft`; `RecvRedeem`, `RecvCreate`, `RecvFail` = `receive_ibc_packet` with its callbacks and `reply`; `AckBurn`, `AckKeep` = `ibc_packet_ack`; `AckFail`, `Timeout` = `handle_packet_fail`; `UserTransfer`, `UserBurn` the collections; `Pause`, `Migrate` |
| `NftCustody` | the promise (README, "failure handling") | `place` of every NFT | `HandOver`, `Depart`, `Arrive`, `Refund`, `Lose` |
| `Ics721Custody` | refinement mapping | `PlaceOf`, read off owners and undecided packets | |
| `BridgeTx` | one bridge, message by message | `store` = its storage, the owners and its packets; `stack` = messages still to execute; `tx` = the running transaction; `remote` = what other chains can send; `store.given` = NFTs whose receiver was the bridge, which the code does not record | `Exec...` = the branches of `execute_callback`, `execute_receive_nft`, `execute_pause`; `Receive`, `Resolve` = IBC entry points; `Operands` = `into_submessage`; `Failed`, `ReplySuccess` = rollback and `reply`; `UserTransfer`, `UserBurn`, `HandedTo` = the collections; `RemoteAnswers`, `RemoteReleases` = the other chains |
| `BridgeLedger` | what a user may think the bridge does | `ledger` = where every NFT is and what is under way | one action per transaction: a send, a receipt with what follows it, an end, a transfer or burn by an owner |
| `BridgeTxLedger` | refinement mapping | the ledger read off `store` between transactions, off `tx.before` within | |
| `AdminRecovery` | the two admin messages on `Ics721Net` | that of `Ics721Net` | `AdminCleanAndBurnNft`, `AdminCleanAndUnescrowNft` |
| `ClassRegistry` | registry of one bridge | `info`, `class`, `codeId`, `addrLength`, `legacy` are storage items; `deployed` the voucher collections on the chain | `ReceiveNft`, `UseCollection`, `MakeCollection` (with `ReplyInstantiate`), `Migrate` (with `MigrateLegacy`) |
| `PacketRules` | one receive, token by token | `packet`; `rest` = the iterators of `zip_optional`; `redemptions`, `creations` = the accumulator of `try_fold`; `books` = owner and entries of each token, in every combination | `ReceivePacket` = `validate`; `SortToken`, `SortDone` = `create_voucher_and_channel_messages`; `TransferNft`, `MintNft`, `...Entries` = the callbacks |
| `NftMetadata` | class data and token metadata, on top of `AdminRecovery` | `content`, `info` in the collections; `stored`, `classData` are `IBC_RECEIVE_TOKEN_METADATA`, `CLASS_ID_TO_CLASS`; `carried` the data of the packets; `sent` remembers what every NFT left with | `SendWithData` = `receive_nft`; `CreateWithData` = `callback_create_vouchers`, `callback_mint`; `Forget` in `ibc_packet_ack`; `EditNft`, `EditCollection` the owners at home |
| `BridgeSetup` | settings of one bridge, `cw-cii` | `bridge` = the items; `todo` = submessages of `instantiate`; `told`, `pauses` remember what was asked for | `Instantiate`, `ProxyMade` = `reply`, `ProxyFails` = rollback, `Migrate`, `Pause` |
| `ChannelHandshake` | opening and closing of channels | `end` = channel ends of IBC core | `OpenInit`, `OpenTry` = `ibc_channel_open`; `OpenAck`, `OpenConfirm` = `ibc_channel_connect`; `CloseInit`, `CloseConfirm` = `ibc_channel_close` |

`PROJECT.json` gives the lines for every definition. The modules named `MC...` hold
topologies and constants for TLC. An operator `Faulty...` stands before the operator
it is a plausible bug of, and is used to see that a property notices.

What is abstracted, and why it does not matter to the properties:

* `Ics721Net` takes a transaction as one step, because CosmWasm executes it atomically
  and rolls it back on an error. What this hides is the subject of `BridgeTx`.
* The bridge has one port for its lifetime, so a prefix is a channel id, and a class id
  a sequence of channel ids before a collection. Channel ids are local: the configs
  use the same id on different chains for different channels.
* `Ics721Net` reduces metadata to whether it is kept; `NftMetadata` adds the values. There
  a description of a collection, and the content of an NFT, is one value: fields are not
  told apart. With `callback_create_vouchers` an existing class may be overwritten; in a
  network of these bridges the new value is always the old one (`OneDescription`).
* Whatever data an NFT has, it moves alike: every step of `NftMetadata` is one of
  `AdminRecovery` with data added. Pauses and migrations are left out of it.
* Packets of `Ics721Net` carry one token, as those of `receive_nft` do. `BridgeTx`
  takes packets of two from other implementations.
* Receivers in `BridgeTx` and `PacketRules` are any address of the chain, the bridge's
  own included. An address that is not valid is refused like a packet from a paused
  bridge: before anything is done, by an acknowledgement with an error. `Ics721Net` has
  that case, `BridgeTx` only the refusal.
* In `BridgeTx` owners and callback contracts transfer and burn what they own between
  and within transactions. They do not use cw721 approvals: a spender who is approved
  does for the owner what the owner may do. A chain whose NFT lost its voucher here may have an
  admin release it and send it again (`RemoteReleases`).
* `PacketRules` starts from every combination of owner, outgoing and incoming entry of
  each token, whether or not some history leads to it, so that entries that transfers and
  burns left behind are among them. Metadata is there if and only if the incoming entry is
  (`VoucherBooks`, a theorem of `BridgeTx_proofs`).
* The bridge is minter of the voucher collections only (`MintWorks`), and a
  collection that refuses transfers to some account (`Refusing`) is one it has not made.
* `Settled`, `remote`: the chains at the other ends run the protocol. A hostile
  counterparty chain is outside of all the modules.
* In `ClassRegistry` an address is the record of what it is derived from: different
  code, class or length gives a different address (SHA-256 does not collide). A foreign
  class always has a prefix, so it is never the address of a local contract.
* A proxy of `BridgeTx` either accepts or fails. The outgoing proxy's transfer and its
  call of `ReceiveNft` are one `SendNft` message with `via = "proxy"`.
* Timeouts are possible at any time before the receipt, and only then: that is what
  IBC core guarantees for unordered channels.

## 4. What is checked

Deadlock is checked in the `Tx_` runs, where there is always a migration or a
packet to go on with. The others bound packets, hence really stop
(`CHECK_DEADLOCK FALSE`).

| Run | Asks | Instance | Bounds |
| --- | --- | --- | --- |
| `parallel` | does an NFT that goes out, on, back by either channel and out again, while old acknowledgements are under way, stay locked while bound and redeemable on return? can round trips leave an unbacked voucher or two usable copies? does every transfer end on the chain that began it? | 2 chains, 2 parallel channels, 1 NFT, 1 user, an invalid receiver | 2 hops, 6 packets |
| `faults` | what if receivers are invalid, refuse or veto, packets time out, bridges are paused and migrated, owners burn or strand NFTs? is every step one the owner was promised? | 2 chains, 1 channel, 2 users | 1 hop, 3 packets, 1 migration |
| `recovery` | do admins who follow the rule leave a consistent network? | 3 chains in a row | 2 hops, 5 packets |
| `data` | does a voucher show what was sent, and every chain the same collection, while both change at home, vouchers are burned and admins clean up? | 3 chains in a row, one with sg-ics721, 2 contents, 2 descriptions | 2 hops, 3 packets, 2 edits |
| `data_fallback` | is the content of the contract only sent from home? (No: violation) | 3 chains in a row, the second with sg-ics721 | 2 hops, 2 packets, no edits |
| `tx_books` | are the maps right after transactions in which callbacks fail, hand on, burn, send away or pause, while owners transfer and burn? | 1 bridge, 2 channels, one with a collection that cannot be made | 2 packets sent |
| `tx_receive` | is a receive all or nothing, also for two tokens, what do proxy and callback see, and is all of it one step of the ledger? | 1 bridge, 1 channel, 2 tokens (symmetric), receivers with the bridge itself, both proxies or none | 1 packet sent |
| `tx_resend` | may a callback contract send on the NFT that is being redeemed? (No: violation) | 1 bridge, 1 channel | 2 packets sent |
| `registry` | does a class keep its collection through wrong address lengths, new code ids and the migration of an old version? | 1 local collection, 2 foreign classes, 2 codes, 2 lengths | 3 migrations |
| `packets` | does every token of an accepted packet arrive, whatever lists it has, and is no packet refused that could be received? | 2 tokens, every packet, every combination of their owner and entries, receiver a user or the bridge | lists of up to 2 |
| `channels` | can handshakes that cross, or an application that answers other versions, leave a bridge with a wrong channel? | 2 bridges, 1 other application, 4 ends | - |
| `setup` | can proxies be swapped or lost, settings stay that were dropped, or an old pauser pause again? | 2 pausers, 2 admins, 2 codes, proxies made from one code | - |

Why the bounds are enough to be interesting: six packets are out, on, back, back, out
and back again, with acknowledgements of the first two still open; with two parallel
channels two hops lead home again, where the class id differs from the home class and
the voucher stands next to the NFT. Longer ways round, over more chains, are the
theorems' (section 6). One token is enough because entries, owners and packets of different
tokens never meet except inside one packet (`tx_receive` and `packets` have two). Three packets
and two edits are enough for an NFT that is sent, burned elsewhere or returned, changed,
and sent again. `MaxHops`, `MaxPackets` and `MaxMigrations` are guards of `SendNft` and
`Migrate` only, `MaxEdits` of the edits. The theorems of section 6 hold for all their values.
The largest runs are `tx_books` and `packets` with 4.9 and 4.8 million states, and `tx_receive`
with 2.4 million up to the exchange of its two tokens, which neither `BridgeTx` nor
`BridgeLedger` tells apart. `tx_receive` is where `ImplementsLedger` is checked: a callback contract may do in a
receive whatever it may do in the other runs, and one packet sent by the bridge gives it an
NFT to redeem and one to resolve.

Fairness (`FairSpec`): weak fairness for each packet that it is received, reported or
timed out. Relaying is permissionless and a transaction that fails can be tried
again; the contract offers no other guarantee and none is assumed: not that receipt
comes before timeout, nor that owners or admins ever act. `PacketsResolve` then says
that no acknowledgement or timeout ever becomes impossible to execute. It is checked
without refusing accounts: a home collection that refuses to give an NFT back to its
sender leaves the packet open for good, and no bridge could do otherwise.
`ChannelHandshake` assumes that somebody reports a closed channel to the other end.

## 5. What was found

**A receive callback that sends on a redeemed NFT strands it** (`tx_resend`). The last
message of the conjunction removes the outgoing entries of the redeemed tokens
(`ibc_packet_receive.rs:275`). It runs after the receive callback. If the callback
contract sends the NFT on in its callback, `receive_nft` has saved a new entry by then,
which is removed: the NFT is escrowed, its packet is on its way, and nothing says where
it went. When it comes back it is taken for a new NFT, for which the bridge cannot
mint, so the voucher cannot go home until an admin acts. The other runs of `BridgeTx` therefore have
`ResendsRedeemed = FALSE`; everything else a callback contract may do, sending on
a voucher it just received included, keeps the books.

**Data of a voucher may come from its contract** (`data_fallback`). A comment in
`receive_nft` (`execute.rs:425`) says that the content of the cw721 contract is used at
home only. `callback_mint` stores an entry for every voucher "regardless of if data is
None" (`execute.rs:723`), but the `flatten` of `receive_nft` makes a stored `None` the
same as no entry, so a voucher without on-chain data takes the home branch, too. With
ics721-base it has no content and nothing shows; sg-ics721 minted it with a default
content (`contracts/sg-ics721/src/execute.rs:119-162`), and the NFT goes on with data
that it does not have at home. `HopsAgree` is stated for the data that came.

Not defects, but good to know:

* An NFT that is transferred to the contract without `SendNft`, or received in a packet
  that names the bridge as receiver (`addr_validate` in `ibc_packet_receive.rs:172` takes
  it), stays with the bridge. Nothing in the storage tells it from an escrowed one, and
  only the admin message can release it, if the collection is registered.
  `store.given` marks these NFTs: `EscrowedIsAway` says that they are the only ones the
  bridge owns that are not away, and that it never sends out what it was given.
* A voucher burned by its owner or a callback contract leaves its incoming entry and
  metadata behind. `VoucherBooks` says that the two stay together, so the next
  voucher overwrites both; that every voucher there is has them; and that a burn by the
  bridge removes both.
* A packet that comes back for an NFT that is not escrowed any more, though its outgoing
  entry stayed, is refused, not taken for a new NFT. And a packet that names an
  escrowed token twice is a success if the bridge is the receiver: the second
  transfer is from the bridge to itself. `Receivable` of `PacketRules` has both.
* The order of the two admin messages matters. The test in `ts-relayer-tests`
  (`ics721.spec.ts`, about line 1450) unescrows at home before it burns the voucher; in
  between two copies can be used. `Settled` is the other order, burn first, and
  `SingleEnd` holds for it. What a release does while the voucher is still there is
  therefore covered by no property here.
* On the way home a voucher's outgoing entry survives the burn. `ReturnsRedeemable`
  shows that it never misleads a later receive.

## 6. What is proved

All with TLAPS, for every number of chains, every symmetric pairing of channel ends, all
finite or infinite sets of users, tokens and collections, and every bound. The
assumptions are the named ASSUMEs of the modules, on the sets of constants being of the
right shape and disjoint.

* `Ics721Net_proofs`: `IInv` is inductive; there is one lemma per action. `InFlightLocked`
  alone is not inductive: a refund of a second packet could move the NFT
  (`OneBindingPacket`); a burn by a late acknowledgement must be told from an
  escrow (`IncomingIsLastHop`); a receive that mints must not hit a voucher that exists
  elsewhere (`SingleTip`); a redemption must find the NFT escrowed and not bound
  (`VouchersBacked`); and class ids that receiving would have shortened must not
  exist (`CanonicalClasses`). `PacketsFit` keeps the bound on hops closed under
  receiving. From `IInv` follow `TypeCorrect`, `InFlightSafe`, `BoundOnce`, `BurnsOnlyReturned`,
  `AllVouchersBacked`, `NoDuplication` (two copies with users would be two
  tips), `WayBackOpen`, `HomeEntriesExact` and the action property `PauseFreezes`.
* In the same module, `CustodyRefinement`: Spec => `ImplementsCustody`. Because of `SingleTip` the
  place of an NFT can be read in one way only (`PlacesRead`); then a send departs, a
  receive arrives or stutters, a refund refunds, and burns of returned vouchers and late
  successes are hidden.
* And last, for `AdminRecovery`: `IInv` is kept by the admin messages as well, because the rule
  of the module lets them act on NFTs only that are at the end of their way; `SingleEnd`
  and `HomeEntriesEscrowed` with it (`RecoverySafe`), hence `RecoveryKeepsOneOwner`.
* `ClassRegistry_proofs`: `RegistryInv` is inductive. `LegacyUntouched` and
  `LegacyKept` are there for the first migration; `OneCollectionPerClass` with
  `VouchersKnown` shows that an unregistered class has no collection yet
  (`UnknownClassNotDeployed`), so that `instantiate2` does not meet a taken address. From
  it `VouchersRecognised`, `OneHomePerClass` and `CollectionsNeverMove`.
* `ChannelHandshake_proofs`: `HandshakeInv` is inductive. `EndsJoined` says what the two
  ends know of each other, with the case of an end that was tried and not confirmed;
  `BridgeEnds` what a bridge has accepted. That no bridge closes first rests on itself: if
  the other end were a bridge's, this end would have had to close before it. From it
  `OpenChannelsAgree` and `BridgesKeepChannels`. This discharges what `TopologyAssumption`
  of `Ics721Net` assumes of `Peer`: it is a symmetric pairing of ends of open channels.
* `NftMetadata_proofs`: every data step maps to one of `AdminRecovery`, which gives `IInv`;
  `DataInv` is inductive on top of it. `ClassesDescribed` and
  `OneDescription` say that whatever is stored of a class is what its home stored,
  `PacketsCarrySent` that a packet under way carries what its NFT was sent with last, and
  `SentOnAsReceived` that a voucher goes on with what it came with: that is why an old
  class or metadata in the storage is never wrong. From it `VouchersShowWhatWasSent`,
  `DescribedAlike`, `DataKeptOverHops` and `QueriesAnswered`: `DataAssumption` says for it
  that the two answers without data are no data.
* `BridgeTx_proofs`: three inductive invariants on the stack of messages. `TypeInv` types
  every message, and says that at most one submessage with a reply is under way and that
  what it would restore is a store. `ReceiveInv` says that in a receive the last message
  on the stack is the reply that writes the acknowledgement and goes back to the store
  of before, and that the messages before it only leave the stack by working or by
  that reply: a receive cannot end otherwise (`Receiving`), nor with a bridge that was
  paused on the way, as the entries are written last (`PausedRefuses`). `ResolveInv` says that an
  acknowledgement callback is the first of two messages whose reply restores the store
  after the refund or the burn (`FailingCallbacks`).
* In the same module, `BooksInv` is inductive on top of these three. Within a
  transaction the books are incomplete, and the point of the proof is to say how far:
  `Books` is stated for a store, for what the other chains hold, and for the set of
  messages still to execute, which make up for what is missing. An NFT of the bridge is away, or was given to it, or a
  message will move it; a voucher has its metadata and its channel, or a message
  will burn it or enter the channel; the entries of one that its owner burned
  are neither missed nor in the way. `Ordered` says that these messages come in the
  order in which they are needed (all NFTs have been moved before the callback contract is called, the
  entries are written after it), `Missing` and `Served` what the NFTs of a received
  packet still wait for, and the stores that replies go back to have right books, too.
  So every message is executed on a store it does not fail on, and one that fails leaves
  right books behind. From it `Redeemable`, `NothingStranded`, `VouchersKept`, `PacketsEnd` and
  `Observers`. Their hypothesis is `~ ResendsRedeemed`, since with it the first of them is
  false (`tx_resend`, section 5). `NamesAssumption` keeps accounts apart from `NoOne`, the
  bridge's from the others, and channels from `Home`.
* `BridgeTxLedger_proofs`, `OneStepEach`: Spec => `ImplementsLedger`, under the same hypothesis. What a
  transaction amounts to is known when it begins: `Settled` is the ledger with the
  transfer made and the callback contract yet to act. `LedgerInv` says how near the store is to
  it. Until no message is left that moves an NFT, every NFT is where `Settled` has it, or
  a message will put it there (`Toward`); then the ledger of the store is one that the
  transaction may end with (`Goal`), and stays so, because only one message of the callback
  contract can change it. `Fitting` says that the NFTs of a packet were where the
  ledger expects them when the transaction began, which for those to be minted only the minting
  finds out; the reply of an acknowledgement callback goes back to `Settled`, and
  that packets are numbered makes transfers as many as packets (`Numbered`). So the
  messages are stutters and `Commit` is the step, unless all was undone.
* `PacketRules_proofs`: `IInv` relates the three iterators to how many tokens were taken
  from them, the sorted tokens to the lists, and the books to how many messages were
  executed, for lists of any length and books in any state. `zip_optional` ends with the shortest list; only `validate`
  makes that harmless. From it `PacketsArriveWhole` and `NoneRefusedInVain`.
* `BridgeSetup_proofs`: `SetupInv` says that the items and the messages still to execute
  together are what the last instantiation or migration asked for, and that a bridge
  that is paused was paused once, by the pauser named last. From it `SettingsTold` and
  `PausedOnce`. `NamesAssumption` keeps the names for "no bridge" and "no admin" from being taken.

Only model-checked: liveness (`PacketsResolve`, `ClosingFollows`), as fairness is out of
the prover's reach.

## 7. What is not modelled

* What becomes of NFTs that are away over a channel that the counterparty has closed:
  the bridge has no code for it but the admin messages.
* The queries that return one setting as it is stored, and the paged listings, which leave
  the paging to `cw-paginate-storage`.
* The entry points of `ics721-base` and `sg-ics721`, which delegate to `packages/ics721`.
* The instantiate message of voucher collections (`init_msg`): name, symbol, creator and
  royalties are content that the bridge never reads again. Of `cw-cii`, the admin, label
  and message of a proxy.
* The fields of class data and token metadata, and memos; JSON and its errors, but for
  the effect that a packet, an acknowledgement or an address that is not valid is
  refused.
* Authorisation of the admin messages and of migrations.
* Gas: an acknowledgement callback is assumed not to exhaust it. Its failure is
  caught by the submessage, running out of gas would not be.
* Proxies, collections, IBC and relayers, other than as external parts; the testers and
  tests.

