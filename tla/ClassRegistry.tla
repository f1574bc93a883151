--------------------------- MODULE ClassRegistry ---------------------------
(***************************************************************************)
(* The registry of one bridge: which collection stands for which class id. *)
(*                                                                         *)
(* A collection of this chain is registered under its own address when an  *)
(* NFT of it is sent.  For a class of another chain the contract predicts  *)
(* the address that Instantiate2 will give the voucher collection, from    *)
(* the code, the class id as salt and the configured address length, and   *)
(* registers the class before it instantiates.  The other modules take a   *)
(* class id and its collection for one thing; this one shows that they     *)
(* stay so while code id and address length change under the registry and  *)
(* when it is filled from the maps of an older version of the contract.    *)
(***************************************************************************)
EXTENDS Naturals

CONSTANTS LocalContracts,  \* collections of this chain
          ForeignClasses,  \* class ids of other chains, with their prefixes
          Codes,           \* code ids the contract may be configured with
          Checksum,        \* the checksum of every code
          Lengths,         \* values of contract_addr_length, the default among them
          ChainLength,     \* the address length of this chain
          LegacyInfo,      \* registry of an older version, class id -> collection
          NoContract,      \* the class is not registered
          MaxMigrations    \* bound: migrations ever executed

Classes == LocalContracts \cup ForeignClasses

\* What Instantiate2 derives an address from, and how much of it is kept.
VoucherContracts ==
  [class: ForeignClasses, checksum: {Checksum[code] : code \in Codes}, length: Lengths]
Contracts == LocalContracts \cup VoucherContracts

ASSUME RegistryAssumption ==
  /\ ChainLength \in Lengths
  /\ LocalContracts \cap ForeignClasses = {}
  /\ LocalContracts \cap VoucherContracts = {}
  /\ NoContract \notin Contracts
  /\ MaxMigrations \in Nat

\* The older version kept one collection per class, of the kind the class is of.
ASSUME LegacyAssumption ==
  /\ LegacyInfo \in [Classes -> Contracts \cup {NoContract}]
  /\ \A c \in LocalContracts : LegacyInfo[c] \in {c, NoContract}
  /\ \A c \in ForeignClasses : LegacyInfo[c] # NoContract =>
       /\ LegacyInfo[c] \in VoucherContracts
       /\ LegacyInfo[c].class = c /\ LegacyInfo[c].length = ChainLength

VARIABLES info,       \* CLASS_ID_AND_NFT_CONTRACT_INFO
          class,      \* keys of CLASS_ID_TO_CLASS
          deployed,   \* voucher collections this contract has instantiated
          codeId,     \* CW721_CODE_ID
          addrLength, \* CONTRACT_ADDR_LENGTH
          legacy,     \* the storage has the maps of an older version
          current,    \* the contract runs this version
          migrations  \* migrations executed

vars == <<info, class, deployed, codeId, addrLength, legacy, current, migrations>>

Empty == [c \in Classes |-> NoContract]
Registered(c) == info[c] # NoContract

\* The collections in the registry, by the index on their address.
Indexed == {info[c] : c \in Classes} \ {NoContract}

LegacyClasses == {c \in Classes : LegacyInfo[c] # NoContract}

\* A new contract, or one that is about to be migrated from an older version.
Init ==
  /\ legacy \in BOOLEAN
  /\ current = ~ legacy
  /\ info = Empty
  /\ class = IF legacy THEN LegacyClasses ELSE {}
  /\ deployed = IF legacy THEN {LegacyInfo[c] : c \in LegacyClasses \cap ForeignClasses} ELSE {}
  /\ codeId \in Codes
  /\ addrLength \in Lengths
  /\ migrations = 0

\* get_instantiate2_address: what the contract expects.
Predicted(c) == [class |-> c, checksum |-> Checksum[codeId], length |-> addrLength]

\* Where the chain puts it.
Instantiated(c) == [class |-> c, checksum |-> Checksum[codeId], length |-> ChainLength]

\* receive_nft: a collection the registry does not know is taken for one of this chain
\* that was never sent before.
ReceiveNft(contract) ==
  /\ current
  /\ contract \in LocalContracts \ Indexed
  /\ info' = [info EXCEPT ![contract] = contract]
  /\ class' = class \cup {contract}
  /\ UNCHANGED <<deployed, codeId, addrLength, legacy, current, migrations>>

\* Looks for a collection made with the present configuration.
FaultyKnown(c) == info[c] = Predicted(c)

Known(c) == Registered(c)

\* Does not look the new collection up.
FaultyReplyInstantiate(c, saved) == TRUE

\* The reply to the instantiation: the new collection has to be in the index, that is,
\* to be the one predicted.
ReplyInstantiate(c, saved) == \E d \in Classes : saved[d] = Instantiated(c)

\* callback_create_vouchers, the class is known: no collection is made, whatever the
\* code id is now.
UseCollection(c) ==
  /\ current /\ Known(c)
  /\ class' = class \cup {c}
  /\ UNCHANGED <<info, deployed, codeId, addrLength, legacy, current, migrations>>

\* callback_create_vouchers with create_instantiate_msg and its reply.  The unique
\* index refuses an address it has, the chain one that is taken.
MakeCollection(c) ==
  /\ current /\ ~ Known(c)
  /\ Predicted(c) \notin Indexed /\ Instantiated(c) \notin deployed
  /\ class' = class \cup {c}
  /\ info' = [info EXCEPT ![c] = Predicted(c)]
  /\ deployed' = deployed \cup {Instantiated(c)}
  /\ ReplyInstantiate(c, info')
  /\ UNCHANGED <<codeId, addrLength, legacy, current, migrations>>

\* Takes the collections of the older version for instances of the code in use.
FaultyMigrateLegacy ==
  IF legacy /\ info = Empty
  THEN [c \in Classes |-> IF LegacyInfo[c] \in VoucherContracts THEN Predicted(c)
                                                               ELSE LegacyInfo[c]]
  ELSE info

\* migrate_legacy: an empty registry is filled from the older one.
MigrateLegacy == IF legacy /\ info = Empty THEN LegacyInfo ELSE info

\* The code id is replaced if one is given, the address length in any case.
Migrate ==
  /\ migrations < MaxMigrations
  /\ codeId' \in Codes
  /\ addrLength' \in Lengths
  /\ info' = MigrateLegacy
  /\ current' = TRUE
  /\ migrations' = migrations + 1
  /\ UNCHANGED <<class, deployed, legacy>>

Next ==
  \/ \E contract \in LocalContracts : ReceiveNft(contract)
  \/ \E c \in ForeignClasses : UseCollection(c)
  \/ \E c \in ForeignClasses : MakeCollection(c)
  \/ Migrate

Spec == Init /\ [][Next]_vars

-----------------------------------------------------------------------------
(* Properties.                                                             *)

\* The registry holds values of the types of its items.
TypeOK ==
  /\ info \in [Classes -> Contracts \cup {NoContract}]
  /\ class \subseteq Classes
  /\ deployed \subseteq VoucherContracts
  /\ codeId \in Codes /\ addrLength \in Lengths
  /\ legacy \in BOOLEAN /\ current \in BOOLEAN /\ migrations \in Nat

\* A registered class has a collection that exists and was made for it, and the class
\* data that receive_nft loads: neither a wrong address length nor a change of the
\* code id leaves a class that points to nothing.
RegisteredExists ==
  \A c \in Classes : Registered(c) =>
    /\ c \in class
    /\ c \in LocalContracts => info[c] = c
    /\ c \in ForeignClasses => info[c] \in deployed /\ info[c].class = c

\* Every collection the contract has instantiated is registered: receive_nft never
\* takes a voucher for an NFT of this chain.
VouchersKnown == current => deployed \subseteq Indexed

\* There is one voucher collection for a class, whatever the contract is migrated to:
\* vouchers of one class id never live in two collections.
OneCollectionPerClass == \A m, n \in deployed : m.class = n.class => m = n

\* What an older version leaves is complete until the first migration, and the
\* registry is empty.
LegacyUntouched ==
  ~ current =>
    /\ legacy /\ info = Empty /\ class = LegacyClasses
    /\ deployed = {LegacyInfo[c] : c \in LegacyClasses \cap ForeignClasses}

\* After the first migration the classes of the older version are registered.
LegacyKept == legacy /\ current => \A c \in LegacyClasses : info[c] = LegacyInfo[c]

\* The inductive invariant.
RegistryInv ==
  /\ TypeOK
  /\ RegisteredExists
  /\ VouchersKnown
  /\ OneCollectionPerClass
  /\ LegacyUntouched
  /\ LegacyKept

\* Once it is registered, a class keeps its collection through every migration, and
\* the first migration registers every class of the older version with its collection.
CollectionsStay ==
  [][/\ \A c \in Classes : Registered(c) => info'[c] = info[c]
     /\ ~ current /\ current' => \A c \in LegacyClasses : info'[c] = LegacyInfo[c]]_vars

=============================================================================
