------------------------ MODULE ClassRegistry_proofs ------------------------
(* Proofs about the class registry: a class and its collection belong      *)
(* together for every set of classes, codes and address lengths, however   *)
(* often the contract is migrated.                                         *)
EXTENDS ClassRegistry, TLAPS

\* A class without an entry has no collection either: an instantiation finds the
\* predicted address free.
LEMMA UnknownClassNotDeployed ==
  ASSUME RegistryInv, current, NEW c \in ForeignClasses, ~ Registered(c)
  PROVE  \A v \in deployed : v.class # c
<1> SUFFICES ASSUME NEW v \in deployed, v.class = c PROVE FALSE
  OBVIOUS
<1>1. PICK d \in Classes : info[d] = v /\ Registered(d)
  BY DEF RegistryInv, VouchersKnown, Indexed, Registered
<1>2. v \in VoucherContracts
  BY DEF RegistryInv, TypeOK
<1>3. d \in ForeignClasses
  BY <1>1, <1>2, RegistryAssumption DEF RegistryInv, RegisteredExists, Classes
<1>4. info[d].class = d
  BY <1>1, <1>3 DEF RegistryInv, RegisteredExists
<1> QED
  BY <1>1, <1>4

LEMMA PredictedType ==
  ASSUME TypeOK, NEW c \in ForeignClasses
  PROVE  Predicted(c) \in VoucherContracts /\ Instantiated(c) \in VoucherContracts
         /\ Predicted(c).class = c /\ Instantiated(c).class = c
BY RegistryAssumption DEF TypeOK, Predicted, Instantiated, VoucherContracts

\* A new contract and one of an older version satisfy the invariant.
LEMMA InitRegistry == Init => RegistryInv
<1> SUFFICES ASSUME Init PROVE RegistryInv
  OBVIOUS
<1>1. deployed \subseteq VoucherContracts
  BY LegacyAssumption DEF Init, LegacyClasses
<1>2. TypeOK
  BY <1>1, RegistryAssumption DEF Init, TypeOK, Empty, Contracts, LegacyClasses
<1>3. RegisteredExists
  BY DEF Init, RegisteredExists, Registered, Empty
<1>4. VouchersKnown
  BY DEF Init, VouchersKnown
<1>5. OneCollectionPerClass
  <2>1. \A v \in deployed : legacy /\ v = LegacyInfo[v.class]
    BY LegacyAssumption DEF Init, LegacyClasses
  <2> QED
    BY <2>1 DEF OneCollectionPerClass
<1>6. LegacyUntouched
  BY DEF Init, LegacyUntouched
<1>7. LegacyKept
  BY DEF Init, LegacyKept
<1> QED
  BY <1>2, <1>3, <1>4, <1>5, <1>6, <1>7 DEF RegistryInv

\* receive_nft registers a collection of this chain only.
LEMMA ReceiveNftRegistry ==
  ASSUME RegistryInv, NEW contract \in LocalContracts, ReceiveNft(contract)
  PROVE  RegistryInv'
<1>1. /\ current /\ contract \in Classes /\ contract \notin ForeignClasses
      /\ contract \in Contracts /\ contract # NoContract
      /\ info \in [Classes -> Contracts \cup {NoContract}]
  BY RegistryAssumption DEF ReceiveNft, Classes, Contracts, RegistryInv, TypeOK
<1>2. /\ info' = [info EXCEPT ![contract] = contract] /\ class' = class \cup {contract}
      /\ UNCHANGED <<deployed, codeId, addrLength, legacy, current, migrations>>
  BY DEF ReceiveNft
<1>3. TypeOK'
  BY <1>1, <1>2 DEF RegistryInv, TypeOK
<1>4. RegisteredExists'
  BY <1>1, <1>2 DEF RegistryInv, RegisteredExists, Registered
<1>5. VouchersKnown'
  <2> SUFFICES ASSUME NEW v \in deployed PROVE v \in Indexed'
    BY <1>2 DEF VouchersKnown
  <2>1. PICK d \in Classes : info[d] = v /\ v # NoContract
    BY <1>1 DEF RegistryInv, VouchersKnown, Indexed
  <2>2. v \in VoucherContracts
    BY DEF RegistryInv, TypeOK
  <2>3. d # contract
    BY <1>1, <2>1, <2>2, RegistryAssumption DEF RegistryInv, RegisteredExists, Registered
  <2> QED
    BY <1>1, <1>2, <2>1, <2>3 DEF Indexed
<1>6. OneCollectionPerClass'
  BY <1>2 DEF RegistryInv, OneCollectionPerClass
<1>7. LegacyUntouched'
  BY <1>1, <1>2 DEF LegacyUntouched
<1>8. LegacyKept'
  BY <1>1, <1>2, LegacyAssumption DEF RegistryInv, LegacyKept, LegacyClasses
<1> QED
  BY <1>3, <1>4, <1>5, <1>6, <1>7, <1>8 DEF RegistryInv

\* callback_create_vouchers of a known class makes nothing.
LEMMA UseCollectionRegistry ==
  ASSUME RegistryInv, NEW c \in ForeignClasses, UseCollection(c)
  PROVE  RegistryInv'
<1>1. /\ current /\ c \in Classes /\ class' = class \cup {c}
      /\ UNCHANGED <<info, deployed, codeId, addrLength, legacy, current, migrations>>
  BY DEF UseCollection, Classes
<1> QED
  BY <1>1 DEF RegistryInv, TypeOK, RegisteredExists, Registered, VouchersKnown, Indexed,
              OneCollectionPerClass, LegacyUntouched, LegacyKept

\* callback_create_vouchers of an unknown class: the reply lets it through only if the
\* collection is where the registry says.
LEMMA MakeCollectionRegistry ==
  ASSUME RegistryInv, NEW c \in ForeignClasses, MakeCollection(c)
  PROVE  RegistryInv'
<1>1. /\ current /\ c \in Classes /\ ~ Registered(c) /\ Predicted(c) \notin Indexed
      /\ Instantiated(c) \notin deployed
      /\ class' = class \cup {c} /\ info' = [info EXCEPT ![c] = Predicted(c)]
      /\ deployed' = deployed \cup {Instantiated(c)}
      /\ UNCHANGED <<codeId, addrLength, legacy, current, migrations>>
  BY DEF MakeCollection, Known, Classes
<1>2. /\ Predicted(c) \in VoucherContracts /\ Instantiated(c) \in VoucherContracts
      /\ Predicted(c).class = c /\ Instantiated(c).class = c
      /\ Predicted(c) \in Contracts /\ Predicted(c) # NoContract
      /\ info \in [Classes -> Contracts \cup {NoContract}]
  BY PredictedType, RegistryAssumption DEF RegistryInv, TypeOK, Contracts
<1>3. c \notin LocalContracts
  BY RegistryAssumption
<1>4. \A v \in deployed : v.class # c
  BY <1>1, UnknownClassNotDeployed
<1>5. Predicted(c) = Instantiated(c)
  <2>1. PICK d \in Classes : info'[d] = Instantiated(c)
    BY DEF MakeCollection, ReplyInstantiate
  <2>2. CASE d = c
    BY <1>1, <1>2, <2>1, <2>2
  <2>3. CASE d # c
    <3>1. info[d] = Instantiated(c)
      BY <1>1, <1>2, <2>1, <2>3
    <3>2. Registered(d) /\ d \in ForeignClasses
      BY <3>1, <1>2, RegistryAssumption
      DEF Registered, RegistryInv, RegisteredExists, Classes, Contracts
    <3>3. info[d] \in deployed
      BY <3>2 DEF RegistryInv, RegisteredExists
    <3> QED
      BY <3>1, <3>3, <1>1
  <2> QED
    BY <2>2, <2>3
<1>6. TypeOK'
  BY <1>1, <1>2 DEF RegistryInv, TypeOK
<1>7. RegisteredExists'
  BY <1>1, <1>2, <1>3, <1>5 DEF RegistryInv, RegisteredExists, Registered
<1>8. VouchersKnown'
  <2> SUFFICES ASSUME NEW v \in deployed' PROVE v \in Indexed'
    BY DEF VouchersKnown
  <2>1. CASE v = Instantiated(c)
    BY <1>1, <1>2, <1>5, <2>1 DEF Indexed
  <2>2. CASE v \in deployed
    <3>1. PICK d \in Classes : info[d] = v /\ v # NoContract
      BY <1>1, <2>2 DEF RegistryInv, VouchersKnown, Indexed
    <3>2. d # c
      BY <3>1, <1>1 DEF Registered
    <3> QED
      BY <3>1, <3>2, <1>1, <1>2 DEF Indexed
  <2> QED
    BY <1>1, <2>1, <2>2
<1>9. OneCollectionPerClass'
  BY <1>1, <1>2, <1>4 DEF RegistryInv, OneCollectionPerClass
<1>10. LegacyUntouched'
  BY <1>1 DEF LegacyUntouched
<1>11. LegacyKept'
  BY <1>1, <1>2 DEF RegistryInv, LegacyKept, LegacyClasses, Registered
<1> QED
  BY <1>6, <1>7, <1>8, <1>9, <1>10, <1>11 DEF RegistryInv

\* The first migration of an older version fills the registry, any other leaves it.
LEMMA MigrateEffect ==
  ASSUME RegistryInv, Migrate
  PROVE  /\ current => info' = info
         /\ ~ current => legacy /\ info' = LegacyInfo
<1>1. info' = IF legacy /\ info = Empty THEN LegacyInfo ELSE info
  BY DEF Migrate, MigrateLegacy
<1>2. ASSUME current, legacy, info = Empty PROVE LegacyInfo = info
  <2>1. \A c \in Classes : LegacyInfo[c] = NoContract
    BY <1>2 DEF RegistryInv, LegacyKept, LegacyClasses, Empty
  <2> QED
    BY <2>1, <1>2, LegacyAssumption DEF Empty
<1> QED
  BY <1>1, <1>2 DEF RegistryInv, LegacyUntouched

\* migrate changes the configuration, and the registry of an older version only.
LEMMA MigrateRegistry ==
  ASSUME RegistryInv, Migrate
  PROVE  RegistryInv'
<1>1. /\ current' = TRUE /\ migrations' = migrations + 1
      /\ codeId' \in Codes /\ addrLength' \in Lengths
      /\ UNCHANGED <<class, deployed, legacy>>
      /\ current => info' = info
      /\ ~ current => legacy /\ info' = LegacyInfo
  BY MigrateEffect DEF Migrate
<1>2. LegacyUntouched' /\ OneCollectionPerClass'
  BY <1>1 DEF LegacyUntouched, RegistryInv, OneCollectionPerClass
<1>3. TypeOK'
  BY <1>1, LegacyAssumption DEF RegistryInv, TypeOK
<1>4. CASE current
  <2>1. RegisteredExists' /\ VouchersKnown' /\ LegacyKept'
    BY <1>1, <1>4 DEF RegistryInv, RegisteredExists, Registered, VouchersKnown, Indexed,
                     LegacyKept
  <2> QED
    BY <2>1, <1>2, <1>3 DEF RegistryInv
<1>5. CASE ~ current
  <2>1. /\ info' = LegacyInfo /\ class = LegacyClasses
        /\ deployed = {LegacyInfo[c] : c \in LegacyClasses \cap ForeignClasses}
    BY <1>1, <1>5 DEF RegistryInv, LegacyUntouched
  <2>2. RegisteredExists'
    BY <2>1, <1>1, LegacyAssumption DEF RegisteredExists, Registered, LegacyClasses
  <2>3. VouchersKnown'
    BY <2>1, <1>1 DEF VouchersKnown, Indexed, LegacyClasses
  <2>4. LegacyKept'
    BY <2>1 DEF LegacyKept
  <2> QED
    BY <2>2, <2>3, <2>4, <1>2, <1>3 DEF RegistryInv
<1> QED
  BY <1>4, <1>5

-----------------------------------------------------------------------------
LEMMA NextRegistry == RegistryInv /\ [Next]_vars => RegistryInv'
<1> SUFFICES ASSUME RegistryInv, [Next]_vars PROVE RegistryInv'
  OBVIOUS
<1>1. ASSUME NEW contract \in LocalContracts, ReceiveNft(contract) PROVE RegistryInv'
  BY <1>1, ReceiveNftRegistry
<1>2. ASSUME NEW c \in ForeignClasses, UseCollection(c) PROVE RegistryInv'
  BY <1>2, UseCollectionRegistry
<1>3. ASSUME NEW c \in ForeignClasses, MakeCollection(c) PROVE RegistryInv'
  BY <1>3, MakeCollectionRegistry
<1>4. CASE Migrate
  BY <1>4, MigrateRegistry
<1>5. CASE UNCHANGED vars
  BY <1>5 DEF vars, RegistryInv, TypeOK, RegisteredExists, Registered, VouchersKnown, Indexed,
              OneCollectionPerClass, LegacyUntouched, LegacyKept
<1> QED
  BY <1>1, <1>2, <1>3, <1>4, <1>5 DEF Next

\* The books of the registry agree with the collections there are (execute.rs,
\* create_instantiate_msg and migrate_legacy).
THEOREM RegistryInvariance == Spec => []RegistryInv
BY InitRegistry, NextRegistry, PTL DEF Spec

\* receive_nft never takes a voucher for an NFT of this chain.
THEOREM VouchersRecognised == Spec => []VouchersKnown
<1>1. RegistryInv => VouchersKnown
  BY DEF RegistryInv
<1> QED
  BY <1>1, RegistryInvariance, PTL

\* The vouchers of a class live in one collection, whatever migrations changed since its
\* address was predicted (create_instantiate_msg, reply).
THEOREM OneHomePerClass == Spec => []OneCollectionPerClass
<1>1. RegistryInv => OneCollectionPerClass
  BY DEF RegistryInv
<1> QED
  BY <1>1, RegistryInvariance, PTL

\* The step of CollectionsStay.
LEMMA StayStep ==
  ASSUME RegistryInv, [Next]_vars
  PROVE  /\ \A c \in Classes : Registered(c) => info'[c] = info[c]
         /\ ~ current /\ current' => \A c \in LegacyClasses : info'[c] = LegacyInfo[c]
<1>1. info \in [Classes -> Contracts \cup {NoContract}]
  BY DEF RegistryInv, TypeOK
<1>2. ASSUME NEW contract \in LocalContracts, ReceiveNft(contract)
      PROVE  current /\ \A c \in Classes : Registered(c) => info'[c] = info[c]
  <2>1. \A c \in Classes : Registered(c) /\ c = contract => contract \in Indexed
    BY <1>1, <1>2 DEF RegistryInv, RegisteredExists, Indexed, Registered
  <2> QED
    BY <1>1, <1>2, <2>1 DEF ReceiveNft
<1>3. ASSUME NEW d \in ForeignClasses, UseCollection(d)
      PROVE  current /\ \A c \in Classes : Registered(c) => info'[c] = info[c]
  BY <1>3 DEF UseCollection
<1>4. ASSUME NEW d \in ForeignClasses, MakeCollection(d)
      PROVE  current /\ \A c \in Classes : Registered(c) => info'[c] = info[c]
  BY <1>1, <1>4 DEF MakeCollection, Known
<1>5. CASE Migrate
  BY <1>5, MigrateEffect DEF RegistryInv, LegacyUntouched, Empty, Registered
<1>6. CASE UNCHANGED vars
  BY <1>6 DEF vars
<1> QED
  BY <1>2, <1>3, <1>4, <1>5, <1>6 DEF Next

\* No migration moves a class to another collection.
THEOREM CollectionsNeverMove == Spec => CollectionsStay
<1>1. RegistryInv /\ [Next]_vars =>
        [/\ \A c \in Classes : Registered(c) => info'[c] = info[c]
         /\ ~ current /\ current' => \A c \in LegacyClasses : info'[c] = LegacyInfo[c]]_vars
  BY StayStep
<1> QED
  BY <1>1, RegistryInvariance, PTL DEF Spec, CollectionsStay

=============================================================================
