-------------------------- MODULE BridgeSetup_proofs --------------------------
(***************************************************************************)
(* A bridge has the settings it was told, and is paused at most once for   *)
(* each pauser that is named, for all codes, proxies, pausers and admins.  *)
(***************************************************************************)
EXTENDS BridgeSetup, SequenceTheorems, TLAPS

\* What the last messages speak of.
Tellings ==
  [codeId: Codes, incoming: Contracts \cup {None}, outgoing: Contracts \cup {None},
   pauser: Pausers \cup {NoPauser}, admin: Admins \cup {None},
   addrLength: Lengths \cup {None}]

\* Storage is of its type, and there is a bridge only while settings are told.
SetupTypes ==
  IF bridge = NoBridge THEN todo = <<>> /\ pauses = <<>>
                       ELSE bridge \in Settings /\ told \in Tellings

\* What the submessages that still wait make of the proxies.
Outcome ==
  \/ todo = <<>> /\ bridge.incoming = told.incoming /\ bridge.outgoing = told.outgoing
  \/ \E code \in ProxyCodes :
       /\ todo = <<InstantiateProxy("incoming", code)>>
       /\ told.incoming = Made(code, "incoming") /\ bridge.outgoing = told.outgoing
  \/ \E code \in ProxyCodes :
       /\ todo = <<InstantiateProxy("outgoing", code)>>
       /\ told.outgoing = Made(code, "outgoing") /\ bridge.incoming = told.incoming
  \/ \E first, second \in ProxyCodes :
       /\ todo = <<InstantiateProxy("incoming", first), InstantiateProxy("outgoing", second)>>
       /\ told.incoming = Made(first, "incoming") /\ told.outgoing = Made(second, "outgoing")

\* The other settings are as told at all times.
Kept ==
  /\ bridge.codeId = told.codeId /\ bridge.admin = told.admin
  /\ bridge.addrLength = told.addrLength

\* Between the messages of an instantiation the settings are those that were told but
\* for the proxies that are still to be made.
SetupInv == SetupTypes /\ PauseOnce /\ (bridge # NoBridge => Outcome /\ Kept)

\* Two messages in a row.
LEMMA PairIsConcat ==
  ASSUME NEW a, NEW b
  PROVE  <<a>> \o <<b>> = <<a, b>>
<1>1. PICK S, s, t, r : S = {a, b} /\ s = <<a>> /\ t = <<b>> /\ r = <<a, b>>
  OBVIOUS
<1>2. s \in Seq(S) /\ t \in Seq(S) /\ r \in Seq(S)
  BY <1>1
<1>3. Len(s) = 1 /\ s[1] = a /\ Len(t) = 1 /\ t[1] = b /\ Len(r) = 2 /\ r[1] = a /\ r[2] = b
  BY <1>1
<1>4. PICK c : c = s \o t
  OBVIOUS
<1>5. /\ c \in Seq(S) /\ Len(c) = 2
      /\ \A i \in 1..2 : c[i] = IF i <= 1 THEN s[i] ELSE t[i - 1]
  BY <1>2, <1>3, <1>4, ConcatProperties
<1>6. c[1] = a /\ c[2] = b
  BY <1>3, <1>5
<1>7. \A i \in 1..Len(c) : c[i] = r[i]
  <2>1. \A i \in 1..Len(c) : i = 1 \/ i = 2
    BY <1>5
  <2> QED
    BY <1>3, <1>6, <2>1
<1>8. c = r
  BY <1>2, <1>3, <1>5, <1>7, SeqEqual
<1> QED
  BY <1>1, <1>4, <1>8

LEMMA InitSetup == Init => SetupInv
BY DEF Init, SetupInv, SetupTypes, PauseOnce

\* The storage and the submessages of a new bridge.
LEMMA InstantiateSetup ==
  ASSUME SetupInv, NEW msg \in InstantiateMsg, Instantiate(msg)
  PROVE  SetupInv'
<1>1. bridge = NoBridge /\ pauses = <<>> /\ pauses' = pauses
  BY DEF SetupInv, SetupTypes, Instantiate
<1>2. /\ bridge' = [codeId |-> msg.codeId, incoming |-> None, outgoing |-> None,
                    po |-> SetPauser(msg.pauser), admin |-> msg.admin,
                    addrLength |-> msg.addrLength]
      /\ bridge' \in Settings
  BY DEF Instantiate, InstantiateMsg, Settings, SetPauser, PauseOrchestrator
<1>3. /\ told' \in Tellings
      /\ told'.codeId = msg.codeId /\ told'.admin = msg.admin
      /\ told'.addrLength = msg.addrLength /\ told'.pauser = msg.pauser
      /\ told'.incoming = IF msg.incoming = None THEN None ELSE Made(msg.incoming, "incoming")
      /\ told'.outgoing = IF msg.outgoing = None THEN None ELSE Made(msg.outgoing, "outgoing")
  BY DEF Instantiate, InstantiateMsg, Tellings, Made, Contracts, Roles
<1>4. bridge' # NoBridge
  BY <1>2, NamesAssumption
<1>5. PauseOnce'
  BY <1>1, <1>2, <1>3 DEF PauseOnce, SetPauser
<1>6. Outcome'
  <2>1. todo' = Submessages(msg)
    BY DEF Instantiate
  <2>2. CASE msg.incoming = None /\ msg.outgoing = None
    <3>1. todo' = <<>> \o <<>>
      BY <2>1, <2>2 DEF Submessages
    <3> QED
      BY <1>2, <1>3, <2>2, <3>1 DEF Outcome
  <2>3. CASE msg.incoming # None /\ msg.outgoing = None
    <3>1. todo' = <<InstantiateProxy("incoming", msg.incoming)>> /\ msg.incoming \in ProxyCodes
      BY <2>1, <2>3 DEF Submessages, InstantiateMsg
    <3> QED
      BY <1>2, <1>3, <2>3, <3>1 DEF Outcome
  <2>4. CASE msg.incoming = None /\ msg.outgoing # None
    <3>1. todo' = <<InstantiateProxy("outgoing", msg.outgoing)>> /\ msg.outgoing \in ProxyCodes
      BY <2>1, <2>4 DEF Submessages, InstantiateMsg
    <3> QED
      BY <1>2, <1>3, <2>4, <3>1 DEF Outcome
  <2>5. CASE msg.incoming # None /\ msg.outgoing # None
    <3>1. /\ todo' = <<InstantiateProxy("incoming", msg.incoming),
                       InstantiateProxy("outgoing", msg.outgoing)>>
          /\ msg.incoming \in ProxyCodes /\ msg.outgoing \in ProxyCodes
      <4>1. PICK a, b : /\ a = InstantiateProxy("incoming", msg.incoming)
                        /\ b = InstantiateProxy("outgoing", msg.outgoing)
        OBVIOUS
      <4>2. todo' = <<a>> \o <<b>>
        BY <2>1, <2>5, <4>1 DEF Submessages
      <4>3. <<a>> \o <<b>> = <<a, b>>
        BY PairIsConcat
      <4> QED
        BY <2>5, <4>1, <4>2, <4>3 DEF InstantiateMsg
    <3> QED
      BY <1>2, <1>3, <2>5, <3>1 DEF Outcome
  <2> QED
    BY <2>2, <2>3, <2>4, <2>5
<1>7. Kept'
  BY <1>2, <1>3 DEF Kept
<1> QED
  BY <1>2, <1>3, <1>4, <1>5, <1>6, <1>7 DEF SetupInv, SetupTypes

\* The reply of a submessage notes the proxy that it made under its own role.
LEMMA ProxyMadeSetup ==
  ASSUME SetupInv, ProxyMade
  PROVE  SetupInv'
<1>1. /\ bridge # NoBridge /\ bridge \in Settings /\ told \in Tellings /\ Outcome /\ Kept
      /\ todo # <<>> /\ told' = told /\ pauses' = pauses
      /\ bridge' = Reply(Head(todo).role, Made(Head(todo).code, Head(todo).role))
      /\ todo' = Tail(todo) /\ PauseOnce
  BY DEF SetupInv, SetupTypes, ProxyMade
<1>2. ASSUME NEW role \in Roles, NEW proxy \in Contracts,
             bridge' = Reply(role, proxy)
      PROVE  /\ bridge' \in Settings /\ bridge' # NoBridge /\ Kept' /\ PauseOnce'
             /\ IF role = "incoming"
                THEN bridge'.incoming = proxy /\ bridge'.outgoing = bridge.outgoing
                ELSE bridge'.outgoing = proxy /\ bridge'.incoming = bridge.incoming
  <2>1. /\ bridge' \in Settings
        /\ bridge'.codeId = bridge.codeId /\ bridge'.admin = bridge.admin
        /\ bridge'.addrLength = bridge.addrLength /\ bridge'.po = bridge.po
        /\ IF role = "incoming"
           THEN bridge'.incoming = proxy /\ bridge'.outgoing = bridge.outgoing
           ELSE bridge'.outgoing = proxy /\ bridge'.incoming = bridge.incoming
    BY <1>1, <1>2 DEF Reply, Settings, Roles
  <2>2. bridge' # NoBridge
    BY <2>1, NamesAssumption
  <2> QED
    BY <1>1, <2>1, <2>2 DEF Kept, PauseOnce
<1>3. ASSUME NEW role \in Roles, NEW code \in ProxyCodes
      PROVE  /\ Made(code, role) \in Contracts
             /\ InstantiateProxy(role, code).role = role
             /\ InstantiateProxy(role, code).code = code
  BY DEF Made, Contracts, InstantiateProxy
<1>4. "incoming" \in Roles /\ "outgoing" \in Roles
  BY DEF Roles
<1>5. ASSUME NEW code \in ProxyCodes, todo = <<InstantiateProxy("incoming", code)>>,
             told.incoming = Made(code, "incoming"), bridge.outgoing = told.outgoing
      PROVE  SetupInv'
  <2>1. Head(todo) = InstantiateProxy("incoming", code) /\ todo' = <<>>
    BY <1>1, <1>5
  <2>2. bridge' = Reply("incoming", Made(code, "incoming"))
    BY <1>1, <1>3, <1>4, <2>1
  <2>3. Outcome'
    BY <1>1, <1>2, <1>3, <1>4, <1>5, <2>1, <2>2 DEF Outcome
  <2> QED
    BY <1>1, <1>2, <1>3, <1>4, <2>2, <2>3 DEF SetupInv, SetupTypes
<1>6. ASSUME NEW code \in ProxyCodes, todo = <<InstantiateProxy("outgoing", code)>>,
             told.outgoing = Made(code, "outgoing"), bridge.incoming = told.incoming
      PROVE  SetupInv'
  <2>1. Head(todo) = InstantiateProxy("outgoing", code) /\ todo' = <<>>
    BY <1>1, <1>6
  <2>2. bridge' = Reply("outgoing", Made(code, "outgoing"))
    BY <1>1, <1>3, <1>4, <2>1
  <2>3. Outcome'
    BY <1>1, <1>2, <1>3, <1>4, <1>6, <2>1, <2>2 DEF Outcome
  <2> QED
    BY <1>1, <1>2, <1>3, <1>4, <2>2, <2>3 DEF SetupInv, SetupTypes
<1>7. ASSUME NEW first \in ProxyCodes, NEW second \in ProxyCodes,
             todo = <<InstantiateProxy("incoming", first), InstantiateProxy("outgoing", second)>>,
             told.incoming = Made(first, "incoming"), told.outgoing = Made(second, "outgoing")
      PROVE  SetupInv'
  <2>1. /\ Head(todo) = InstantiateProxy("incoming", first)
        /\ todo' = <<InstantiateProxy("outgoing", second)>>
    BY <1>1, <1>7
  <2>2. bridge' = Reply("incoming", Made(first, "incoming"))
    BY <1>1, <1>3, <1>4, <2>1
  <2>3. Outcome'
    BY <1>1, <1>2, <1>3, <1>4, <1>7, <2>1, <2>2 DEF Outcome
  <2> QED
    BY <1>1, <1>2, <1>3, <1>4, <2>2, <2>3 DEF SetupInv, SetupTypes
<1> QED
  BY <1>1, <1>5, <1>6, <1>7 DEF Outcome

\* A migration says what holds from then on.
LEMMA MigrateSetup ==
  ASSUME SetupInv, NEW msg \in MigrateMsg, Migrate(msg)
  PROVE  SetupInv'
<1>1. /\ bridge # NoBridge /\ bridge \in Settings /\ told \in Tellings /\ Kept
      /\ todo = <<>> /\ todo' = <<>> /\ pauses' = <<>>
      /\ bridge' = Migrated(msg) /\ told' = Tell(msg)
  BY DEF SetupInv, SetupTypes, Migrate
<1>2. /\ bridge' \in Settings
      /\ bridge'.codeId = (IF msg.codeId = None THEN bridge.codeId ELSE msg.codeId)
      /\ bridge'.incoming = msg.incoming /\ bridge'.outgoing = msg.outgoing
      /\ bridge'.po = SetPauser(msg.pauser)
      /\ bridge'.admin = MigratedAdmin(bridge.admin, msg.admin)
      /\ bridge'.addrLength = msg.addrLength
  BY <1>1 DEF Migrated, MigratedPolicy, MigratedAdmin, MigrateMsg, Settings, SetPauser,
     PauseOrchestrator, Contracts
<1>3. /\ told' \in Tellings
      /\ told'.codeId = (IF msg.codeId = None THEN told.codeId ELSE msg.codeId)
      /\ told'.incoming = msg.incoming /\ told'.outgoing = msg.outgoing
      /\ told'.pauser = msg.pauser
      /\ told'.admin = MigratedAdmin(told.admin, msg.admin)
      /\ told'.addrLength = msg.addrLength
  <2>1. PICK code, admin :
          /\ code = (IF msg.codeId = None THEN told.codeId ELSE msg.codeId)
          /\ admin = (IF msg.admin = None THEN told.admin
                      ELSE IF msg.admin = Immutable THEN None ELSE msg.admin)
    OBVIOUS
  <2>2. told' = [msg EXCEPT !.codeId = code, !.admin = admin]
    BY <1>1, <2>1 DEF Tell
  <2>3. admin = MigratedAdmin(told.admin, msg.admin)
    BY <2>1, NamesAssumption DEF MigratedAdmin
  <2>4. code \in Codes /\ admin \in Admins \cup {None}
    BY <1>1, <2>1 DEF Tellings, MigrateMsg
  <2> QED
    BY <2>1, <2>2, <2>3, <2>4 DEF MigrateMsg, Tellings, Contracts
<1>4. bridge' # NoBridge
  BY <1>2, NamesAssumption
<1>5. PauseOnce'
  BY <1>1, <1>2, <1>3 DEF PauseOnce, SetPauser
<1>6. Kept' /\ Outcome'
  BY <1>1, <1>2, <1>3 DEF Kept, Outcome
<1> QED
  BY <1>2, <1>3, <1>4, <1>5, <1>6 DEF SetupInv, SetupTypes

\* Only the one pauser can pause, and only if nobody did.
LEMMA PauseSetup ==
  ASSUME SetupInv, NEW sender \in Pausers, Pause(sender)
  PROVE  SetupInv'
<1>1. /\ bridge # NoBridge /\ bridge \in Settings /\ told \in Tellings /\ Kept /\ Outcome
      /\ todo' = todo /\ told' = told /\ pauses' = Append(pauses, sender)
      /\ bridge' = [bridge EXCEPT !.po = PausedPolicy]
      /\ PauseAllowed(bridge.po, sender) /\ PauseOnce
  BY DEF SetupInv, SetupTypes, Pause
<1>2. /\ bridge' \in Settings /\ bridge'.po = PausedPolicy
      /\ bridge'.codeId = bridge.codeId /\ bridge'.admin = bridge.admin
      /\ bridge'.addrLength = bridge.addrLength
      /\ bridge'.incoming = bridge.incoming /\ bridge'.outgoing = bridge.outgoing
  BY <1>1 DEF Settings, PausedPolicy, PauseOrchestrator
<1>3. pauses = <<>> /\ sender = told.pauser
  BY <1>1, PauserAssumption DEF PauseOnce, PauseAllowed, ErrorIfPaused
<1>4. pauses' = <<sender>>
  BY <1>1, <1>3
<1>5. PauseOnce'
  BY <1>1, <1>2, <1>3, <1>4 DEF PauseOnce, PausedPolicy
<1>6. Kept' /\ Outcome' /\ bridge' # NoBridge
  BY <1>1, <1>2, NamesAssumption DEF Kept, Outcome
<1> QED
  BY <1>1, <1>2, <1>5, <1>6 DEF SetupInv, SetupTypes

LEMMA NextSetup == SetupInv /\ [Next]_vars => SetupInv'
<1> SUFFICES ASSUME SetupInv, [Next]_vars
             PROVE  SetupInv'
  OBVIOUS
<1>1. CASE UNCHANGED vars
  BY <1>1 DEF vars, SetupInv, SetupTypes, PauseOnce, Outcome, Kept
<1>2. ASSUME ProxyFails
      PROVE  SetupInv'
  BY <1>2 DEF ProxyFails, SetupInv, SetupTypes, PauseOnce
<1> QED
  BY <1>1, <1>2, InstantiateSetup, ProxyMadeSetup, MigrateSetup, PauseSetup DEF Next

\* A bridge has its settings from messages alone.
LEMMA SetupAlways == Spec => []SetupInv
BY InitSetup, NextSetup, PTL DEF Spec

\* Between transactions the settings are those that the last message speaking of them
\* asked for (SettingsAsTold): every proxy that was asked for is stored under its role
\* when the last reply has come, and a migration keeps only code id and admin.
THEOREM SettingsTold == Spec => []SettingsAsTold
<1>1. SetupInv => SettingsAsTold
  <2> SUFFICES ASSUME SetupInv, bridge # NoBridge, todo = <<>>,
                      NEW setting \in {"codeId", "incoming", "outgoing", "admin", "addrLength"}
               PROVE  bridge[setting] = told[setting]
    BY DEF SettingsAsTold
  <2>1. bridge.incoming = told.incoming /\ bridge.outgoing = told.outgoing /\ Kept
    BY DEF SetupInv, Outcome
  <2> QED
    BY <2>1 DEF Kept
<1> QED
  BY <1>1, SetupAlways, PTL

\* The pauser that was named last pauses the bridge a single time, and nobody else does,
\* also from within the instantiation of a proxy (PauseOnce).
THEOREM PausedOnce == Spec => []PauseOnce
<1>1. SetupInv => PauseOnce
  BY DEF SetupInv
<1> QED
  BY <1>1, SetupAlways, PTL

=============================================================================
