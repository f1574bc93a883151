----------------------------- MODULE BridgeSetup -----------------------------
(***************************************************************************)
(* How one bridge comes to its settings: the instantiate message, which    *)
(* has proxy contracts instantiated in submessages whose replies note      *)
(* their addresses; migrations, which change or drop settings; and the     *)
(* pauser, who uses up the right to pause.  What the settings do is in     *)
(* BridgeTx (proxies, pause) and ClassRegistry (code id, address length).  *)
(*                                                                         *)
(* External: the proxy contracts; instantiating one may fail, and          *)
(* whatever may pause the bridge may do so from within it.                 *)
(***************************************************************************)
EXTENDS Naturals, Sequences, PausePolicy

CONSTANTS Codes,       \* code ids for voucher collections
          ProxyCodes,  \* codes of proxy contracts
          Proxies,     \* proxy contracts that a migration may name
          Admins,      \* accounts that may be admin of voucher collections
          Lengths,     \* values of contract_addr_length
          None,        \* the field or the item is None
          Immutable,   \* the admin "" of a migration
          NoBridge     \* the contract is not instantiated

Roles == {"incoming", "outgoing"}

\* A contract made from a code for this bridge.
Made(code, role) == [code |-> code, maker |-> role]

InstantiateMsg ==
  [codeId: Codes, incoming: ProxyCodes \cup {None}, outgoing: ProxyCodes \cup {None},
   pauser: Pausers \cup {NoPauser}, admin: Admins \cup {None},
   addrLength: Lengths \cup {None}]

MigrateMsg ==
  [codeId: Codes \cup {None}, incoming: Proxies \cup {None}, outgoing: Proxies \cup {None},
   pauser: Pausers \cup {NoPauser}, admin: Admins \cup {None, Immutable},
   addrLength: Lengths \cup {None}]

\* The storage items for the settings.
Contracts == [code: ProxyCodes, maker: Roles] \cup Proxies
Settings ==
  [codeId: Codes, incoming: Contracts \cup {None}, outgoing: Contracts \cup {None},
   po: PauseOrchestrator, admin: Admins \cup {None}, addrLength: Lengths \cup {None}]

ASSUME NamesAssumption == NoBridge \notin Settings /\ Immutable # None

VARIABLES
  bridge,  \* the storage items for the settings
  todo,    \* submessages of the instantiate transaction that runs
  told,    \* what the last message that speaks of a setting says of it
  pauses   \* the accounts that paused the bridge since a pauser was named

vars == <<bridge, todo, told, pauses>>

Init == bridge = NoBridge /\ todo = <<>> /\ told = NoBridge /\ pauses = <<>>

-----------------------------------------------------------------------------
(* Instantiation.                                                          *)

\* A submessage that is replied to on success.
InstantiateProxy(role, code) == [role |-> role, code |-> code]

Submessages(msg) ==
  (IF msg.incoming = None THEN <<>> ELSE <<InstantiateProxy("incoming", msg.incoming)>>) \o
  (IF msg.outgoing = None THEN <<>> ELSE <<InstantiateProxy("outgoing", msg.outgoing)>>)

Instantiate(msg) ==
  /\ bridge = NoBridge
  /\ bridge' = [codeId |-> msg.codeId, incoming |-> None, outgoing |-> None,
                po |-> SetPauser(msg.pauser), admin |-> msg.admin,
                addrLength |-> msg.addrLength]
  /\ todo' = Submessages(msg)
  /\ told' = [msg EXCEPT
       !.incoming = IF @ = None THEN None ELSE Made(@, "incoming"),
       !.outgoing = IF @ = None THEN None ELSE Made(@, "outgoing")]
  /\ UNCHANGED pauses

\* Takes every reply for that of the outgoing proxy.
FaultyReply(role, proxy) == [bridge EXCEPT !.outgoing = proxy]

\* reply: its id says which item the address of the new contract goes to.
Reply(role, proxy) ==
  IF role = "incoming" THEN [bridge EXCEPT !.incoming = proxy]
                       ELSE [bridge EXCEPT !.outgoing = proxy]

ProxyMade ==
  /\ todo # <<>>
  /\ LET sub == Head(todo)
     IN  bridge' = Reply(sub.role, Made(sub.code, sub.role))
  /\ todo' = Tail(todo)
  /\ UNCHANGED <<told, pauses>>

\* There is no reply on error: the whole transaction fails.
ProxyFails ==
  /\ todo # <<>>
  /\ bridge' = NoBridge /\ todo' = <<>> /\ told' = NoBridge /\ pauses' = <<>>

-----------------------------------------------------------------------------
(* Migration and pause.                                                    *)

\* A migration that names no pauser leaves the one there is.
FaultyMigratedPolicy(po, pauser) ==
  IF pauser = NoPauser THEN [po EXCEPT !.paused = FALSE] ELSE SetPauser(pauser)

MigratedPolicy(po, pauser) == SetPauser(pauser)

\* "" makes new collections immutable, None changes nothing.
MigratedAdmin(admin, new) ==
  CASE new = None -> admin
    [] new = Immutable -> None
    [] OTHER -> new

\* Proxies and address length are dropped, code id and admin kept, if none is named.
Migrated(msg) ==
  [codeId     |-> IF msg.codeId = None THEN bridge.codeId ELSE msg.codeId,
   incoming   |-> msg.incoming,
   outgoing   |-> msg.outgoing,
   po         |-> MigratedPolicy(bridge.po, msg.pauser),
   admin      |-> MigratedAdmin(bridge.admin, msg.admin),
   addrLength |-> msg.addrLength]

\* A message speaks of all settings but a code id or an admin that is None.
Tell(msg) ==
  [msg EXCEPT !.codeId = IF @ = None THEN told.codeId ELSE @,
              !.admin = IF @ = None THEN told.admin ELSE IF @ = Immutable THEN None ELSE @]

Migrate(msg) ==
  /\ bridge # NoBridge /\ todo = <<>>
  /\ bridge' = Migrated(msg)
  /\ told' = Tell(msg)
  /\ pauses' = <<>>
  /\ UNCHANGED todo

Pause(sender) ==
  /\ bridge # NoBridge /\ PauseAllowed(bridge.po, sender)
  /\ bridge' = [bridge EXCEPT !.po = PausedPolicy]
  /\ pauses' = Append(pauses, sender)
  /\ UNCHANGED <<todo, told>>

Next ==
  \/ \E msg \in InstantiateMsg : Instantiate(msg)
  \/ ProxyMade
  \/ ProxyFails
  \/ \E msg \in MigrateMsg : Migrate(msg)
  \/ \E sender \in Pausers : Pause(sender)

Spec == Init /\ [][Next]_vars

-----------------------------------------------------------------------------
(* Properties.                                                             *)

\* Between transactions the settings are those that the last message speaking of them
\* asked for (msg.rs, InstantiateMsg and MigrateMsg).  In particular there is no
\* bridge that was asked for with a proxy and works without it, or with the other
\* proxy in its place, until a migration says so.
SettingsAsTold ==
  bridge # NoBridge /\ todo = <<>> =>
    \A setting \in {"codeId", "incoming", "outgoing", "admin", "addrLength"} :
      bridge[setting] = told[setting]

\* Only who was named pauser last pauses the bridge, "a single time" (InstantiateMsg,
\* pauser), and only naming a pauser, or none, ends the pause.
PauseOnce ==
  bridge # NoBridge =>
    /\ bridge.po.paused => pauses = <<told.pauser>>
    /\ ~ bridge.po.paused => pauses = <<>>
    /\ bridge.po.pauser \in {told.pauser, NoPauser}

=============================================================================
