-------------------------- MODULE ChannelHandshake --------------------------
(***************************************************************************)
(* Opening and closing of channels: what the bridge accepts in its IBC     *)
(* entry points, between IBC core and the application at the other end.    *)
(*                                                                         *)
(* The other modules take for granted that a channel is unordered, joins   *)
(* two ends for good, and that both ends speak the same protocol.  This    *)
(* one derives it, for ends of bridges and of applications that take any   *)
(* order and answer any version, while anybody may start handshakes and    *)
(* relay their steps in any order, and several of them at once.            *)
(*                                                                         *)
(* External: IBC core, which keeps the ends and checks the proofs of the   *)
(* other end's state.                                                      *)
(***************************************************************************)
CONSTANTS Ends,      \* channel ends that may ever be opened, of all chains
          ChainOf,   \* the chain of each of them
          Bridges,   \* the chains that run this contract at their end
          Versions,  \* versions an application may propose or answer
          IBC_VERSION,
          NoVersion, \* the counterparty's version is not known
          NoEnd      \* the counterparty's end is not known

ASSUME EndAssumption ==
  /\ Bridges \subseteq {ChainOf[e] : e \in Ends}
  /\ NoEnd \notin Ends
  /\ IBC_VERSION \in Versions /\ NoVersion \notin Versions

Orders == {"ordered", "unordered"}

VARIABLE end  \* IBC core's channel ends

Unused == [state |-> "none", order |-> "unordered", version |-> NoVersion, peer |-> NoEnd]

Init == end = [e \in Ends |-> Unused]

IsBridge(e) == ChainOf[e] \in Bridges

-----------------------------------------------------------------------------
(* The entry points of the bridge.                                         *)

\* Looks at the version of its own end only.
FaultyVersionsMatch(version, counterpartyVersion) == version = IBC_VERSION

\* The counterparty's version counts when it is known.
VersionsMatch(version, counterpartyVersion) ==
  version = IBC_VERSION /\ counterpartyVersion \in {IBC_VERSION, NoVersion}

\* validate_order_and_version, in ibc_channel_open and in ibc_channel_connect.
ValidateOrderAndVersion(order, version, counterpartyVersion) ==
  order = "unordered" /\ VersionsMatch(version, counterpartyVersion)

Accepts(e, order, version, counterpartyVersion) ==
  IsBridge(e) => ValidateOrderAndVersion(order, version, counterpartyVersion)

\* Gives its end no version.
FaultyAnswers(e, proposed) == IF IsBridge(e) THEN {NoVersion} ELSE Versions

\* The version an application has for its end: the bridge keeps the one proposed.
Answers(e, proposed) == IF IsBridge(e) THEN {proposed} ELSE Versions

\* Lets its own chain close the channel.
FaultyMayCloseInit(e) == TRUE

\* ibc_channel_close refuses CloseInit.
MayCloseInit(e) == ~ IsBridge(e)

\* Refuses both kinds of closing.
FaultyMayCloseConfirm(e) == ~ IsBridge(e)

\* It lets CloseConfirm through: "the channel is, for all intents and purposes, closed".
MayCloseConfirm(e) == TRUE

-----------------------------------------------------------------------------
(* The steps of IBC core, each of which calls the application.             *)

OpenInit(e, order, version) ==
  /\ end[e].state = "none"
  /\ Accepts(e, order, version, NoVersion)
  /\ end' = [end EXCEPT ![e] = [state |-> "init", order |-> order, version |-> version,
                                peer |-> NoEnd]]

\* The end f was proposed to this chain.
OpenTry(e, f) ==
  /\ end[e].state = "none" /\ end[f].state = "init" /\ ChainOf[e] # ChainOf[f]
  /\ Accepts(e, end[f].order, end[f].version, end[f].version)
  /\ \E version \in Answers(e, end[f].version) :
       end' = [end EXCEPT ![e] = [state |-> "try", order |-> end[f].order,
                                  version |-> version, peer |-> f]]

\* The first end takes over the version that the other one answered.
OpenAck(e, f) ==
  /\ end[e].state = "init" /\ end[f].state = "try" /\ end[f].peer = e
  /\ Accepts(e, end[e].order, end[e].version, end[f].version)
  /\ end' = [end EXCEPT ![e] = [state |-> "open", order |-> end[e].order,
                                version |-> end[f].version, peer |-> f]]

OpenConfirm(e, f) ==
  /\ end[e].state = "try" /\ end[e].peer = f
  /\ end[f].state = "open" /\ end[f].peer = e /\ end[f].version = end[e].version
  /\ Accepts(e, end[e].order, end[e].version, NoVersion)
  /\ end' = [end EXCEPT ![e].state = "open"]

CloseInit(e) ==
  /\ end[e].state = "open" /\ MayCloseInit(e)
  /\ end' = [end EXCEPT ![e].state = "closed"]

\* The other end of the channel has been closed.
PeerClosed(e) ==
  \E f \in Ends : end[e].peer = f /\ end[f].state = "closed" /\ end[f].peer = e

CloseConfirm(e) ==
  /\ end[e].state \in {"try", "open"} /\ PeerClosed(e) /\ MayCloseConfirm(e)
  /\ end' = [end EXCEPT ![e].state = "closed"]

Next ==
  \/ \E e \in Ends, order \in Orders, version \in Versions : OpenInit(e, order, version)
  \/ \E e, f \in Ends : OpenTry(e, f)
  \/ \E e, f \in Ends : OpenAck(e, f)
  \/ \E e, f \in Ends : OpenConfirm(e, f)
  \/ \E e \in Ends : CloseInit(e)
  \/ \E e \in Ends : CloseConfirm(e)

Spec == Init /\ [][Next]_end

\* Relayers report that a channel was closed.
FairSpec == Spec /\ \A e \in Ends : WF_end(CloseConfirm(e))

-----------------------------------------------------------------------------
(* Properties.                                                             *)

States == {"none", "init", "try", "open", "closed"}

\* The channel ends are of the type IBC core keeps, and one that is in use has a version.
TypeOK ==
  /\ end \in [Ends -> [state: States, order: Orders,
                       version: Versions \cup {NoVersion}, peer: Ends \cup {NoEnd}]]
  /\ \A e \in Ends : end[e].state # "none" => end[e].version \in Versions

\* An open end of a bridge is joined to one end of another chain, which is joined to it,
\* is unordered and has version ics721-1, too: whichever side started the handshake,
\* whatever the other application proposed or answered, and whatever other handshakes
\* were under way (ibc_channel_open, ibc_channel_connect).
OpenMeansIcs721 ==
  \A e \in Ends : IsBridge(e) /\ end[e].state = "open" =>
    \E f \in Ends :
      /\ end[e].peer = f /\ end[f].peer = e /\ ChainOf[f] # ChainOf[e]
      /\ end[f].state \in {"try", "open", "closed"}
      /\ \A g \in {e, f} : end[g].order = "unordered" /\ end[g].version = IBC_VERSION

\* "This contract will _never_ allow its channel to be closed" (ibc_channel_close): an end
\* of a bridge is closed after the other end only, and never if that is a bridge as well.
NeverClosesFirst ==
  \A e \in Ends : IsBridge(e) /\ end[e].state = "closed" =>
    PeerClosed(e) /\ ~ IsBridge(end[e].peer)

\* A bridge does not stand in the way of closing a channel that the other end has closed
\* ("erroring here would prevent our side of the channel closing").
ClosingFollows ==
  \A e \in Ends : (end[e].state = "open" /\ PeerClosed(e)) ~> end[e].state = "closed"

\* The two ends of a channel know the same of it, once the one that answered has been
\* tried and the one that started has been acknowledged.
EndsJoined ==
  \A e \in Ends : end[e].state \in {"try", "open", "closed"} =>
    /\ end[e].peer \in Ends
    /\ ChainOf[end[e].peer] # ChainOf[e]
    /\ end[end[e].peer].state # "none"
    /\ end[end[e].peer].order = end[e].order
    /\ end[e].state # "try" =>
         /\ end[end[e].peer].peer = e
         /\ end[end[e].peer].state \in {"try", "open", "closed"}
         /\ end[end[e].peer].version = end[e].version

\* What a bridge has accepted stays so, whatever the other application answers.
BridgeEnds ==
  \A e \in Ends : IsBridge(e) /\ end[e].state # "none" =>
    end[e].order = "unordered" /\ end[e].version = IBC_VERSION

\* The inductive invariant.
HandshakeInv == TypeOK /\ EndsJoined /\ BridgeEnds /\ NeverClosesFirst

=============================================================================
