----------------------- MODULE ChannelHandshake_proofs -----------------------
(***************************************************************************)
(* Proofs about ChannelHandshake: for any number of chains and ends.       *)
(***************************************************************************)
EXTENDS ChannelHandshake, TLAPS

\* No channel end is open at the beginning.
LEMMA InitHandshake == Init => HandshakeInv
  BY EndAssumption DEF Init, HandshakeInv, TypeOK, EndsJoined, BridgeEnds,
     NeverClosesFirst, Unused, States, Orders

\* What a bridge accepts.
LEMMA AcceptedByBridge ==
  ASSUME NEW e \in Ends, NEW order, NEW version, NEW counterpartyVersion,
         IsBridge(e), Accepts(e, order, version, counterpartyVersion)
  PROVE  /\ order = "unordered" /\ version = IBC_VERSION
         /\ counterpartyVersion \in {IBC_VERSION, NoVersion}
  BY DEF Accepts, ValidateOrderAndVersion, VersionsMatch

LEMMA OpenInitStep ==
  ASSUME HandshakeInv, NEW e \in Ends, NEW order \in Orders, NEW version \in Versions,
         OpenInit(e, order, version)
  PROVE  HandshakeInv'
<1>1. TypeOK'
  BY DEF HandshakeInv, TypeOK, OpenInit, States
<1>2. EndsJoined'
  BY DEF HandshakeInv, TypeOK, EndsJoined, OpenInit
<1>3. BridgeEnds'
  BY AcceptedByBridge DEF HandshakeInv, TypeOK, BridgeEnds, OpenInit, IsBridge
<1>4. NeverClosesFirst'
  BY DEF HandshakeInv, TypeOK, NeverClosesFirst, PeerClosed, OpenInit, IsBridge
<1> QED BY <1>1, <1>2, <1>3, <1>4 DEF HandshakeInv

LEMMA OpenTryStep ==
  ASSUME HandshakeInv, NEW e \in Ends, NEW f \in Ends, OpenTry(e, f)
  PROVE  HandshakeInv'
<1> PICK version \in Answers(e, end[f].version) :
      end' = [end EXCEPT ![e] = [state |-> "try", order |-> end[f].order,
                                 version |-> version, peer |-> f]]
  BY DEF OpenTry
<1>0. version \in Versions /\ (IsBridge(e) => version = end[f].version)
  BY DEF Answers, HandshakeInv, TypeOK, OpenTry
<1>1. TypeOK'
  BY <1>0 DEF HandshakeInv, TypeOK, OpenTry, States
<1>2. EndsJoined'
  BY DEF HandshakeInv, TypeOK, EndsJoined, OpenTry
<1>3. BridgeEnds'
  BY <1>0, AcceptedByBridge DEF HandshakeInv, TypeOK, BridgeEnds, OpenTry, IsBridge
<1>4. NeverClosesFirst'
  BY DEF HandshakeInv, TypeOK, NeverClosesFirst, PeerClosed, OpenTry, IsBridge
<1> QED BY <1>1, <1>2, <1>3, <1>4 DEF HandshakeInv

LEMMA OpenAckStep ==
  ASSUME HandshakeInv, NEW e \in Ends, NEW f \in Ends, OpenAck(e, f)
  PROVE  HandshakeInv'
<1>0. e # f /\ end[f].version \in Versions
  BY DEF OpenAck, HandshakeInv, TypeOK
<1>1. TypeOK'
  BY <1>0 DEF HandshakeInv, TypeOK, OpenAck, States
<1>2. EndsJoined'
  BY <1>0 DEF HandshakeInv, TypeOK, EndsJoined, OpenAck
<1>3. BridgeEnds'
  BY <1>0, AcceptedByBridge, EndAssumption DEF HandshakeInv, TypeOK, BridgeEnds, OpenAck, IsBridge
<1>4. NeverClosesFirst'
  BY DEF HandshakeInv, TypeOK, NeverClosesFirst, PeerClosed, OpenAck, IsBridge
<1> QED BY <1>1, <1>2, <1>3, <1>4 DEF HandshakeInv

LEMMA OpenConfirmStep ==
  ASSUME HandshakeInv, NEW e \in Ends, NEW f \in Ends, OpenConfirm(e, f)
  PROVE  HandshakeInv'
<1>1. TypeOK'
  BY DEF HandshakeInv, TypeOK, OpenConfirm, States
<1>2. EndsJoined'
  BY DEF HandshakeInv, TypeOK, EndsJoined, OpenConfirm
<1>3. BridgeEnds'
  BY DEF HandshakeInv, TypeOK, BridgeEnds, OpenConfirm, IsBridge
<1>4. NeverClosesFirst'
  BY DEF HandshakeInv, TypeOK, NeverClosesFirst, PeerClosed, OpenConfirm, IsBridge
<1> QED BY <1>1, <1>2, <1>3, <1>4 DEF HandshakeInv

\* Closing an end leaves what its other end knows of it.
LEMMA CloseKeeps ==
  ASSUME HandshakeInv, NEW e \in Ends, end[e].state \in {"try", "open"},
         end[e].state = "try" => PeerClosed(e),
         end' = [end EXCEPT ![e].state = "closed"]
  PROVE  TypeOK' /\ EndsJoined' /\ BridgeEnds'
<1>1. TypeOK'
  BY DEF HandshakeInv, TypeOK, States
<1>2. EndsJoined'
  BY DEF HandshakeInv, TypeOK, EndsJoined, PeerClosed
<1>3. BridgeEnds'
  BY DEF HandshakeInv, TypeOK, BridgeEnds, IsBridge
<1> QED BY <1>1, <1>2, <1>3

LEMMA CloseInitStep ==
  ASSUME HandshakeInv, NEW e \in Ends, CloseInit(e)
  PROVE  HandshakeInv'
<1>1. TypeOK' /\ EndsJoined' /\ BridgeEnds'
  BY CloseKeeps DEF CloseInit
<1>2. NeverClosesFirst'
  BY DEF HandshakeInv, TypeOK, NeverClosesFirst, PeerClosed, CloseInit, MayCloseInit, IsBridge
<1> QED BY <1>1, <1>2 DEF HandshakeInv

\* If the other end were one of a bridge, it would have been closed after this one.
LEMMA CloseConfirmStep ==
  ASSUME HandshakeInv, NEW e \in Ends, CloseConfirm(e)
  PROVE  HandshakeInv'
<1>1. TypeOK' /\ EndsJoined' /\ BridgeEnds'
  BY CloseKeeps DEF CloseConfirm
<1>2. PICK f \in Ends : end[e].peer = f /\ end[f].state = "closed" /\ end[f].peer = e
  BY DEF CloseConfirm, PeerClosed
<1>3. ~ IsBridge(f)
  BY <1>2 DEF HandshakeInv, NeverClosesFirst, PeerClosed, CloseConfirm
<1>4. NeverClosesFirst'
  BY <1>2, <1>3 DEF HandshakeInv, TypeOK, NeverClosesFirst, PeerClosed, CloseConfirm, IsBridge
<1> QED BY <1>1, <1>4 DEF HandshakeInv

LEMMA NextHandshake == HandshakeInv /\ [Next]_end => HandshakeInv'
<1> SUFFICES ASSUME HandshakeInv, [Next]_end PROVE HandshakeInv'
  OBVIOUS
<1>1. CASE UNCHANGED end
  BY <1>1 DEF HandshakeInv, TypeOK, EndsJoined, BridgeEnds, NeverClosesFirst, PeerClosed, IsBridge
<1>2. CASE Next
  BY <1>2, OpenInitStep, OpenTryStep, OpenAckStep, OpenConfirmStep, CloseInitStep,
     CloseConfirmStep DEF Next
<1> QED BY <1>1, <1>2

\* The two ends of every channel agree, and a bridge has accepted only what it may.
THEOREM HandshakeInvariance == Spec => []HandshakeInv
  BY InitHandshake, NextHandshake, PTL DEF Spec

\* An open end of a bridge speaks ics721-1 with exactly one end of another chain, which
\* does the same: the channels that the network of bridges takes for granted.
THEOREM OpenChannelsAgree == Spec => []OpenMeansIcs721
<1>1. HandshakeInv => OpenMeansIcs721
  <2> SUFFICES ASSUME HandshakeInv, NEW e \in Ends, IsBridge(e), end[e].state = "open"
               PROVE  \E f \in Ends :
                        /\ end[e].peer = f /\ end[f].peer = e /\ ChainOf[f] # ChainOf[e]
                        /\ end[f].state \in {"try", "open", "closed"}
                        /\ \A g \in {e, f} :
                             end[g].order = "unordered" /\ end[g].version = IBC_VERSION
    BY DEF OpenMeansIcs721
  <2>1. end[e].peer \in Ends
    BY DEF HandshakeInv, EndsJoined
  <2> WITNESS end[e].peer \in Ends
  <2> QED BY <2>1 DEF HandshakeInv, EndsJoined, BridgeEnds
<1> QED BY <1>1, HandshakeInvariance, PTL

\* The bridge closes a channel only after an application that is not a bridge has.
THEOREM BridgesKeepChannels == Spec => []NeverClosesFirst
<1>1. HandshakeInv => NeverClosesFirst
  BY DEF HandshakeInv
<1> QED BY <1>1, HandshakeInvariance, PTL
=============================================================================
