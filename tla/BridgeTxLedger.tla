--------------------------- MODULE BridgeTxLedger ---------------------------
(***************************************************************************)
(* A bridge that executes one message at a time implements BridgeLedger,   *)
(* which executes one transaction at a time.  While a transaction runs,    *)
(* the ledger is still that of its beginning.                              *)
(***************************************************************************)
EXTENDS BridgeTx

Committed == IF NoTx THEN store ELSE tx.before

PlaceIn(st, nft) ==
  IF st.owner[nft] = Ics721 /\ nft \notin st.given THEN st.outgoing[nft] ELSE st.owner[nft]

EndOf(p) ==
  CASE p.state = "sent" -> "sent"
    [] p.state = "result" -> "arrived"
    [] OTHER -> "failed"

TransferOf(p) ==
  [seq |-> p.seq, nft |-> p.nft, channel |-> p.channel, sender |-> p.sender,
   state |-> EndOf(p)]

Ledger == INSTANCE BridgeLedger WITH
  Bridge <- Ics721, Nowhere <- NoOne,
  ledger <- [place     |-> [n \in Nfts |-> PlaceIn(Committed, n)],
             transfers |-> {TransferOf(p) : p \in Committed.packets},
             sent      |-> Committed.nextSeq - 1,
             open      |-> ~ Committed.po.paused]

\* Seen from outside, every transaction happens at once: whatever proxy, collections
\* and callback contract do between its messages, and whichever message fails, the
\* transfer is made as a whole before the callback contract acts, or not at all
\* (receive_ibc_packet, into_submessage, reply, ibc_packet_ack, handle_packet_fail).
\* It is this that lets Ics721Net take a transaction as one step.
ImplementsLedger == Ledger!Spec
=============================================================================
