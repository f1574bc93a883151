---------------------------- MODULE BridgeLedger ----------------------------
(***************************************************************************)
(* What one bridge promises to whoever looks at it between transactions:   *)
(* every transaction is one step.  An NFT is with somebody - with the      *)
(* bridge for good, if its address was named -, out on a channel, or not   *)
(* there.  A transfer takes it out and brings it back, or ends it, exactly *)
(* once; its owner may hand it on or burn it; what a callback contract     *)
(* does from within a transaction happens after the transfer.  There are   *)
(* no messages, replies, proxies, channel entries, class registry and      *)
(* metadata.                                                               *)
(***************************************************************************)
EXTENDS Naturals

CONSTANTS Channels, Home, Tokens, Users, Hook, Bridge, Nowhere

Nfts == [class: {Home} \cup Channels, token: Tokens]
Holders == Users \cup {Hook, Bridge}

VARIABLE ledger  \* places, transfers out, their number, and if the bridge is open

Init ==
  \E owner \in [Tokens -> Users] :
    ledger = [place     |-> [n \in Nfts |-> IF n.class = Home THEN owner[n.token] ELSE Nowhere],
              transfers |-> {},
              sent      |-> 0,
              open      |-> TRUE]

-----------------------------------------------------------------------------
(* What a transaction makes of the ledger l.                               *)

Moved(place, nfts, where) == [n \in Nfts |-> IF n \in nfts THEN where ELSE place[n]]

Departed(l, nft, sender, channel) ==
  [l EXCEPT !.place = Moved(@, {nft}, channel),
            !.transfers = @ \cup {[seq |-> l.sent + 1, nft |-> nft, channel |-> channel,
                                   sender |-> sender, state |-> "sent"]},
            !.sent = @ + 1]

\* What the callback contract may have done by the end: nothing, handed on or burned an
\* NFT of its own, or sent one.
HookActs(l) ==
  LET own == {n \in Nfts : l.place[n] = Hook}
  IN  {l} \cup {[l EXCEPT !.place = Moved(@, {n}, where)] :
                  n \in own, where \in Holders \cup {Nowhere}}
          \cup {Departed(l, n, Hook, channel) :
                  n \in {m \in own : l.open}, channel \in Channels}

\* The NFT is on the other chain, as far as this one can know.
Abroad(nft, channel) ==
  /\ ledger.place[nft] = channel
  /\ \A t \in ledger.transfers :
       t.nft = nft /\ t.channel = channel => t.state = "arrived"

-----------------------------------------------------------------------------
Send(nft, channel) ==
  /\ ledger.open
  /\ \E user \in Users : /\ ledger.place[nft] = user
                         /\ ledger' = Departed(ledger, nft, user, channel)

\* A user hands an NFT on, or burns it.
Give(nft, where) ==
  /\ ledger.place[nft] \in Users
  /\ ledger' = [ledger EXCEPT !.place = Moved(@, {nft}, where)]

\* NFTs of one class come in together.
Receive(channel, class, tokens, receiver) ==
  LET nfts == [class: {class}, token: tokens]
  IN  /\ ledger.open
      /\ \A n \in nfts : IF class = channel THEN ledger.place[n] = Nowhere
                                            ELSE Abroad(n, channel)
      /\ ledger' \in HookActs([ledger EXCEPT !.place = Moved(@, nfts, receiver)])

\* The end of a transfer comes to be known.
Settle(t, state) ==
  /\ t.state = "sent"
  /\ ledger' = [ledger EXCEPT !.transfers = (@ \ {t}) \cup {[t EXCEPT !.state = state]}]

\* A voucher that is back on its own chain is gone; what has not arrived is with its
\* sender again.
Resolve(t) ==
  /\ t.state # "sent"
  /\ LET where == CASE t.state = "failed" -> t.sender
                    [] t.state = "arrived" /\ t.nft.class = t.channel -> Nowhere
                    [] OTHER -> ledger.place[t.nft]
         settled == [ledger EXCEPT !.place = Moved(@, {t.nft}, where), !.transfers = @ \ {t}]
     IN  ledger' \in HookActs(settled) \cup {[settled EXCEPT !.open = FALSE]}

Migrate == ledger' = [ledger EXCEPT !.open = TRUE]

Next ==
  /\ ledger' # ledger
  /\ \/ \E nft \in Nfts, channel \in Channels : Send(nft, channel)
     \/ \E nft \in Nfts, where \in Holders \cup {Nowhere} : Give(nft, where)
     \/ \E channel \in Channels, class \in {Home} \cup Channels,
           tokens \in (SUBSET Tokens) \ {{}}, receiver \in Holders :
          Receive(channel, class, tokens, receiver)
     \/ \E t \in ledger.transfers, state \in {"arrived", "failed"} : Settle(t, state)
     \/ \E t \in ledger.transfers : Resolve(t)
     \/ Migrate

Spec == Init /\ [][Next]_ledger
=============================================================================
