---------------------------- MODULE NftCustody ----------------------------
(***************************************************************************)
(* What the bridges of all chains together promise to the owner of an NFT: *)
(* it is in one place at a time.  A user of one chain holds it, or one     *)
(* transfer carries it, and a transfer ends with the receiver it names on  *)
(* the other chain or with the sender, "as if the transfer had never       *)
(* happened" (README.md, failure handling).  An NFT is gone when its       *)
(* holder burns it or leaves it to a bridge without asking for a transfer. *)
(***************************************************************************)
CONSTANTS Chains, Users, Items,
          Receivers  \* what a transfer may name as receiver; only Users can get an NFT

Held == [chain: Chains, user: Users]
InTransit == [from: Held, to: Chains, receiver: Receivers]
Gone == [gone |-> TRUE]

VARIABLE place   \* of every NFT

Init == place \in [Items -> Held]

Move(item, where) == place' = [place EXCEPT ![item] = where]

\* The holder gives the NFT to another user of the chain.
HandOver(item, user) ==
  place[item] \in Held /\ Move(item, [place[item] EXCEPT !.user = user])

Depart(item, chain, receiver) ==
  /\ place[item] \in Held
  /\ Move(item, [from |-> place[item], to |-> chain, receiver |-> receiver])

Arrive(item) ==
  /\ place[item] \in InTransit /\ place[item].receiver \in Users
  /\ Move(item, [chain |-> place[item].to, user |-> place[item].receiver])

\* The failed transfer is undone.
Refund(item) == place[item] \in InTransit /\ Move(item, place[item].from)

Lose(item) ==
  /\ place[item] \in Held \/ (place[item] \in InTransit /\ place[item].receiver \notin Users)
  /\ Move(item, Gone)

Next ==
  \E item \in Items :
    \/ \E user \in Users : HandOver(item, user)
    \/ \E chain \in Chains, receiver \in Receivers : Depart(item, chain, receiver)
    \/ Arrive(item)
    \/ Refund(item)
    \/ Lose(item)

Spec == Init /\ [][Next]_place
=============================================================================
