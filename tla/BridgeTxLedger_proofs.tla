------------------------ MODULE BridgeTxLedger_proofs ------------------------
(***************************************************************************)
(* Every transaction of the bridge is one step of the ledger.              *)
(*                                                                         *)
(* What a transaction amounts to is known when it begins: the ledger as it *)
(* is with the transfer made (Settled).  While it runs, every NFT is       *)
(* already where that ledger has it, or a message still to execute will    *)
(* put it there (Toward); when only the callback contract has acted since, *)
(* the store's ledger is one the transaction may end with (Goal).          *)
(***************************************************************************)
EXTENDS BridgeTx_proofs, BridgeTxLedger

-----------------------------------------------------------------------------
(* The ledger that a transaction aims at.                                  *)

\* The ledger of a store.
View(st) ==
  [place     |-> [n \in Nfts |-> PlaceIn(st, n)],
   transfers |-> {TransferOf(p) : p \in st.packets},
   sent      |-> st.nextSeq - 1,
   open      |-> ~ st.po.paused]

\* Where the NFT of a packet that ends is then.
Rests(st, p) ==
  IF p.state # "result" THEN p.sender
  ELSE IF p.nft.class = p.channel THEN NoOne
  ELSE PlaceIn(st, p.nft)

\* Where an NFT is when the transfer is made, but the callback contract has not acted.
SettledPlace(n) ==
  IF tx.kind = "receive" /\ n \in PacketNfts(tx.packet) THEN tx.packet.receiver
  ELSE IF tx.kind = "resolve" /\ n = tx.packet.nft THEN Rests(tx.before, tx.packet)
  ELSE PlaceIn(tx.before, n)

\* The ledger then.
Settled ==
  [place     |-> [n \in Nfts |-> SettledPlace(n)],
   transfers |-> IF tx.kind = "resolve"
                 THEN View(tx.before).transfers \ {TransferOf(tx.packet)}
                 ELSE View(tx.before).transfers,
   sent      |-> View(tx.before).sent,
   open      |-> View(tx.before).open]

\* The ledger at the end.
Goal(l) ==
  \/ /\ tx.kind = "send"
     /\ \/ l = Settled
        \/ \E nft \in Nfts, user \in Users, channel \in Channels :
             /\ Settled.open /\ Settled.place[nft] = user
             /\ l = Ledger!Departed(Settled, nft, user, channel)
  \/ /\ tx.kind # "send"
     /\ l \in Ledger!HookActs(Settled) \cup {[Settled EXCEPT !.open = FALSE]}

\* The message will still give the NFT its place.
Giving(st, m, n) ==
  /\ tx.kind = "receive" =>
       n \in PacketNfts(tx.packet) /\ PlaceIn(st, n) = PlaceIn(tx.before, n)
  /\ Gives(m, n) \/ Burns(m, n)

\* It will still take it out.
Leaving(W, n) ==
  /\ \E m \in W : m.op = "receiveNft" /\ m.nft = n
  /\ \A m \in W : m.op \notin FirstOps \cup NftOps

\* A store is on its way to the settled ledger.
Toward(st, W) ==
  /\ View(st).transfers = Settled.transfers
  /\ View(st).sent = Settled.sent /\ View(st).open = Settled.open
  /\ \A n \in Nfts :
       \/ PlaceIn(st, n) = Settled.place[n]
       \/ \E m \in W : Giving(st, m, n)
       \/ Leaving(W, n)

\* Messages that make the transfer, or let the callback contract act.
Active(W) == \E m \in W : m.op \in FirstOps \cup NftOps \cup CallOps

\* Packets are numbered.
Numbered(st) ==
  /\ \A p, q \in st.packets : p.seq = q.seq => p = q
  /\ \A p \in st.packets : p.seq < st.nextSeq

\* What the messages say of the settled ledger.
Says(m) ==
  /\ m.op \in {"sendNft", "receiveNft"} =>
       IF tx.kind = "send" THEN m.by \in Users ELSE m.by = Hook
  /\ m.op = "receiveNft" => Settled.place[m.nft] = m.by
  /\ tx.kind = "resolve" =>
       /\ m.op \in {"transfer", "burn"} => m.nft = tx.packet.nft
       /\ m.op = "transfer" => m.to = Settled.place[m.nft]
       /\ m.op = "burn" => NoOne = Settled.place[m.nft]
       /\ m.op = "reply" => View(m.saved) = Settled /\ Numbered(m.saved)

\* The ledger the transaction began with has an NFT where the packet says it is.
Fits(n) ==
  IF ComesBack
  THEN /\ PlaceIn(tx.before, n) = tx.packet.channel
       /\ \A p \in tx.before.packets :
            p.nft = n /\ p.channel = tx.packet.channel => p.state = "result"
  ELSE PlaceIn(tx.before, n) = NoOne

\* Minting finds out if it has.
Fitting(W) ==
  tx.kind = "receive" =>
    /\ ~ tx.before.po.paused
    /\ \A n \in PacketNfts(tx.packet) :
         Fits(n) \/ (~ ComesBack /\ \E m \in W : Gives(m, n))

LedgerLive ==
  /\ Numbered(store)
  /\ IF Active(Waiting) THEN Toward(store, Waiting) ELSE Goal(View(store))
  /\ \A m \in Waiting : Says(m)
  /\ Fitting(Waiting)

LedgerInv ==
  /\ NoTx => Numbered(store)
  /\ ~ NoTx => Numbered(tx.before) /\ (Undone \/ LedgerLive)

-----------------------------------------------------------------------------
(* Ledgers.                                                                *)

\* One as a whole.
LedgerOf(a, b, c, d) == [place |-> a, transfers |-> b, sent |-> c, open |-> d]

\* One with another value in a field.
LEMMA EditPlace ==
  ASSUME NEW a, NEW b, NEW c, NEW d, NEW x
  PROVE  [LedgerOf(a, b, c, d) EXCEPT !.place = x] = LedgerOf(x, b, c, d)
<1>1. PICK l : l = [place |-> a, transfers |-> b, sent |-> c, open |-> d]
  OBVIOUS
<1>2. [l EXCEPT !.place = x] = LedgerOf(x, b, c, d)
  BY <1>1 DEF LedgerOf
<1> QED
  BY <1>1, <1>2 DEF LedgerOf

LEMMA EditTransfers ==
  ASSUME NEW a, NEW b, NEW c, NEW d, NEW x
  PROVE  [LedgerOf(a, b, c, d) EXCEPT !.transfers = x] = LedgerOf(a, x, c, d)
<1>1. PICK l : l = [place |-> a, transfers |-> b, sent |-> c, open |-> d]
  OBVIOUS
<1>2. [l EXCEPT !.transfers = x] = LedgerOf(a, x, c, d)
  BY <1>1 DEF LedgerOf
<1> QED
  BY <1>1, <1>2 DEF LedgerOf

LEMMA EditSent ==
  ASSUME NEW a, NEW b, NEW c, NEW d, NEW x
  PROVE  [LedgerOf(a, b, c, d) EXCEPT !.sent = x] = LedgerOf(a, b, x, d)
<1>1. PICK l : l = [place |-> a, transfers |-> b, sent |-> c, open |-> d]
  OBVIOUS
<1>2. [l EXCEPT !.sent = x] = LedgerOf(a, b, x, d)
  BY <1>1 DEF LedgerOf
<1> QED
  BY <1>1, <1>2 DEF LedgerOf

LEMMA EditOpen ==
  ASSUME NEW a, NEW b, NEW c, NEW d, NEW x
  PROVE  [LedgerOf(a, b, c, d) EXCEPT !.open = x] = LedgerOf(a, b, c, x)
<1>1. PICK l : l = [place |-> a, transfers |-> b, sent |-> c, open |-> d]
  OBVIOUS
<1>2. [l EXCEPT !.open = x] = LedgerOf(a, b, c, x)
  BY <1>1 DEF LedgerOf
<1> QED
  BY <1>1, <1>2 DEF LedgerOf

\* What it says.
LEMMA Fields ==
  ASSUME NEW a, NEW b, NEW c, NEW d
  PROVE  /\ LedgerOf(a, b, c, d).place = a /\ LedgerOf(a, b, c, d).transfers = b
         /\ LedgerOf(a, b, c, d).sent = c /\ LedgerOf(a, b, c, d).open = d
BY DEF LedgerOf

\* One after an NFT has been sent out.
LEMMA EditDeparted ==
  ASSUME NEW a, NEW b, NEW c, NEW d, NEW l, l = LedgerOf(a, b, c, d),
         NEW nft, NEW sender, NEW channel, NEW t,
         t = [seq |-> c + 1, nft |-> nft, channel |-> channel,
              sender |-> sender, state |-> "sent"]
  PROVE  Ledger!Departed(l, nft, sender, channel) =
           LedgerOf(Ledger!Moved(a, {nft}, channel), b \cup {t}, c + 1, d)
<1>1. PICK x, y, z :
        x = Ledger!Moved(a, {nft}, channel) /\ y = b \cup {t} /\ z = c + 1
  OBVIOUS
<1>2. l.place = a /\ l.transfers = b /\ l.sent = c
  BY Fields
<1>3. Ledger!Departed(l, nft, sender, channel) =
        [[[l EXCEPT !.place = x] EXCEPT !.transfers = y] EXCEPT !.sent = z]
  BY <1>1, <1>2 DEF Ledger!Departed
<1>4. PICK k, m : k = LedgerOf(x, b, c, d) /\ m = LedgerOf(x, y, c, d)
  OBVIOUS
<1>5. [l EXCEPT !.place = x] = k
  BY <1>4, EditPlace
<1>6. [k EXCEPT !.transfers = y] = m
  BY <1>4, EditTransfers
<1>7. [m EXCEPT !.sent = z] = LedgerOf(x, y, z, d)
  BY <1>4, EditSent
<1>8. Ledger!Departed(l, nft, sender, channel) = LedgerOf(x, y, z, d)
  BY <1>3, <1>5, <1>6, <1>7
<1> QED
  BY <1>1, <1>8

LEMMA ViewParts ==
  ASSUME NEW st
  PROVE  View(st) = LedgerOf(View(st).place, View(st).transfers, View(st).sent, View(st).open)
BY DEF View, LedgerOf

LEMMA SettledParts ==
  Settled = LedgerOf(Settled.place, Settled.transfers, Settled.sent, Settled.open)
BY DEF Settled, LedgerOf

\* What the callback contract may have done.
LEMMA HookMoves ==
  ASSUME NEW l, NEW n \in Nfts, l.place[n] = Hook
  PROVE  /\ \A where \in Accounts \cup {NoOne} :
              [l EXCEPT !.place = Ledger!Moved(@, {n}, where)] \in Ledger!HookActs(l)
         /\ \A channel \in Channels :
              l.open => Ledger!Departed(l, n, Hook, channel) \in Ledger!HookActs(l)
<1> DEFINE F(m, u) == [l EXCEPT !.place = Ledger!Moved(@, {m}, u)]
           D(m, c) == Ledger!Departed(l, m, Hook, c)
           own == {m \in Ledger!Nfts : l.place[m] = Hook}
<1>1. n \in own
  BY DEF Ledger!Nfts, Nfts, Classes
<1>2. Ledger!HookActs(l) = {l} \cup {F(m, u) : m \in own, u \in Accounts \cup {NoOne}}
                               \cup {D(m, c) : m \in {o \in own : l.open}, c \in Channels}
  BY DEF Ledger!HookActs, Ledger!Holders, Accounts
<1> HIDE DEF F, D, own
<1>3. \A where \in Accounts \cup {NoOne} : F(n, where) \in Ledger!HookActs(l)
  BY <1>1, <1>2
<1>4. \A channel \in Channels : l.open => D(n, channel) \in Ledger!HookActs(l)
  BY <1>1, <1>2
<1> QED
  BY <1>3, <1>4 DEF F, D

-----------------------------------------------------------------------------
(* A message works.                                                        *)

\* What gives an NFT its place.
LEMMA GivingOps ==
  ASSUME NEW st, NEW m, NEW n, Giving(st, m, n)
  PROVE  m.op \in FirstOps \cup NftOps
BY DEF Giving, Gives, Burns, FirstOps, NftOps

\* When no message is left that moves an NFT the ledger is settled.
LEMMA SettledView ==
  ASSUME NEW st, View(st).transfers = Settled.transfers,
         View(st).sent = Settled.sent, View(st).open = Settled.open,
         \A n \in Nfts : PlaceIn(st, n) = Settled.place[n]
  PROVE  View(st) = Settled
<1>1. Settled.place = [n \in Nfts |-> Settled.place[n]]
  BY DEF Settled
<1>2. View(st).place = Settled.place
  BY <1>1 DEF View
<1> QED
  BY <1>2 DEF View, Settled

LEMMA SettledGoal == Goal(Settled)
BY DEF Goal, Ledger!HookActs

LEMMA TowardGoal ==
  ASSUME NEW st, NEW W, Toward(st, W), ~ Active(W)
  PROVE  Goal(View(st))
<1>1. \A n \in Nfts : PlaceIn(st, n) = Settled.place[n]
  BY GivingOps DEF Toward, Active, Leaving, CallOps
<1>2. View(st) = Settled
  BY <1>1, SettledView DEF Toward
<1> QED
  BY <1>2, SettledGoal

\* What is not of the transaction's result stays.
LEMMA SameSettled ==
  ASSUME tx'.kind = tx.kind, tx'.before = tx.before,
         tx.kind # "send" => tx'.packet = tx.packet
  PROVE  /\ Settled' = Settled
         /\ \A l : Goal(l)' <=> Goal(l)
         /\ \A m : Says(m)' <=> Says(m)
         /\ \A n : tx.kind = "receive" => (Fits(n)' <=> Fits(n))
<1>1. \A n : SettledPlace(n)' = SettledPlace(n)
  BY DEF SettledPlace
<1>2. Settled' = Settled
  BY <1>1 DEF Settled
<1>3. ASSUME NEW l
      PROVE  Goal(l)' <=> Goal(l)
  BY <1>2 DEF Goal, Ledger!HookActs, Ledger!Departed
<1>4. ASSUME NEW m
      PROVE  Says(m)' <=> Says(m)
  BY <1>2 DEF Says
<1>5. ASSUME NEW n, tx.kind = "receive"
      PROVE  Fits(n)' <=> Fits(n)
  BY <1>5 DEF Fits, ComesBack
<1> QED
  BY <1>2, <1>3, <1>4, <1>5

\* A message that works and leaves things as they should be.
LEMMA StepLedger ==
  ASSUME Ready, LedgerLive, Head(stack).op # "reply",
         NEW new, NEW msgs, IsSeq(msgs), Done(new, msgs), Numbered(new),
         \A m \in Of(msgs) : Says(m),
         \/ Toward(new, Of(msgs) \cup Rest)
         \/ ~ Active(Of(msgs) \cup Rest) /\ Goal(View(new)),
         tx.kind = "receive" =>
           \A n \in PacketNfts(tx.packet) :
             ~ ComesBack /\ Gives(Head(stack), n) =>
               Fits(n) \/ \E m \in Of(msgs) : Gives(m, n)
  PROVE  LedgerLive'
<1>1. /\ Waiting = {Head(stack)} \cup Rest /\ Waiting' = Of(msgs) \cup Rest
      /\ store' = new /\ tx' = tx
  BY DoneWaiting DEF Ready
<1>2. /\ \A l : Goal(l)' <=> Goal(l)
      /\ \A m : Says(m)' <=> Says(m)
      /\ Settled' = Settled
      /\ \A n : tx.kind = "receive" => (Fits(n)' <=> Fits(n))
  BY <1>1, SameSettled
<1>3. Numbered(store')
  BY <1>1
<1>4. PICK W : W = Waiting'
  OBVIOUS
<1>5. IF Active(W) THEN Toward(new, W) ELSE Goal(View(new))
  BY <1>1, <1>4, TowardGoal
<1>6. (Toward(new, W))' <=> Toward(new, W)
  BY <1>1, <1>2 DEF Toward, Giving, Leaving
<1>7. (IF Active(Waiting) THEN Toward(store, Waiting) ELSE Goal(View(store)))'
  BY <1>1, <1>2, <1>4, <1>5, <1>6
<1>8. \A m \in Waiting' : Says(m)'
  BY <1>1, <1>2 DEF LedgerLive
<1>9. Fitting(Waiting)'
  <2> SUFFICES ASSUME tx.kind = "receive"
               PROVE  /\ ~ tx.before.po.paused
                      /\ \A n \in PacketNfts(tx.packet) :
                           Fits(n) \/ (~ ComesBack /\ \E m \in Waiting' : Gives(m, n))
    BY <1>1, <1>2 DEF Fitting, ComesBack, Gives
  <2> QED
    BY <1>1 DEF LedgerLive, Fitting
<1> QED
  BY <1>3, <1>7, <1>8, <1>9 DEF LedgerLive

\* Where NFTs are when a message executes.
LEMMA Places ==
  ASSUME Ready, LedgerLive, Head(stack).op \in FirstOps \cup NftOps \cup CallOps, NEW n \in Nfts
  PROVE  /\ Toward(store, Waiting)
         /\ \/ PlaceIn(store, n) = Settled.place[n]
            \/ Head(stack).op \in FirstOps \cup NftOps /\ \E m \in Waiting : Giving(store, m, n)
            \/ Head(stack).op = "receiveNft" /\ n = Head(stack).nft
<1>1. Waiting = {Head(stack)} \cup Rest /\ Ordered
  BY HeadFacts
<1>2. Toward(store, Waiting)
  BY <1>1 DEF LedgerLive, Active
<1>3. ASSUME NEW m \in Rest
      PROVE  /\ m.op \notin FirstOps
             /\ Head(stack).op \in CallOps => m.op \notin NftOps \cup CallOps
  BY <1>1, <1>3, RestOps DEF Ready
<1>4. Head(stack).op \in CallOps => \A m \in Waiting : ~ Giving(store, m, n)
  BY <1>1, <1>3, GivingOps DEF CallOps, FirstOps, NftOps
<1>5. Leaving(Waiting, n) => Head(stack).op = "receiveNft" /\ n = Head(stack).nft
  BY <1>1, <1>3 DEF Leaving, CallOps
<1> QED
  BY <1>2, <1>4, <1>5 DEF Toward

\* The ledger is settled when the callback contract is called, and while it acts.
LEMMA CallView ==
  ASSUME Ready, LedgerLive, Head(stack).op \in CallOps \ {"receiveNft"}
  PROVE  View(store) = Settled
<1>1. \A n \in Nfts : PlaceIn(store, n) = Settled.place[n]
  BY Places DEF CallOps, FirstOps, NftOps
<1>2. Toward(store, Waiting)
  <2>1. Waiting = {Head(stack)} \cup Rest
    BY HeadFacts
  <2> QED
    BY <2>1 DEF LedgerLive, Active
<1> QED
  BY <1>1, <1>2, SettledView DEF Toward

\* Nothing more happens to the ledger after it.
LEMMA CallRest ==
  ASSUME Ready, Head(stack).op \in CallOps \cup EntriesOps
  PROVE  ~ Active(Rest)
<1>1. Ordered
  BY HeadFacts
<1>2. \A m \in Rest : m.op \notin FirstOps \cup NftOps \cup CallOps
  BY <1>1, RestOps DEF Ready
<1> QED
  BY <1>2 DEF Active

\* Stores that the ledger does not tell apart.
LEMMA SameView ==
  ASSUME NEW st, NEW su, su.owner = st.owner, su.given = st.given,
         su.outgoing = st.outgoing, su.packets = st.packets, su.nextSeq = st.nextSeq,
         su.po = st.po
  PROVE  /\ View(su) = View(st) /\ \A n : PlaceIn(su, n) = PlaceIn(st, n)
         /\ Numbered(st) => Numbered(su)
BY DEF View, PlaceIn, Numbered

\* A message that only makes others.
LEMMA StillLedger ==
  ASSUME Ready, LedgerLive, Head(stack).op \in FirstOps \cup NftOps \cup CallOps,
         Head(stack).op \notin {"transfer", "mintNft", "burn", "receiveNft"},
         NEW new, NEW msgs, IsSeq(msgs), Done(new, msgs),
         new.owner = store.owner, new.given = store.given, new.outgoing = store.outgoing,
         new.packets = store.packets, new.nextSeq = store.nextSeq, new.po = store.po,
         \A m \in Of(msgs) : Says(m),
         \A n : Gives(Head(stack), n) =>
           /\ tx.kind = "receive"
           /\ n \in PacketNfts(tx.packet) => \E m \in Of(msgs) : Gives(m, n)
  PROVE  LedgerLive'
<1>1. View(new) = View(store) /\ (\A n : PlaceIn(new, n) = PlaceIn(store, n)) /\ Numbered(new)
  BY SameView DEF LedgerLive
<1>2. Waiting = {Head(stack)} \cup Rest
  BY HeadFacts
<1>3. ASSUME NEW n \in Nfts
      PROVE  \/ PlaceIn(new, n) = Settled.place[n]
             \/ \E m \in Of(msgs) \cup Rest : Giving(new, m, n)
  <2>1. \/ PlaceIn(store, n) = Settled.place[n]
        \/ \E m \in Waiting : Giving(store, m, n)
    BY Places
  <2>2. ASSUME NEW m \in Waiting, Giving(store, m, n)
        PROVE  \E w \in Of(msgs) \cup Rest : Giving(new, w, n)
    <3>1. CASE m \in Rest
      BY <1>1, <2>2, <3>1 DEF Giving
    <3>2. CASE m = Head(stack)
      <4>1. Gives(m, n)
        BY <2>2, <3>2 DEF Giving, Burns
      <4> QED
        BY <1>1, <2>2, <3>2, <4>1 DEF Giving
    <3> QED
      BY <1>2, <3>1, <3>2
  <2> QED
    BY <1>1, <2>1, <2>2
<1>4. Toward(new, Of(msgs) \cup Rest)
  <2>1. Toward(store, Waiting)
    BY <1>2 DEF LedgerLive, Active
  <2> QED
    BY <1>1, <1>3, <2>1 DEF Toward
<1>5. Head(stack).op # "reply"
  BY DEF FirstOps, NftOps, CallOps
<1> QED
  BY <1>1, <1>4, <1>5, StepLedger

\* An NFT gets its place.
LEMMA PlacedLedger ==
  ASSUME Ready, LedgerLive, Head(stack).op \in {"transfer", "mintNft", "burn"},
         NEW x \in Nfts, x = Head(stack).nft, NEW who, Settled.place[x] = who,
         NEW G, GivenBut(store, G, x), who = Ics721 => x \in G,
         Done([store EXCEPT !.owner[x] = who, !.given = G], <<>>),
         tx.kind = "receive" /\ ~ ComesBack => Fits(x)
  PROVE  LedgerLive'
<1>1. PICK h, new, msgs :
        h = Head(stack) /\ new = [store EXCEPT !.owner[x] = who, !.given = G] /\ msgs = <<>>
  OBVIOUS
<1>2. IsSeq(msgs) /\ Of(msgs) = {} /\ Done(new, msgs)
  BY <1>1, NoMsgs, OfNone
<1>3. Waiting = {h} \cup Rest /\ store \in Stores
  BY <1>1, HeadFacts
<1>4. /\ new.owner[x] = who /\ \A n \in Nfts : n # x => new.owner[n] = store.owner[n]
      /\ new.given = G /\ new.outgoing = store.outgoing /\ new.packets = store.packets
      /\ new.nextSeq = store.nextSeq /\ new.po = store.po
  BY <1>1, <1>3 DEF Stores
<1>5. Numbered(new)
  BY <1>4 DEF LedgerLive, Numbered
<1>6. ASSUME NEW n \in Nfts
      PROVE  \/ PlaceIn(new, n) = Settled.place[n]
             \/ \E m \in Rest : Giving(new, m, n)
  <2>1. CASE n = x
    BY <1>4, <2>1 DEF PlaceIn
  <2>2. CASE n # x
    <3>1. PlaceIn(new, n) = PlaceIn(store, n)
      BY <1>4, <2>2 DEF PlaceIn, GivenBut
    <3>2. \/ PlaceIn(store, n) = Settled.place[n]
          \/ \E m \in Waiting : Giving(store, m, n)
      BY Places DEF NftOps
    <3>3. ~ Giving(store, h, n)
      BY <1>1, <2>2 DEF Giving, Gives, Burns
    <3> QED
      BY <1>3, <3>1, <3>2, <3>3 DEF Giving
  <2> QED
    BY <2>1, <2>2
<1>7. Toward(new, Of(msgs) \cup Rest)
  <2>1. Toward(store, Waiting)
    BY <1>1, <1>3 DEF LedgerLive, Active, NftOps
  <2>2. Of(msgs) \cup Rest = Rest
    BY <1>2
  <2>3. /\ View(new).transfers = View(store).transfers /\ View(new).sent = View(store).sent
        /\ View(new).open = View(store).open
    BY <1>4 DEF View
  <2> QED
    BY <1>6, <2>1, <2>2, <2>3 DEF Toward
<1>8. ASSUME tx.kind = "receive", NEW n \in PacketNfts(tx.packet), ~ ComesBack,
             Gives(Head(stack), n)
      PROVE  Fits(n)
  BY <1>8 DEF Gives
<1> QED
  BY <1>2, <1>5, <1>7, <1>8, StepLedger

\* A receiver or a sender gets the NFT.
LEMMA TransferLedger ==
  ASSUME Ready, LedgerLive, Head(stack).op \in {"transfer", "mintNft"},
         NEW named \in BOOLEAN, tx.kind = "receive" => named,
         Done(HandedTo(Head(stack).nft, Head(stack).to, named), <<>>)
  PROVE  LedgerLive'
<1>1. PICK h, G :
        /\ h = Head(stack)
        /\ G = IF named /\ h.to = Ics721 THEN store.given \cup {h.nft} ELSE store.given
  OBVIOUS
<1>2. /\ Done([store EXCEPT !.owner[h.nft] = h.to, !.given = G], <<>>)
      /\ GivenBut(store, G, h.nft)
  BY <1>1 DEF HandedTo, GivenBut
<1>3. /\ MsgOK(h) /\ MsgInv(h) /\ Waiting = {h} \cup Rest /\ Says(h)
      /\ tx.kind \in {"send", "receive", "resolve"}
  BY <1>1, HeadFacts, TxKinds DEF Ready, LedgerLive
<1>4. h.nft \in Nfts
  BY <1>1, <1>3 DEF MsgOK, BaseOK
<1>5. CASE tx.kind = "receive"
  <2>1. ReceiveMsg(h) /\ tx.packet \in PacketsIn
    BY <1>3, <1>5, TxKinds DEF MsgInv, Ready
  <2>2. h.nft \in PacketNfts(tx.packet) /\ h.to = tx.packet.receiver
    BY <1>1, <2>1 DEF ReceiveMsg
  <2>3. Settled.place[h.nft] = h.to
    BY <1>4, <1>5, <2>2 DEF Settled, SettledPlace
  <2>4. h.to # NoOne /\ (h.to = Ics721 => h.nft \in G)
    BY <1>1, <1>5, <2>1, <2>2, Names DEF PacketsIn
  <2>5. ASSUME ~ ComesBack
        PROVE  Fits(h.nft)
    <3>1. h.op = "mintNft"
      BY <1>1, <2>1, <2>5 DEF ReceiveMsg
    <3>2. store.owner[h.nft] = NoOne
      BY <1>1, <3>1 DEF Ready, Works
    <3>3. PlaceIn(store, h.nft) = NoOne
      BY <3>2, Names DEF PlaceIn
    <3>4. \E m \in Waiting : Giving(store, m, h.nft)
      BY <1>1, <1>4, <2>3, <2>4, <3>1, <3>3, Places DEF NftOps
    <3> QED
      BY <1>5, <2>5, <3>3, <3>4 DEF Giving, Fits
  <2> QED
    BY <1>1, <1>4, <1>2, <2>3, <2>4, <2>5, PlacedLedger
<1>6. CASE tx.kind = "resolve"
  <2>1. h.op = "transfer"
    BY <1>1, <1>3, <1>6 DEF MsgInv, ResolveMsg, CallOps
  <2>2. Settled.place[h.nft] = h.to /\ h.to \in Senders
    BY <1>3, <1>6, <2>1 DEF Says, MsgInv, ResolveMsg
  <2>3. h.to # Ics721
    BY <2>2, Names
  <2> QED
    BY <1>1, <1>4, <1>6, <1>2, <2>2, <2>3, PlacedLedger
<1>7. tx.kind # "send"
  BY <1>1, <1>3 DEF MsgInv, SendMsg
<1> QED
  BY <1>3, <1>5, <1>6, <1>7

\* A voucher that returned is burned.
LEMMA BurnLedger ==
  ASSUME Ready, LedgerLive, Head(stack).op = "burn",
         Done([store EXCEPT !.owner[Head(stack).nft] = NoOne], <<>>)
  PROVE  LedgerLive'
<1>1. PICK h : h = Head(stack)
  OBVIOUS
<1>2. /\ MsgOK(h) /\ MsgInv(h) /\ Waiting = {h} \cup Rest /\ Says(h)
      /\ tx.kind \in {"send", "receive", "resolve"}
  BY <1>1, HeadFacts, TxKinds DEF Ready, LedgerLive
<1>3. h.nft \in Nfts
  BY <1>1, <1>2 DEF MsgOK, BaseOK
<1>4. tx.kind = "resolve"
  BY <1>1, <1>2 DEF MsgInv, SendMsg, ReceiveMsg
<1>5. Settled.place[h.nft] = NoOne /\ NoOne # Ics721
  BY <1>1, <1>2, <1>4, Names DEF Says
<1>6. PICK G : G = store.given
  OBVIOUS
<1>7. /\ Done([store EXCEPT !.owner[h.nft] = NoOne, !.given = G], <<>>)
      /\ GivenBut(store, G, h.nft)
  BY <1>1, <1>6, OwnerOnly, HeadFacts DEF GivenBut
<1> QED
  BY <1>1, <1>3, <1>4, <1>5, <1>7, PlacedLedger

\* The callback contract hands on an NFT, or burns it.
LEMMA HandedLedger ==
  ASSUME Ready, LedgerLive, Head(stack).op = "callback", NEW nft \in Nfts,
         NEW where \in Accounts \cup {NoOne}, store.owner[nft] = Hook,
         NEW G, GivenBut(store, G, nft), where = Ics721 => nft \in G,
         Done([store EXCEPT !.owner[nft] = where, !.given = G], <<>>)
  PROVE  LedgerLive'
<1>1. PICK new, msgs :
        new = [store EXCEPT !.owner[nft] = where, !.given = G] /\ msgs = <<>>
  OBVIOUS
<1>2. IsSeq(msgs) /\ Of(msgs) = {} /\ Done(new, msgs)
  BY <1>1, NoMsgs, OfNone
<1>3. /\ MsgInv(Head(stack)) /\ store \in Stores
      /\ tx.kind \in {"send", "receive", "resolve"}
  BY HeadFacts, TxKinds DEF Ready
<1>4. tx.kind # "send"
  BY <1>3 DEF MsgInv, SendMsg
<1>5. /\ new.owner[nft] = where /\ \A n \in Nfts : n # nft => new.owner[n] = store.owner[n]
      /\ new.given = G /\ new.outgoing = store.outgoing /\ new.packets = store.packets
      /\ new.nextSeq = store.nextSeq /\ new.po = store.po
  BY <1>1, <1>3 DEF Stores
<1>6. Numbered(new)
  BY <1>5 DEF LedgerLive, Numbered
<1>7. View(store) = Settled
  BY CallView DEF CallOps
<1>8. Hook # Ics721
  BY Names DEF Senders
<1>9. Settled.place[nft] = Hook
  <2>1. View(store).place[nft] = Hook
    BY <1>8 DEF View, PlaceIn
  <2> QED
    BY <1>7, <2>1
<1>10. View(new) = [Settled EXCEPT !.place = Ledger!Moved(@, {nft}, where)]
  <2>1. \A n \in Nfts : PlaceIn(new, n) = IF n \in {nft} THEN where ELSE View(store).place[n]
    BY <1>5 DEF PlaceIn, View, GivenBut
  <2>2. View(new).place = Ledger!Moved(Settled.place, {nft}, where)
    BY <1>7, <2>1 DEF View, Ledger!Moved, Ledger!Nfts, Nfts, Classes
  <2>3. /\ View(new).transfers = Settled.transfers /\ View(new).sent = Settled.sent
        /\ View(new).open = Settled.open
    <3>1. /\ View(new).transfers = View(store).transfers /\ View(new).sent = View(store).sent
          /\ View(new).open = View(store).open
      BY <1>5 DEF View
    <3> QED
      BY <1>7, <3>1
  <2>4. [Settled EXCEPT !.place = Ledger!Moved(@, {nft}, where)] =
          [Settled EXCEPT !.place = Ledger!Moved(Settled.place, {nft}, where)]
    OBVIOUS
  <2> QED
    BY <2>2, <2>3, <2>4, ViewParts, SettledParts, EditPlace
<1>11. Goal(View(new))
  <2>1. PICK l : l = Settled
    OBVIOUS
  <2>2. l.place[nft] = Hook
    BY <1>9, <2>1
  <2>3. [l EXCEPT !.place = Ledger!Moved(@, {nft}, where)] \in Ledger!HookActs(l)
    BY ONLY <2>2, HookMoves, nft \in Nfts, where \in Accounts \cup {NoOne}
  <2> QED
    BY <1>4, <1>10, <2>1, <2>3 DEF Goal
<1>12. ~ Active(Of(msgs) \cup Rest)
  BY <1>2, CallRest DEF Active, CallOps
<1>13. \A n : ~ Gives(Head(stack), n)
  BY DEF Gives
<1> QED
  BY <1>2, <1>6, <1>11, <1>12, <1>13, StepLedger

\* An NFT is sent to the bridge: it will leave.
LEMMA SendNftLedger ==
  ASSUME Ready, LedgerLive, Head(stack).op = "sendNft",
         Done([store EXCEPT !.owner[Head(stack).nft] = Ics721], <<ReceiveNft(Head(stack))>>)
  PROVE  LedgerLive'
<1>1. PICK h, x, m, new, msgs :
        /\ h = Head(stack) /\ x = h.nft /\ m = ReceiveNft(h) /\ msgs = <<m>>
        /\ new = [store EXCEPT !.owner[x] = Ics721]
  OBVIOUS
<1>2. /\ MsgOK(h) /\ store.owner[x] = h.by /\ Says(h) /\ store \in Stores
      /\ Waiting = {h} \cup Rest /\ Ordered
  BY <1>1, HeadFacts DEF Ready, Works, LedgerLive
<1>3. x \in Nfts /\ h.by \in Senders
  BY <1>1, <1>2 DEF MsgOK, BaseOK
<1>4. h.by # Ics721
  BY <1>3, Names
<1>5. m.op = "receiveNft" /\ m.nft = x /\ m.by = h.by
  BY <1>1 DEF ReceiveNft
<1>6. IsSeq(msgs) /\ Of(msgs) = {m} /\ Done(new, msgs)
  BY <1>1, OneMsg, OfOne
<1>7. View(store) = Settled
  BY CallView DEF CallOps
<1>8. \A n \in Nfts : View(store).place[n] = PlaceIn(store, n)
  BY DEF View
<1>9. Settled.place[x] = h.by
  BY <1>2, <1>3, <1>4, <1>7, <1>8 DEF PlaceIn
<1>10. Says(m)
  BY <1>1, <1>2, <1>5, <1>9 DEF Says
<1>11. /\ \A n \in Nfts : n # x => new.owner[n] = store.owner[n]
       /\ new.given = store.given /\ new.outgoing = store.outgoing /\ new.packets = store.packets
       /\ new.nextSeq = store.nextSeq /\ new.po = store.po
  BY <1>1, <1>2 DEF Stores
<1>12. Numbered(new)
  BY <1>11 DEF LedgerLive, Numbered
<1>13. Leaving({m} \cup Rest, x)
  <2>1. \A o \in Rest : o.op \notin FirstOps \cup NftOps
    BY <1>1, <1>2, RestOps DEF Ready, CallOps
  <2> QED
    BY <1>5, <2>1 DEF Leaving, FirstOps, NftOps
<1>14. Toward(new, Of(msgs) \cup Rest)
  <2>1. /\ View(new).transfers = View(store).transfers /\ View(new).sent = View(store).sent
        /\ View(new).open = View(store).open
    BY <1>11 DEF View
  <2>2. \A n \in Nfts : n # x => PlaceIn(new, n) = Settled.place[n]
    BY <1>7, <1>8, <1>11 DEF PlaceIn
  <2> QED
    BY <1>6, <1>7, <1>13, <2>1, <2>2 DEF Toward
<1>15. \A n : ~ Gives(Head(stack), n)
  BY DEF Gives
<1> QED
  BY <1>6, <1>10, <1>12, <1>14, <1>15, StepLedger

\* The bridge sends it out.
LEMMA ReceiveNftLedger ==
  ASSUME Ready, LedgerLive, ExecReceiveNft(Head(stack))
  PROVE  LedgerLive'
<1>1. PICK h, x, p, new, msgs :
        /\ h = Head(stack) /\ x = h.nft /\ msgs = <<>>
        /\ p = [seq |-> store.nextSeq, nft |-> h.nft, channel |-> h.channel,
                sender |-> h.by, callback |-> h.callback, state |-> "sent"]
        /\ new = [store EXCEPT !.registry = @ \cup {h.nft.class},
                               !.outgoing[h.nft] = h.channel,
                               !.packets = @ \cup {p}, !.nextSeq = @ + 1]
  OBVIOUS
<1>2. h.op = "receiveNft" /\ Done(new, msgs) /\ IsSeq(msgs) /\ Of(msgs) = {}
  BY <1>1, NoMsgs, OfNone DEF ExecReceiveNft
<1>3. /\ MsgOK(h) /\ MsgInv(h) /\ Says(h) /\ store \in Stores /\ Waiting = {h} \cup Rest
      /\ store.owner[x] = Ics721 /\ ~ store.po.paused /\ x \notin store.given
      /\ tx.kind \in {"send", "receive", "resolve"}
  BY <1>1, <1>2, HeadFacts, TxKinds
  DEF Ready, LedgerLive, Works, BridgeOps, ErrorIfPaused, MsgInv, CommonMsg
<1>4. x \in Nfts /\ h.channel \in Channels
  BY <1>1, <1>2, <1>3 DEF MsgOK, BaseOK
<1>5. /\ new.owner = store.owner /\ new.given = store.given /\ new.outgoing[x] = h.channel
      /\ \A n \in Nfts : n # x => new.outgoing[n] = store.outgoing[n]
      /\ new.packets = store.packets \cup {p} /\ new.nextSeq = store.nextSeq + 1
      /\ new.po = store.po
  BY <1>1, <1>4, <1>3 DEF Stores
<1>6. store.nextSeq \in Nat /\ store.packets \subseteq SentPackets
  BY <1>3, BoundAssumption DEF Stores, SentPackets, Senders
<1>7. Toward(store, Waiting) /\ \A n \in Nfts : n # x => PlaceIn(store, n) = Settled.place[n]
  <2>1. Head(stack).op \in CallOps /\ Head(stack).op \notin FirstOps \cup NftOps
    BY <1>1, <1>2 DEF CallOps, FirstOps, NftOps
  <2> QED
    BY <1>1, <1>2, <1>4, <2>1, Places
<1>8. Numbered(new)
  <2>1. Numbered(store) /\ p.seq = store.nextSeq
    BY <1>1 DEF LedgerLive
  <2>2. \A q \in store.packets : q.seq < store.nextSeq /\ q.seq \in Nat
    BY <1>6, <2>1, BoundAssumption DEF Numbered, SentPackets
  <2>3. \A q \in new.packets : q = p \/ q \in store.packets
    BY <1>5
  <2>4. \A q \in new.packets : q.seq < new.nextSeq
    BY <1>5, <1>6, <2>1, <2>2, <2>3
  <2>5. \A q, r \in new.packets : q.seq = r.seq => q = r
    BY <1>6, <2>1, <2>2, <2>3 DEF Numbered
  <2> QED
    BY <2>4, <2>5 DEF Numbered
<1>9. View(new) = Ledger!Departed(Settled, x, h.by, h.channel)
  <2>1. PICK a, b, c, d : /\ Settled = LedgerOf(a, b, c, d) /\ a = Settled.place
                          /\ b = Settled.transfers /\ c = Settled.sent /\ d = Settled.open
    BY SettledParts
  <2>2. c = store.nextSeq - 1 /\ d = ~ store.po.paused
        /\ b = {TransferOf(q) : q \in store.packets}
    BY <1>7, <2>1 DEF Toward, View
  <2>3. View(new).place = Ledger!Moved(a, {x}, h.channel)
    <3>1. \A n \in Nfts : PlaceIn(new, n) = IF n \in {x} THEN h.channel ELSE a[n]
      BY <1>3, <1>5, <1>7, <2>1 DEF PlaceIn
    <3> QED
      BY <3>1 DEF View, Ledger!Moved, Ledger!Nfts, Nfts, Classes
  <2>4. PICK t : t = [seq |-> c + 1, nft |-> x, channel |-> h.channel,
                      sender |-> h.by, state |-> "sent"]
    OBVIOUS
  <2>5. TransferOf(p) = t
    <3>1. c + 1 = store.nextSeq
      BY <1>6, <2>2
    <3>2. EndOf(p) = "sent"
      BY <1>1 DEF EndOf
    <3> QED
      BY <1>1, <2>4, <3>1, <3>2 DEF TransferOf
  <2>6. View(new).transfers = b \cup {t}
    <3>1. View(new).transfers = {TransferOf(q) : q \in store.packets \cup {p}}
      BY <1>5 DEF View
    <3> QED
      BY <2>2, <2>5, <3>1
  <2>7. View(new).sent = c + 1 /\ View(new).open = d
    BY <1>5, <1>6, <2>2 DEF View
  <2>8. View(new) = LedgerOf(Ledger!Moved(a, {x}, h.channel), b \cup {t}, c + 1, d)
    BY <2>3, <2>6, <2>7, ViewParts
  <2>9. Ledger!Departed(Settled, x, h.by, h.channel)
          = LedgerOf(Ledger!Moved(a, {x}, h.channel), b \cup {t}, c + 1, d)
    <3>1. PICK l, by, channel : l = Settled /\ by = h.by /\ channel = h.channel
      OBVIOUS
    <3>2. l = LedgerOf(a, b, c, d)
      BY <2>1, <3>1
    <3>3. t = [seq |-> c + 1, nft |-> x, channel |-> channel, sender |-> by, state |-> "sent"]
      BY <2>4, <3>1
    <3>4. Ledger!Departed(l, x, by, channel)
            = LedgerOf(Ledger!Moved(a, {x}, channel), b \cup {t}, c + 1, d)
      BY ONLY <3>2, <3>3, EditDeparted
    <3> QED
      BY <3>1, <3>4
  <2> QED
    BY <2>8, <2>9
<1>10. Settled.open /\ Settled.place[x] = h.by
  BY <1>1, <1>2, <1>3, <1>7 DEF Toward, View, Says
<1>11. Goal(View(new))
  <2>1. CASE tx.kind = "send"
    <3>1. h.by \in Users
      BY <1>2, <1>3, <2>1 DEF Says
    <3> QED
      BY <1>4, <1>9, <1>10, <2>1, <3>1 DEF Goal
  <2>2. CASE tx.kind # "send"
    <3>1. h.by = Hook
      BY <1>2, <1>3, <2>2 DEF Says
    <3>2. Ledger!Departed(Settled, x, Hook, h.channel) \in Ledger!HookActs(Settled)
      BY <1>4, <1>10, <3>1, HookMoves
    <3> QED
      BY <1>9, <2>2, <3>1, <3>2 DEF Goal
  <2> QED
    BY <2>1, <2>2
<1>12. ~ Active(Of(msgs) \cup Rest)
  BY <1>1, <1>2, CallRest DEF Active, CallOps
<1>13. \A n : ~ Gives(Head(stack), n)
  BY <1>1, <1>2 DEF Gives
<1> QED
  BY <1>1, <1>2, <1>8, <1>11, <1>12, <1>13, StepLedger

\* The callback contract pauses the bridge.
LEMMA PauseLedger ==
  ASSUME Ready, LedgerLive, ExecPause(Head(stack))
  PROVE  LedgerLive'
<1>1. PICK h, new, msgs :
        h = Head(stack) /\ new = [store EXCEPT !.po = PausedPolicy] /\ msgs = <<>>
  OBVIOUS
<1>2. h.op = "pause" /\ Done(new, msgs) /\ IsSeq(msgs) /\ Of(msgs) = {}
  BY <1>1, NoMsgs, OfNone DEF ExecPause
<1>3. MsgInv(h) /\ store \in Stores /\ tx.kind # "send"
  BY <1>1, <1>2, HeadFacts DEF MsgInv, SendMsg
<1>4. /\ new.owner = store.owner /\ new.given = store.given /\ new.outgoing = store.outgoing
      /\ new.packets = store.packets /\ new.nextSeq = store.nextSeq /\ new.po.paused
  BY <1>1, <1>3 DEF Stores, PausedPolicy
<1>5. View(store) = Settled
  BY <1>1, <1>2, CallView DEF CallOps
<1>6. Numbered(new)
  BY <1>4 DEF LedgerLive, Numbered
<1>7. View(new) = [Settled EXCEPT !.open = FALSE]
  <2>1. /\ View(new).place = View(store).place /\ View(new).transfers = View(store).transfers
        /\ View(new).sent = View(store).sent /\ View(new).open = FALSE
    BY <1>4 DEF View, PlaceIn
  <2> QED
    BY <1>5, <2>1, ViewParts, SettledParts, EditOpen
<1>8. Goal(View(new))
  BY <1>3, <1>7 DEF Goal
<1>9. ~ Active(Of(msgs) \cup Rest)
  BY <1>1, <1>2, CallRest DEF Active, CallOps
<1>10. \A n : ~ Gives(Head(stack), n)
  BY <1>1, <1>2 DEF Gives
<1> QED
  BY <1>1, <1>2, <1>6, <1>8, <1>9, <1>10, StepLedger

\* The entries of a packet do not show in the ledger.
LEMMA EntriesLedger ==
  ASSUME Ready, LedgerLive, Head(stack).op \in EntriesOps,
         ExecRedeemEntries(Head(stack)) \/ ExecAddEntries(Head(stack))
  PROVE  LedgerLive'
<1>1. PICK h, packet, N, msgs :
        h = Head(stack) /\ packet = tx.packet /\ N = PacketNfts(packet) /\ msgs = <<>>
  OBVIOUS
<1>2. IsSeq(msgs) /\ Of(msgs) = {}
  BY <1>1, NoMsgs, OfNone
<1>3. /\ tx.kind = "receive" /\ ReceiveMsg(h) /\ Missing /\ N \subseteq Nfts
      /\ Waiting = {h} \cup Rest /\ Books(store, remote, Waiting) /\ store \in Stores
  BY <1>1, PacketOpsKind, HeadFacts DEF PacketOps
<1>4. ~ Active(Rest) /\ ~ Active(Waiting)
  BY <1>1, <1>3, CallRest DEF Active, EntriesOps, FirstOps, NftOps, CallOps
<1>5. Goal(View(store)) /\ Numbered(store)
  BY <1>4 DEF LedgerLive
<1>6. PICK new : /\ Done(new, msgs) /\ View(new) = View(store) /\ Numbered(new)
  <2>1. CASE ExecAddEntries(h)
    <3>1. PICK new : new = [store EXCEPT !.incoming =
                                SetAll(@, PacketNfts(h.packet), h.packet.channel)]
      OBVIOUS
    <3>2. /\ new.owner = store.owner /\ new.given = store.given
          /\ new.outgoing = store.outgoing /\ new.packets = store.packets
          /\ new.nextSeq = store.nextSeq /\ new.po = store.po
      BY <1>3, <3>1 DEF Stores
    <3>3. Done(new, msgs)
      BY <1>1, <2>1, <3>1 DEF ExecAddEntries
    <3> QED
      BY <1>5, <3>2, <3>3, SameView
  <2>2. CASE ExecRedeemEntries(h)
    <3>1. h.packet = packet /\ ComesBack
      BY <1>1, <1>3, <2>2 DEF ExecRedeemEntries, ReceiveMsg, PacketOps, EntriesOps
    <3>2. PICK new : new = [store EXCEPT !.outgoing = SetAll(@, N, NoChannel)]
      OBVIOUS
    <3>3. /\ new.owner = store.owner /\ new.given = store.given
          /\ \A n \in Nfts : n \notin N => new.outgoing[n] = store.outgoing[n]
          /\ new.packets = store.packets /\ new.nextSeq = store.nextSeq /\ new.po = store.po
      BY <1>3, <3>2 DEF Stores, SetAll
    <3>4. Done(new, msgs)
      BY <1>1, <2>2, <3>1, <3>2 DEF ExecRedeemEntries
    <3>5. ASSUME NEW n \in N
          PROVE  store.owner[n] # Ics721 \/ n \in store.given
      <4>1. ~ Out(store, remote, n) /\ Escrowed(store, remote, Waiting, n)
        BY <1>1, <1>3, <3>1, <3>5 DEF Missing, Books, Book
      <4>2. \A m \in Waiting : m.op \notin FirstOps \cup NftOps \cup CallOps
        BY <1>4 DEF Active
      <4>3. \A m \in Waiting : ~ Moves(m, n)
        BY <4>2 DEF Moves, FirstOps, NftOps, CallOps
      <4> QED
        BY <4>1, <4>3 DEF Escrowed
    <3>6. \A n \in Nfts : PlaceIn(new, n) = PlaceIn(store, n)
      BY <3>3, <3>5 DEF PlaceIn
    <3>7. View(new) = View(store) /\ Numbered(new)
      BY <1>5, <3>3, <3>6 DEF View, Numbered
    <3> QED
      BY <3>4, <3>7
  <2> QED
    BY <1>1, <2>1, <2>2
<1>7. ~ Active(Of(msgs) \cup Rest)
  BY <1>2, <1>4 DEF Active
<1>8. \A n : ~ Gives(Head(stack), n)
  BY DEF Gives, EntriesOps
<1>9. Head(stack).op # "reply"
  BY DEF EntriesOps
<1> QED
  BY <1>2, <1>5, <1>6, <1>7, <1>8, <1>9, StepLedger

\* A message of a receive says nothing of the ledger, unless it sends an NFT.
LEMMA Plain ==
  ASSUME NEW m, m.op \notin {"sendNft", "receiveNft"},
         tx.kind = "receive" \/ m.op \notin {"transfer", "burn", "reply"}
  PROVE  Says(m)
BY DEF Says

\* The messages that a packet is taken apart into.
LEMMA PartsLedger ==
  ASSUME Ready, LedgerLive,
         \/ ExecConjunction(Head(stack)) \/ ExecRedeem(Head(stack))
         \/ ExecCreate(Head(stack)) \/ ExecMint(Head(stack))
  PROVE  LedgerLive'
<1>1. PICK h, packet : h = Head(stack) /\ packet = tx.packet
  OBVIOUS
<1>2. h.op \in {"conjunction", "redeem", "create", "mint"}
  BY <1>1 DEF ExecConjunction, ExecRedeem, ExecCreate, ExecMint
<1>3. /\ tx.kind = "receive" /\ ReceiveMsg(h)
      /\ packet \in PacketsIn /\ store \in Stores
      /\ h.op \in {"redeem", "create", "mint"} => h.packet = packet
  BY <1>1, <1>2, PacketOpsKind, HeadFacts DEF PacketOps, ReceiveMsg
<1>4. PICK new, msgs :
        /\ IsSeq(msgs) /\ Done(new, msgs) /\ new.given = store.given
        /\ new.owner = store.owner /\ new.outgoing = store.outgoing
        /\ new.packets = store.packets /\ new.nextSeq = store.nextSeq /\ new.po = store.po
        /\ \A m \in Of(msgs) : m.op \notin {"sendNft", "receiveNft"}
        /\ \A n \in PacketNfts(packet) : \E m \in Of(msgs) : Gives(m, n)
  <2>1. CASE ExecConjunction(h)
    <3>1. PICK front, entries, msgs :
            /\ front = (IF IsRedemption(packet) THEN RedeemVouchers(packet)
                                                ELSE CreateVouchers(packet))
            /\ entries = (IF IsRedemption(packet) THEN RedeemOutgoingChannelEntries(packet)
                                                  ELSE AddIncomingChannelEntries(packet))
            /\ msgs = Operands(packet)
      OBVIOUS
    <3>2. Done(store, msgs)
      BY <1>1, <1>3, <2>1, <3>1 DEF ExecConjunction, ReceiveMsg
    <3>3. /\ Sorted(msgs, 0, 3) /\ front \in Of(msgs)
          /\ \A m \in Of(msgs) : m \in {ProxyMsg, front, Callback, entries}
      BY <1>3, <3>1, OperandsSorted
    <3>4. \A m \in Of(msgs) : m.op \notin {"sendNft", "receiveNft"}
      BY <3>1, <3>3 DEF ProxyMsg, Callback, RedeemVouchers, CreateVouchers,
                        RedeemOutgoingChannelEntries, AddIncomingChannelEntries
    <3>5. \A n : Gives(front, n)
      BY <3>1 DEF Gives, RedeemVouchers, CreateVouchers
    <3> QED
      BY <3>2, <3>3, <3>4, <3>5 DEF Sorted
  <2>2. CASE ExecRedeem(h)
    <3>1. PICK msgs : msgs = TransferAll(packet)
      OBVIOUS
    <3>2. /\ IsSeq(msgs)
          /\ \A m \in Of(msgs) : \E n \in PacketNfts(packet) : m = TransferNft(n, packet.receiver)
          /\ \A n \in PacketNfts(packet) : TransferNft(n, packet.receiver) \in Of(msgs)
      BY <1>3, <3>1, TransferAllOK, OfAll
    <3>3. Done(store, msgs)
      BY <1>1, <1>2, <1>3, <2>2, <3>1 DEF ExecRedeem
    <3>4. \A n : /\ Gives(TransferNft(n, packet.receiver), n)
                 /\ TransferNft(n, packet.receiver).op \notin {"sendNft", "receiveNft"}
      BY DEF Gives, TransferNft
    <3> QED
      BY <3>2, <3>3, <3>4
  <2>3. CASE ExecCreate(h)
    <3>1. PICK class, front, back, new, msgs :
            /\ class = packet.class /\ back = <<Mint(packet)>> /\ msgs = front \o back
            /\ front = (IF class \in store.registry THEN <<>> ELSE <<Instantiate(class)>>)
            /\ new = [store EXCEPT !.registry = @ \cup {class}]
      OBVIOUS
    <3>2. Done(new, msgs)
      BY <1>1, <1>3, <2>3, <3>1 DEF ExecCreate
    <3>3. IsSeq(front) /\ IsSeq(back) /\ IsSeq(msgs)
      <4>1. IsSeq(front) /\ IsSeq(back)
        BY <3>1, NoMsgs, OneMsg
      <4> QED
        BY <3>1, <4>1, ConcatFacts
    <3>4. Of(msgs) = Of(front) \cup Of(back)
      BY <3>1, <3>3, OfConcat
    <3>5. Of(front) \subseteq {Instantiate(class)} /\ Of(back) = {Mint(packet)}
      BY <3>1, OfNone, OfOne
    <3>6. \A m \in Of(msgs) : m.op \notin {"sendNft", "receiveNft"}
      BY <3>4, <3>5 DEF Instantiate, Mint
    <3>7. \A n : Gives(Mint(packet), n)
      BY DEF Gives, Mint
    <3>8. /\ new.given = store.given
          /\ new.owner = store.owner /\ new.outgoing = store.outgoing
          /\ new.packets = store.packets /\ new.nextSeq = store.nextSeq /\ new.po = store.po
      BY <1>3, <3>1 DEF Stores
    <3> QED
      BY <3>2, <3>3, <3>4, <3>5, <3>6, <3>7, <3>8
  <2>4. CASE ExecMint(h)
    <3>1. PICK new, msgs :
            /\ msgs = MintAll(packet)
            /\ new = [store EXCEPT !.metadata = @ \cup PacketNfts(packet)]
      OBVIOUS
    <3>2. /\ IsSeq(msgs)
          /\ \A m \in Of(msgs) : \E n \in PacketNfts(packet) : m = MintNft(n, packet.receiver)
          /\ \A n \in PacketNfts(packet) : MintNft(n, packet.receiver) \in Of(msgs)
      BY <1>3, <3>1, MintAllOK, OfAll
    <3>3. Done(new, msgs)
      BY <1>1, <1>2, <1>3, <2>4, <3>1 DEF ExecMint
    <3>4. \A n : /\ Gives(MintNft(n, packet.receiver), n)
                 /\ MintNft(n, packet.receiver).op \notin {"sendNft", "receiveNft"}
      BY DEF Gives, MintNft
    <3>5. /\ new.given = store.given
          /\ new.owner = store.owner /\ new.outgoing = store.outgoing
          /\ new.packets = store.packets /\ new.nextSeq = store.nextSeq /\ new.po = store.po
      BY <1>3, <3>1 DEF Stores
    <3> QED
      BY <3>2, <3>3, <3>4, <3>5
  <2> QED
    BY <1>1, <2>1, <2>2, <2>3, <2>4
<1>5. \A m \in Of(msgs) : Says(m)
  BY <1>3, <1>4, Plain
<1>6. /\ Head(stack).op \in FirstOps \cup NftOps \cup CallOps
      /\ Head(stack).op \notin {"transfer", "mintNft", "burn", "receiveNft"}
  BY <1>1, <1>2 DEF FirstOps, NftOps
<1> QED
  BY <1>1, <1>3, <1>4, <1>5, <1>6, StillLedger

\* The incoming proxy, a new collection, a callback that does nothing.
LEMMA QuietLedger ==
  ASSUME Ready, LedgerLive, Head(stack).op \in {"proxy", "instantiate", "callback"},
         Done(store, <<>>)
  PROVE  LedgerLive'
<1>1. PICK msgs : msgs = <<>>
  OBVIOUS
<1>2. IsSeq(msgs) /\ Of(msgs) = {} /\ Done(store, msgs)
  BY <1>1, NoMsgs, OfNone
<1>3. \A n : ~ Gives(Head(stack), n)
  BY DEF Gives
<1>4. /\ Head(stack).op \in FirstOps \cup NftOps \cup CallOps
      /\ Head(stack).op \notin {"transfer", "mintNft", "burn", "receiveNft"}
  BY DEF FirstOps, NftOps, CallOps
<1> QED
  BY <1>2, <1>3, <1>4, StillLedger

\* The callback contract sends an NFT or pauses the bridge.
LEMMA CallLedger ==
  ASSUME Ready, LedgerLive, Head(stack).op = "callback", NEW m,
         m.op \in {"sendNft", "pause"}, m.op = "sendNft" => m.by = Hook,
         Done(store, <<m>>)
  PROVE  LedgerLive'
<1>1. PICK msgs : msgs = <<m>>
  OBVIOUS
<1>2. IsSeq(msgs) /\ Of(msgs) = {m} /\ Done(store, msgs)
  BY <1>1, OneMsg, OfOne
<1>3. \A n : ~ Gives(Head(stack), n)
  BY DEF Gives
<1>4. tx.kind # "send"
  BY HeadFacts DEF MsgInv, SendMsg
<1>5. Says(m)
  BY <1>4 DEF Says
<1>6. /\ Head(stack).op \in FirstOps \cup NftOps \cup CallOps
      /\ Head(stack).op \notin {"transfer", "mintNft", "burn", "receiveNft"}
  BY DEF FirstOps, NftOps, CallOps
<1> QED
  BY <1>2, <1>3, <1>5, <1>6, StillLedger

\* The acknowledgement callback: what it does can be taken back.
LEMMA AckCallbackLedger ==
  ASSUME Ready, LedgerLive, ExecAckCallback(Head(stack))
  PROVE  LedgerLive'
<1>1. PICK h, a, r, msgs :
        h = Head(stack) /\ a = Callback /\ r = Reply("callback") /\ msgs = <<a, r>>
  OBVIOUS
<1>2. h.op = "ackCallback" /\ Done(store, msgs)
  BY <1>1 DEF ExecAckCallback
<1>3. IsSeq(msgs) /\ Of(msgs) = {a, r}
  <2>1. IsSeq(msgs) /\ Len(msgs) = 2 /\ msgs[1] = a /\ msgs[2] = r
    BY <1>1, TwoMsgs
  <2>2. \A i : i \in 1..Len(msgs) <=> i = 1 \/ i = 2
    BY <2>1
  <2> QED
    BY <2>1, <2>2 DEF Of
<1>4. a.op = "callback" /\ r.op = "reply" /\ r.saved = store
  BY <1>1 DEF Callback, Reply
<1>5. View(store) = Settled /\ Numbered(store)
  BY <1>1, <1>2, CallView DEF CallOps, LedgerLive
<1>6. Says(a) /\ Says(r)
  BY <1>4, <1>5 DEF Says
<1>7. \A n : ~ Gives(Head(stack), n)
  BY <1>1, <1>2 DEF Gives
<1>8. /\ Head(stack).op \in FirstOps \cup NftOps \cup CallOps
      /\ Head(stack).op \notin {"transfer", "mintNft", "burn", "receiveNft"}
  BY <1>1, <1>2 DEF FirstOps, NftOps, CallOps
<1> QED
  BY <1>2, <1>3, <1>6, <1>7, <1>8, StillLedger

\* What the callback contract does.
LEMMA CallbackLedger ==
  ASSUME Ready, LedgerLive, ExecCallback(Head(stack))
  PROVE  LedgerLive'
<1>1. Head(stack).op = "callback"
  BY DEF ExecCallback
<1>2. CASE Done(store, <<>>)
  BY <1>1, <1>2, QuietLedger
<1>3. ASSUME NEW nft \in Nfts, NEW to \in Accounts, store.owner[nft] = Hook,
             Done(HandedTo(nft, to, TRUE), <<>>)
      PROVE  LedgerLive'
  <2>1. PICK G : G = IF to = Ics721 THEN store.given \cup {nft} ELSE store.given
    OBVIOUS
  <2>2. /\ Done([store EXCEPT !.owner[nft] = to, !.given = G], <<>>)
        /\ GivenBut(store, G, nft) /\ (to = Ics721 => nft \in G)
    BY <1>3, <2>1 DEF HandedTo, GivenBut
  <2> QED
    BY <1>1, <1>3, <2>2, HandedLedger
<1>4. ASSUME NEW nft \in Nfts, store.owner[nft] = Hook,
             Done([store EXCEPT !.owner[nft] = NoOne], <<>>)
      PROVE  LedgerLive'
  <2>1. PICK G : G = store.given
    OBVIOUS
  <2>2. /\ Done([store EXCEPT !.owner[nft] = NoOne, !.given = G], <<>>)
        /\ GivenBut(store, G, nft) /\ NoOne # Ics721
    BY <1>4, <2>1, OwnerOnly, HeadFacts, Names DEF GivenBut
  <2> QED
    BY <1>1, <1>4, <2>2, HandedLedger
<1>5. ASSUME NEW nft \in Nfts, NEW channel \in Channels,
             Done(store, <<SendNft(nft, Hook, Via, channel, FALSE)>>)
      PROVE  LedgerLive'
  <2>1. PICK m : m = SendNft(nft, Hook, Via, channel, FALSE)
    OBVIOUS
  <2>2. m.op = "sendNft" /\ m.by = Hook
    BY <2>1 DEF SendNft
  <2>3. Done(store, <<m>>)
    BY <1>5, <2>1
  <2> QED
    BY <1>1, <2>2, <2>3, CallLedger
<1>6. CASE Done(store, <<PauseBridge>>)
  <2>1. PICK m : m = PauseBridge
    OBVIOUS
  <2>2. m.op = "pause"
    BY <2>1 DEF PauseBridge
  <2>3. Done(store, <<m>>)
    BY <1>6, <2>1
  <2> QED
    BY <1>1, <2>2, <2>3, CallLedger
<1> QED
  BY <1>2, <1>3, <1>5, <1>6, <1>4 DEF ExecCallback

\* Every message that works.
LEMMA ExecuteLedger ==
  ASSUME Ready, LedgerLive, Execute(Head(stack)), ~ (ExecProxy(Head(stack)) /\ Failed)
  PROVE  LedgerLive'
<1>1. CASE \/ ExecConjunction(Head(stack)) \/ ExecRedeem(Head(stack))
           \/ ExecCreate(Head(stack)) \/ ExecMint(Head(stack))
  BY <1>1, PartsLedger
<1>2. CASE ExecRedeemEntries(Head(stack)) \/ ExecAddEntries(Head(stack))
  <2>1. Head(stack).op \in EntriesOps
    BY <1>2 DEF ExecRedeemEntries, ExecAddEntries, EntriesOps
  <2> QED
    BY <1>2, <2>1, EntriesLedger
<1>3. CASE \/ ExecReceiveNft(Head(stack)) \/ ExecPause(Head(stack))
           \/ ExecAckCallback(Head(stack))
  BY <1>3, ReceiveNftLedger, PauseLedger, AckCallbackLedger
<1>4. CASE ExecCollection(Head(stack))
  <2>1. CASE Head(stack).op = "instantiate" /\ Done(store, <<>>)
    BY <2>1, QuietLedger
  <2>2. CASE /\ Head(stack).op \in {"transfer", "mintNft"}
             /\ Done(HandedTo(Head(stack).nft, Head(stack).to, tx.kind = "receive"), <<>>)
    <3>1. PICK named \in BOOLEAN : named <=> tx.kind = "receive"
      OBVIOUS
    <3>2. Done(HandedTo(Head(stack).nft, Head(stack).to, named), <<>>)
      BY <2>2, <3>1 DEF HandedTo
    <3> QED
      BY <2>2, <3>1, <3>2, TransferLedger
  <2>3. CASE /\ Head(stack).op = "burn"
             /\ Done([store EXCEPT !.owner[Head(stack).nft] = NoOne], <<>>)
    BY <2>3, BurnLedger
  <2>4. CASE /\ Head(stack).op = "sendNft"
             /\ Done([store EXCEPT !.owner[Head(stack).nft] = Ics721],
                     <<ReceiveNft(Head(stack))>>)
    BY <2>4, SendNftLedger
  <2> QED
    BY <1>4, <2>1, <2>2, <2>3, <2>4 DEF ExecCollection
<1>5. CASE ExecProxy(Head(stack))
  <2>1. Done(store, <<>>) /\ Head(stack).op = "proxy"
    BY <1>5 DEF ExecProxy
  <2> QED
    BY <2>1, QuietLedger
<1>6. CASE ExecCallback(Head(stack))
  BY <1>6, CallbackLedger
<1> QED
  BY <1>1, <1>2, <1>3, <1>4, <1>5, <1>6 DEF Execute

-----------------------------------------------------------------------------
(* A message fails, or a submessage is over.                               *)

\* Nothing waits any more.
LEMMA EmptyLedger ==
  ASSUME stack' = <<>>, tx'.kind = tx.kind, tx'.before = tx.before,
         tx.kind # "send" => tx'.packet = tx.packet,
         Numbered(store'), Goal(View(store')),
         tx.kind = "receive" =>
           ~ tx.before.po.paused /\ \A n \in PacketNfts(tx.packet) : Fits(n)
  PROVE  LedgerLive'
<1>1. Waiting' = {}
  BY OfNone DEF Waiting, Of
<1>2. /\ \A l : Goal(l)' <=> Goal(l)
      /\ \A n : tx.kind = "receive" => (Fits(n)' <=> Fits(n))
  BY SameSettled
<1>3. PICK l : l = View(store')
  OBVIOUS
<1>4. Goal(l)'
  BY <1>2, <1>3
<1>5. Fitting(Waiting)'
  BY <1>1, <1>2 DEF Fitting
<1> QED
  BY <1>1, <1>3, <1>4, <1>5 DEF LedgerLive, Active

\* When a packet ends a failure takes back what the callback contract has done.
LEMMA FailedLedger ==
  ASSUME TypeInv, ResolveInv, Live, LedgerLive, ~ NoTx, stack # <<>>, tx.kind = "resolve",
         Failed, tx' = tx,
         \/ ~ Works(Head(stack))
         \/ ExecProxy(Head(stack))
         \/ CallbackFails(Head(stack))
  PROVE  LedgerLive'
<1>1. PICK h : h = Head(stack)
  OBVIOUS
<1>2. Len(stack) \in Nat /\ Len(stack) >= 1 /\ h = stack[1]
  BY <1>1, SeqFacts DEF TypeInv
<1>3. h \in Waiting
  BY <1>2 DEF Waiting, Of
<1>4. ResolveMsg(h)
  BY <1>3 DEF Live, MsgInv
<1>5. h.op \in CallOps \ {"ackCallback"}
  <2>1. CASE ~ Works(h)
    <3>1. h.op \notin {"transfer", "burn", "reply", "ackCallback"}
      BY <1>4, <2>1 DEF Works, ResolveMsg, BridgeOps
    <3> QED
      BY <1>4, <3>1 DEF ResolveMsg
  <2>2. CASE ExecProxy(h)
    BY <1>4, <2>2 DEF ExecProxy, ResolveMsg, CallOps
  <2>3. CASE CallbackFails(h)
    BY <2>3 DEF CallbackFails, CallOps
  <2> QED
    BY <1>1, <2>1, <2>2, <2>3
<1>6. PICK i \in 1..Len(stack) : stack[i].op = "reply"
  BY <1>4, <1>5 DEF ResolveMsg, Waiting, Of
<1>7. PICK r \in 1..Len(stack) :
        /\ stack[r].op = "reply" /\ store' = stack[r].saved
        /\ IsSeq(stack') /\ Len(stack') = Len(stack) - r
  BY <1>6, FailedFacts
<1>8. r = Len(stack)
  BY <1>7, ReplyRest DEF Live
<1>9. stack' = <<>>
  BY <1>2, <1>7, <1>8, SeqFacts
<1>10. stack[r] \in Waiting
  BY <1>7 DEF Waiting, Of
<1>11. View(store') = Settled /\ Numbered(store')
  <2>1. Says(stack[r])
    BY <1>10 DEF LedgerLive
  <2> QED
    BY <1>7, <2>1 DEF Says
<1>12. Goal(View(store'))
  BY <1>11, SettledGoal
<1> QED
  BY <1>9, <1>11, <1>12, EmptyLedger

\* A submessage is over.
LEMMA ReplyLedger ==
  ASSUME TypeInv, Live, LedgerLive, ~ NoTx, stack # <<>>, Head(stack).op = "reply",
         ReplySuccess, tx'.kind = tx.kind, tx'.before = tx.before,
         tx.kind # "send" => tx'.packet = tx.packet
  PROVE  LedgerLive'
<1>1. IsSeq(stack) /\ Len(stack) \in Nat /\ Len(stack) >= 1 /\ Head(stack) = stack[1]
  BY SeqFacts DEF TypeInv
<1>2. 1 = Len(stack)
  <2>1. 1 \in 1..Len(stack) /\ stack[1].op = "reply"
    BY <1>1
  <2> QED
    BY <2>1, ReplyRest DEF Live
<1>3. stack' = <<>> /\ store' = store
  <2>1. IsSeq(stack') /\ Len(stack') = 0
    BY <1>1, <1>2, TailFacts DEF ReplySuccess
  <2>2. stack' = <<>>
    BY <2>1, SeqFacts
  <2> QED
    BY <2>2 DEF ReplySuccess
<1>4. \A m \in Waiting : m = Head(stack)
  <2>1. PICK l : l = Len(stack)
    OBVIOUS
  <2>2. \A i \in 1..l : i = 1
    BY <1>2, <2>1
  <2> QED
    BY <1>1, <2>1, <2>2 DEF Waiting, Of
<1>5. ~ Active(Waiting)
  BY <1>4 DEF Active, FirstOps, NftOps, CallOps
<1>6. Numbered(store') /\ Goal(View(store'))
  BY <1>3, <1>5 DEF LedgerLive
<1>7. \A n : \A m \in Waiting : ~ Gives(m, n)
  BY <1>4 DEF Gives
<1>8. tx.kind = "receive" =>
        ~ tx.before.po.paused /\ \A n \in PacketNfts(tx.packet) : Fits(n)
  BY <1>7 DEF LedgerLive, Fitting
<1> QED
  BY <1>3, <1>6, <1>8, EmptyLedger

\* The next message of a transaction.
LEMMA ContinueLedger ==
  ASSUME TypeInv, ReceiveInv, ResolveInv, BooksInv, LedgerInv, Continue
  PROVE  LedgerInv'
<1>1. /\ stack # <<>> /\ ~ NoTx /\ tx'.kind = tx.kind /\ tx'.before = tx.before
      /\ tx.kind \in {"send", "receive", "resolve"} /\ TxOK
  BY ContinueKind, TxKinds DEF Continue, TypeInv
<1>2. tx' = tx \/ \E r \in Results : tx' = [tx EXCEPT !.result = r]
  BY ContinueCases, FailedFacts DEF Done, ReplySuccess, Results
<1>3. ~ NoTx' /\ (tx.kind # "send" => tx'.packet = tx.packet)
  BY <1>1, <1>2 DEF TxOK, NoTx, Idle
<1>4. Live /\ LedgerLive /\ Numbered(tx.before)
  BY <1>1 DEF BooksInv, LedgerInv, Undone, Going
<1>5. Undone' \/ LedgerLive'
  <2>1. CASE /\ Works(Head(stack)) /\ Execute(Head(stack))
             /\ ~ (ExecProxy(Head(stack)) /\ Failed)
    BY <1>1, <1>4, <2>1, ExecuteLedger DEF Ready
  <2>2. CASE /\ Failed
             /\ \/ ~ Works(Head(stack))
                \/ ExecProxy(Head(stack))
                \/ CallbackFails(Head(stack))
    <3>1. CASE tx.kind \in {"receive", "send"}
      BY <1>1, <2>2, <3>1, FailedUndone
    <3>2. CASE tx.kind = "resolve"
      <4>1. tx' = tx
        BY <1>1, <1>4, <2>2, <3>2, FailedResolve
      <4> QED
        BY <1>1, <1>4, <2>2, <3>2, <4>1, FailedLedger
    <3> QED
      BY <1>1, <3>1, <3>2
  <2>3. CASE Head(stack).op = "reply" /\ ReplySuccess
    BY <1>1, <1>3, <1>4, <2>3, ReplyLedger
  <2> QED
    BY <1>1, <2>1, <2>2, <2>3 DEF Continue, CallbackFails
<1>6. Numbered(tx.before)'
  BY <1>1, <1>4
<1> QED
  BY <1>3, <1>5, <1>6 DEF LedgerInv

-----------------------------------------------------------------------------
(* Transactions begin and end.                                             *)

\* At the beginning, too, an NFT that nothing will move is where it will be.
LEMMA TowardGoalNext == (\A st, W : Toward(st, W) /\ ~ Active(W) => Goal(View(st)))'
<1>1. \A st, W : Toward(st, W) /\ ~ Active(W) => Goal(View(st))
  BY TowardGoal
<1> QED
  BY <1>1, PTL

\* The first messages of a transaction.
LEMMA StartLedger ==
  ASSUME ~ NoTx', tx'.before = store, Numbered(store), Numbered(store'),
         NEW st, st = store', NEW W, W = Waiting', Toward(st, W)',
         \A m \in W : Says(m)', Fitting(W)'
  PROVE  LedgerInv'
<1>1. (IF Active(W) THEN Toward(st, W) ELSE Goal(View(st)))'
  BY TowardGoalNext
<1>2. LedgerLive'
  BY <1>1 DEF LedgerLive
<1> QED
  BY <1>2 DEF LedgerInv

\* A user sends an NFT.
LEMMA UserSendLedger ==
  ASSUME TypeInv, LedgerInv, NEW nft \in Nfts, NEW via, NEW channel \in Channels,
         NEW callback \in BOOLEAN, UserSend(nft, via, channel, callback)
  PROVE  LedgerInv'
<1>1. PICK m : m = SendNft(nft, store.owner[nft], via, channel, callback)
  OBVIOUS
<1>2. m.op = "sendNft" /\ m.by \in Users
  BY <1>1 DEF SendNft, UserSend
<1>3. /\ stack' = <<m>> /\ store' = store /\ Numbered(store)
      /\ tx' = [kind |-> "send", before |-> store, result |-> "none"]
  BY <1>1 DEF UserSend, LedgerInv
<1>4. tx'.kind = "send" /\ tx'.before = store /\ ~ NoTx'
  BY <1>3 DEF NoTx, Idle
<1>5. PICK st, W : st = store' /\ W = Waiting'
  OBVIOUS
<1>6. W = {m} /\ st = store
  BY <1>3, <1>5, OfOne DEF Waiting, Of
<1>7. Settled'.place = View(st).place /\ Settled'.transfers = View(st).transfers
      /\ Settled'.sent = View(st).sent /\ Settled'.open = View(st).open
  BY <1>4, <1>6 DEF Settled, SettledPlace, View
<1>8. \A n \in Nfts : PlaceIn(st, n) = Settled'.place[n]
  BY <1>7 DEF View
<1>9. Toward(st, W)'
  BY <1>7, <1>8 DEF Toward
<1>10. Says(m)'
  BY <1>2, <1>4 DEF Says
<1>11. Fitting(W)'
  BY <1>4 DEF Fitting
<1> QED
  BY <1>3, <1>4, <1>5, <1>6, <1>9, <1>10, <1>11, StartLedger

\* A packet is received, or refused at once.
LEMMA RecvLedger ==
  ASSUME TypeInv, BooksInv, LedgerInv, NEW packet \in PacketsIn, RecvPacket(packet)
  PROVE  LedgerInv'
<1>1. PICK conj, r, N :
        conj = Conjunction(Operands(packet)) /\ r = Reply("ack") /\ N = PacketNfts(packet)
  OBVIOUS
<1>2. /\ Books(store, remote, {}) /\ Numbered(store)
      /\ \A n \in N : [nft |-> n, channel |-> packet.channel] \in remote
  BY <1>1 DEF BooksInv, LedgerInv, RecvPacket
<1>3. /\ store' = store
      /\ tx'.kind = "receive" /\ tx'.packet = packet /\ tx'.before = store /\ ~ NoTx'
      /\ \/ stack' = <<>> /\ tx'.result = "error"
         \/ stack' = <<conj, r>> /\ ~ store.po.paused
  BY <1>1 DEF RecvPacket, Receive, Submessage, ErrorIfPaused, NoTx, Idle
<1>4. CASE stack' = <<>> /\ tx'.result = "error"
  BY <1>2, <1>3, <1>4 DEF LedgerInv, Undone
<1>5. CASE stack' = <<conj, r>> /\ ~ store.po.paused
  <2>1. N \subseteq Nfts /\ (\A n \in N : n.class = packet.class) /\ packet.channel \in Channels
    BY <1>1, PacketNftsIn DEF PacketsIn
  <2>2. conj.op = "conjunction" /\ r.op = "reply"
    BY <1>1 DEF Conjunction, Reply
  <2>3. PICK st, W : st = store' /\ W = Waiting'
    OBVIOUS
  <2>4. W = {conj, r} /\ st = store
    <3>1. PICK s : s = <<conj, r>>
      OBVIOUS
    <3>2. Len(s) = 2 /\ s[1] = conj /\ s[2] = r
      BY <3>1, TwoMsgs
    <3>3. \A i : i \in 1..Len(s) <=> i = 1 \/ i = 2
      BY <3>2
    <3>4. Of(s) = {conj, r}
      BY <3>2, <3>3 DEF Of
    <3> QED
      BY <1>3, <1>5, <2>3, <3>1, <3>4 DEF Waiting, Of
  <2>5. \A n : Gives(conj, n)
    BY <2>2 DEF Gives
  <2>6. Toward(st, W)'
    <3>1. /\ View(st).transfers = Settled'.transfers
          /\ View(st).sent = Settled'.sent /\ View(st).open = Settled'.open
      BY <1>3, <2>4 DEF Settled, View
    <3>2. \A n \in Nfts : Settled'.place[n] = IF n \in N THEN packet.receiver ELSE PlaceIn(st, n)
      BY <1>1, <1>3, <2>4 DEF Settled, SettledPlace, PacketNfts
    <3>3. \A n \in N : Giving(st, conj, n)'
      BY <1>1, <1>3, <2>4, <2>5 DEF Giving, PacketNfts, Gives
    <3>4. \A n \in Nfts : PlaceIn(st, n) = Settled'.place[n] \/ \E m \in W : Giving(st, m, n)'
      BY <2>4, <3>2, <3>3
    <3> QED
      BY <3>1, <3>4 DEF Toward
  <2>7. Says(conj)' /\ Says(r)'
    BY <1>3, <2>2 DEF Says
  <2>8. ASSUME packet.class # packet.channel, NEW n \in N
        PROVE  /\ PlaceIn(store, n) = packet.channel
               /\ \A p \in store.packets :
                    p.nft = n /\ p.channel = packet.channel => p.state = "result"
    <3>1. AwayIn(store, remote, n, packet.channel)
      BY <1>2, <2>1, <2>8 DEF AwayIn
    <3>2. Noted(store, remote, n)
      BY <1>2, <2>1 DEF Books, Book
    <3>3. n \notin store.given /\ \A p \in store.packets : p.nft = n => ~ Binds(p)
      BY <1>1, <1>2, <2>8, ComesBackIsRedemption
    <3>4. PlaceIn(store, n) = packet.channel
      BY <2>1, <3>1, <3>2, <3>3 DEF Noted, PlaceIn
    <3> QED
      BY <3>4, <3>3 DEF Binds
  <2>9. Fitting(W)'
    <3>1. ComesBack' <=> packet.class # packet.channel
      BY <1>3 DEF ComesBack
    <3>2. ASSUME ComesBack', NEW n \in N
          PROVE  Fits(n)'
      BY <1>3, <2>8, <3>1, <3>2 DEF Fits
    <3>3. PacketNfts(tx.packet)' = N
      BY <1>1, <1>3 DEF PacketNfts, NftOf
    <3> QED
      BY <1>3, <1>5, <2>4, <2>5, <3>2, <3>3 DEF Fitting, Gives
  <2> QED
    BY <1>2, <1>3, <2>3, <2>4, <2>6, <2>7, <2>9, StartLedger
<1> QED
  BY <1>3, <1>4, <1>5

\* A packet that is gone is one transfer less.
LEMMA OneLess ==
  ASSUME NEW st, Numbered(st), NEW p \in st.packets
  PROVE  {TransferOf(q) : q \in st.packets \ {p}} = {TransferOf(q) : q \in st.packets}
                                                     \ {TransferOf(p)}
<1>1. \A q : TransferOf(q).seq = q.seq
  BY DEF TransferOf
<1>2. \A q \in st.packets : TransferOf(q) = TransferOf(p) => q = p
  BY <1>1 DEF Numbered
<1> QED
  BY <1>2

\* A packet that this bridge sent comes to its end.
LEMMA ResolveLedger ==
  ASSUME TypeInv, BooksInv, LedgerInv, NEW p \in store.packets, NoTx, Resolve(p)
  PROVE  LedgerInv'
<1>1. /\ Books(store, remote, {}) /\ Numbered(store) /\ store \in Stores
      /\ tx'.kind = "resolve" /\ tx'.packet = p /\ tx'.before = store /\ ~ NoTx'
      /\ \/ AckSuccess(p) /\ p.state = "result"
         \/ HandlePacketFail(p) /\ p.state # "result"
  BY DEF BooksInv, LedgerInv, TypeInv, Resolve, IbcPacketAck, IbcPacketTimeout, TryGetAckError,
         NoTx, Idle
<1>2. p.nft \in Nfts
  BY <1>1 DEF Stores
<1>3. PICK st, W : st = store' /\ W = Waiting'
  OBVIOUS
<1>4. /\ Settled'.transfers = View(store).transfers \ {TransferOf(p)}
      /\ Settled'.sent = View(store).sent /\ Settled'.open = View(store).open
      /\ \A n \in Nfts : Settled'.place[n] =
           IF n = p.nft THEN Rests(store, p) ELSE PlaceIn(store, n)
  BY <1>1 DEF Settled, SettledPlace, View
<1>5. /\ st.packets = store.packets \ {p} /\ st.nextSeq = store.nextSeq /\ st.po = store.po
      /\ st.owner = store.owner /\ st.given = store.given
      /\ \A n \in Nfts : n # p.nft => st.outgoing[n] = store.outgoing[n]
      /\ p.state = "result" => st.outgoing = store.outgoing
  <2>1. CASE HandlePacketFail(p) /\ p.state # "result"
    BY <1>1, <1>2, <1>3, <2>1 DEF HandlePacketFail, Stores
  <2>2. CASE AckSuccess(p) /\ p.state = "result"
    <3>1. PICK su : su = [store EXCEPT !.packets = @ \ {p}]
      OBVIOUS
    <3>2. st = su \/ st = [su EXCEPT !.incoming[p.nft] = NoChannel, !.metadata = @ \ {p.nft}]
      BY <1>3, <2>2, <3>1 DEF AckSuccess, Forget
    <3>3. /\ su.packets = store.packets \ {p} /\ su.nextSeq = store.nextSeq
          /\ su.po = store.po /\ su.owner = store.owner /\ su.outgoing = store.outgoing
          /\ su.given = store.given
      BY <1>1, <3>1 DEF Stores
    <3>4. /\ st.packets = su.packets /\ st.nextSeq = su.nextSeq /\ st.po = su.po
          /\ st.owner = su.owner /\ st.outgoing = su.outgoing /\ st.given = su.given
      <4>1. su \in Stores
        BY <1>1, <3>1 DEF Stores
      <4> QED
        BY <3>2, <4>1 DEF Stores
    <3> QED
      BY <2>2, <3>3, <3>4
  <2> QED
    BY <1>1, <2>1, <2>2
<1>6. Numbered(st)
  BY <1>1, <1>5 DEF Numbered
<1>7. /\ View(st).transfers = Settled'.transfers /\ View(st).sent = Settled'.sent
      /\ View(st).open = Settled'.open
  BY <1>1, <1>4, <1>5, OneLess DEF View
<1>8. \A n \in Nfts : n # p.nft => PlaceIn(st, n) = Settled'.place[n]
  BY <1>4, <1>5 DEF PlaceIn
<1>9. /\ \/ PlaceIn(st, p.nft) = Settled'.place[p.nft]
         \/ \E m \in W : Giving(st, m, p.nft)'
      /\ \A m \in W : Says(m)'
  <2>1. ASSUME NEW m, m = AckCallback
        PROVE  Says(m)'
    BY <2>1 DEF Says, AckCallback
  <2>2. CASE HandlePacketFail(p) /\ p.state # "result"
    <3>1. PICK m : m = TransferNft(p.nft, p.sender)
      OBVIOUS
    <3>2. m.op = "transfer" /\ m.nft = p.nft /\ m.to = p.sender
      BY <3>1 DEF TransferNft
    <3>3. m \in W /\ \A w \in W : w = m \/ w = AckCallback
      <4>1. PICK s : s = <<m>> /\ stack' = s \o Notify(p)
        BY <2>2, <3>1 DEF HandlePacketFail
      <4>2. Sorted(s, 1, 1) /\ Of(s) = {m}
        BY <3>2, <4>1, EndingFront
      <4> QED
        BY <1>3, <4>1, <4>2, EndingSorted DEF Waiting
    <3>4. Giving(st, m, p.nft)'
      BY <1>1, <3>2 DEF Giving, Gives
    <3>5. Says(m)'
      BY <1>1, <1>2, <1>4, <2>2, <3>2 DEF Says, Rests
    <3> QED
      BY <2>1, <3>3, <3>4, <3>5
  <2>3. CASE AckSuccess(p) /\ p.state = "result" /\ p.nft.class = p.channel
    <3>1. PICK m : m = BurnNft(p.nft)
      OBVIOUS
    <3>2. m.op = "burn" /\ m.nft = p.nft
      BY <3>1 DEF BurnNft
    <3>3. m \in W /\ \A w \in W : w = m \/ w = AckCallback
      <4>1. PICK s : s = <<m>> /\ stack' = s \o Notify(p)
        BY <1>1, <2>3, <3>1, ReturnedHere DEF AckSuccess
      <4>2. Sorted(s, 1, 1) /\ Of(s) = {m}
        BY <3>2, <4>1, EndingFront
      <4> QED
        BY <1>3, <4>1, <4>2, EndingSorted DEF Waiting
    <3>4. Giving(st, m, p.nft)'
      BY <1>1, <3>2 DEF Giving, Burns
    <3>5. Says(m)'
      BY <1>1, <1>2, <1>4, <2>3, <3>2 DEF Says, Rests
    <3> QED
      BY <2>1, <3>3, <3>4, <3>5
  <2>4. CASE AckSuccess(p) /\ p.state = "result" /\ p.nft.class # p.channel
    <3>1. PlaceIn(st, p.nft) = Settled'.place[p.nft]
      BY <1>2, <1>4, <1>5, <2>4 DEF PlaceIn, Rests
    <3>2. \A w \in W : w = AckCallback
      <4>1. PICK s : s = <<>> /\ stack' = s \o Notify(p)
        BY <1>1, <2>4, ReturnedHere DEF AckSuccess
      <4>2. Sorted(s, 1, 1) /\ Of(s) = {}
        BY <4>1, NoMsgs, OfNone DEF Sorted
      <4> QED
        BY <1>3, <4>1, <4>2, EndingSorted DEF Waiting
    <3> QED
      BY <2>1, <3>1, <3>2
  <2> QED
    BY <1>1, <2>2, <2>3, <2>4
<1>10. Toward(st, W)'
  BY <1>7, <1>8, <1>9 DEF Toward
<1>11. Fitting(W)'
  BY <1>1 DEF Fitting
<1> QED
  BY <1>1, <1>3, <1>6, <1>9, <1>10, <1>11, StartLedger

\* The other chain answers, the contract is migrated, or a user or another chain does
\* something.
LEMMA IdleLedger ==
  ASSUME TypeInv, LedgerInv,
         \/ \E p \in store.packets : RemoteAnswers(p)
         \/ \E pauser, proxies : Migrate(pauser, proxies)
         \/ \E nft, to : UserTransfer(nft, to)
         \/ \E nft : UserBurn(nft) \/ RemoteReleases(nft)
  PROVE  LedgerInv'
<1>1. NoTx /\ NoTx' /\ Numbered(store) /\ store \in Stores
  BY DEF RemoteAnswers, Migrate, UserTransfer, UserBurn, RemoteReleases, LedgerInv, TypeInv,
         NoTx
<1>2. ASSUME NEW p \in store.packets, RemoteAnswers(p)
      PROVE  Numbered(store')
  <2>1. PICK answer, q : q = [p EXCEPT !.state = answer] /\
          store' = [store EXCEPT !.packets = (@ \ {p}) \cup {[p EXCEPT !.state = answer]}]
    BY <1>2 DEF RemoteAnswers
  <2>2. store'.packets = (store.packets \ {p}) \cup {q} /\ store'.nextSeq = store.nextSeq
    BY <1>1, <2>1 DEF Stores
  <2>3. q.seq = p.seq
    BY <1>1, <2>1 DEF Stores
  <2> QED
    BY <1>1, <2>2, <2>3 DEF Numbered
<1>3. ASSUME \/ \E pauser, proxies : Migrate(pauser, proxies)
             \/ \E nft, to : UserTransfer(nft, to)
             \/ \E nft : UserBurn(nft) \/ RemoteReleases(nft)
      PROVE  Numbered(store')
  <2>1. store'.packets = store.packets /\ store'.nextSeq = store.nextSeq
    BY <1>1, <1>3 DEF Migrate, UserTransfer, UserBurn, RemoteReleases, HandedTo, Stores
  <2> QED
    BY <1>1, <2>1 DEF Numbered
<1> QED
  BY <1>1, <1>2, <1>3 DEF LedgerInv

\* A transaction is over.
LEMMA CommitLedger ==
  ASSUME LedgerInv, Commit
  PROVE  LedgerInv'
<1>1. ~ NoTx /\ NoTx' /\ store' = store
  BY DEF Commit, NoTx
<1>2. Numbered(store)
  BY <1>1 DEF LedgerInv, Undone, LedgerLive
<1> QED
  BY <1>1, <1>2 DEF LedgerInv

\* No step loses the ledger.
LEMMA NextLedger ==
  ASSUME TypeInv, ReceiveInv, ResolveInv, BooksInv, LedgerInv, [Next]_vars
  PROVE  LedgerInv'
<1>1. CASE UNCHANGED vars
  <2>1. store' = store /\ stack' = stack /\ tx' = tx
    BY <1>1 DEF vars
  <2>2. Waiting' = Waiting
    BY <2>1 DEF Waiting
  <2>3. /\ Settled' = Settled /\ \A l : Goal(l)' <=> Goal(l)
        /\ \A m : Says(m)' <=> Says(m)
        /\ \A n : tx.kind = "receive" => (Fits(n)' <=> Fits(n))
    BY <2>1, SameSettled
  <2>4. \A st, W : Toward(st, W)' <=> Toward(st, W)
    BY <2>1, <2>3 DEF Toward, Giving, Leaving
  <2>5. \A W : Fitting(W)' <=> Fitting(W)
    BY <2>1, <2>3 DEF Fitting, ComesBack, Gives
  <2>6. LedgerLive' <=> LedgerLive
    <3>1. PICK st, W : st = store /\ W = Waiting
      OBVIOUS
    <3>2. (IF Active(W) THEN Toward(st, W) ELSE Goal(View(st)))'
          <=> (IF Active(W) THEN Toward(st, W) ELSE Goal(View(st)))
      BY <2>3, <2>4
    <3> QED
      BY <2>1, <2>2, <2>3, <2>5, <3>1, <3>2 DEF LedgerLive
  <2> QED
    BY <2>1, <2>6 DEF LedgerInv, NoTx, Undone
<1>2. ASSUME NEW nft \in Nfts, NEW via, NEW channel \in Channels, NEW callback \in BOOLEAN,
             UserSend(nft, via, channel, callback)
      PROVE  LedgerInv'
  BY <1>2, UserSendLedger
<1>3. ASSUME NEW packet \in PacketsIn, RecvPacket(packet)
      PROVE  LedgerInv'
  BY <1>3, RecvLedger
<1>4. ASSUME NEW p \in store.packets, NoTx, Resolve(p)
      PROVE  LedgerInv'
  BY <1>4, ResolveLedger
<1>5. CASE \/ \E p \in store.packets : RemoteAnswers(p)
           \/ \E pauser, proxies : Migrate(pauser, proxies)
           \/ \E nft, to : UserTransfer(nft, to)
           \/ \E nft : UserBurn(nft) \/ RemoteReleases(nft)
  BY <1>5, IdleLedger
<1> QED
  BY <1>1, <1>2, <1>3, <1>4, <1>5, ContinueLedger, CommitLedger DEF Next

-----------------------------------------------------------------------------
(* The ledger at all times.                                                *)

\* The packet that ends is one that the other chain has answered.
PacketInv ==
  tx.kind = "resolve" => tx.packet \in tx.before.packets /\ tx.packet.state # "sent"

\* No step makes it another.
LEMMA NextPacket ==
  ASSUME TypeInv, PacketInv, [Next]_vars
  PROVE  PacketInv'
<1>1. CASE UNCHANGED vars
  BY <1>1 DEF vars, PacketInv
<1>2. ASSUME NEW p \in store.packets, Resolve(p)
      PROVE  PacketInv'
  BY <1>2 DEF Resolve, IbcPacketAck, IbcPacketTimeout, Acks, PacketInv
<1>3. CASE Continue
  <2>1. /\ stack # <<>> /\ ~ NoTx /\ tx'.kind = tx.kind /\ tx'.before = tx.before
        /\ TxOK
    BY <1>3, ContinueKind, TxKinds DEF Continue, TypeInv
  <2>2. tx' = tx \/ \E r \in Results : tx' = [tx EXCEPT !.result = r]
    BY <1>3, ContinueCases, FailedFacts DEF Done, ReplySuccess, Results
  <2>3. tx.kind # "send" => tx'.packet = tx.packet
    BY <2>1, <2>2 DEF TxOK, NoTx, Idle
  <2> QED
    BY <2>1, <2>3 DEF PacketInv
<1>4. CASE \/ \E nft, via, channel, callback : UserSend(nft, via, channel, callback)
           \/ \E packet : RecvPacket(packet)
           \/ Commit
  BY <1>4 DEF UserSend, RecvPacket, Receive, Commit, Idle, PacketInv
<1>5. CASE \/ \E p : RemoteAnswers(p)
           \/ \E pauser, proxies : Migrate(pauser, proxies)
           \/ \E nft, to : UserTransfer(nft, to)
           \/ \E nft : UserBurn(nft) \/ RemoteReleases(nft)
  BY <1>5 DEF RemoteAnswers, Migrate, UserTransfer, UserBurn, RemoteReleases, PacketInv
<1> QED
  BY <1>1, <1>2, <1>3, <1>4, <1>5 DEF Next

\* Everything that holds at all times.
LedgerProofInv ==
  TypeInv /\ ReceiveInv /\ ResolveInv /\ BooksInv /\ LedgerInv /\ PacketInv

\* They do.
LEMMA LedgerAlways ==
  ASSUME ~ ResendsRedeemed
  PROVE  Spec => []LedgerProofInv
<1>1. Init => LedgerProofInv
  <2> SUFFICES ASSUME Init
               PROVE  LedgerProofInv
    OBVIOUS
  <2>1. ReceiveInv /\ ResolveInv /\ PacketInv /\ NoTx
    BY DEF Init, ReceiveInv, ResolveInv, PacketInv, Idle, NoTx
  <2>2. store.packets = {}
    BY DEF Init
  <2>3. LedgerInv
    BY <2>1, <2>2 DEF LedgerInv, Numbered
  <2> QED
    BY <2>1, <2>3, InitTypes, InitBooks DEF LedgerProofInv
<1>2. ASSUME LedgerProofInv, [Next]_vars
      PROVE  LedgerProofInv'
  BY <1>2, NextTypes, NextReceive, NextResolve, NextBooks, NextLedger, NextPacket
  DEF LedgerProofInv
<1> QED
  BY <1>1, <1>2, PTL DEF Spec

-----------------------------------------------------------------------------
(* Every step is one of the ledger.                                        *)

\* What is committed at first is a ledger at its beginning.
LEMMA InitStep == Init => Ledger!Init
<1> SUFFICES ASSUME Init
             PROVE  Ledger!Init
  OBVIOUS
<1>1. PICK owner \in [Tokens -> Users], pauser \in {Hook, NoPauser}, proxies \in Proxies :
        /\ store.owner = [n \in Nfts |-> IF n.class = Home THEN owner[n.token] ELSE NoOne]
        /\ store.packets = {} /\ store.nextSeq = 1 /\ store.po = SetPauser(pauser)
  BY DEF Init
<1>2. Committed = store
  BY DEF Init, Committed, NoTx
<1>3. \A n \in Nfts : PlaceIn(store, n) = store.owner[n]
  <2> SUFFICES ASSUME NEW n \in Nfts
               PROVE  store.owner[n] # Ics721
    BY DEF PlaceIn
  <2>1. n.token \in Tokens
    BY DEF Nfts
  <2> QED
    BY <1>1, <2>1, NamesAssumption DEF Accounts
<1>4. Nfts = Ledger!Nfts
  BY DEF Nfts, Classes, Ledger!Nfts
<1>5. [n \in Nfts |-> PlaceIn(store, n)] =
        [n \in Ledger!Nfts |-> IF n.class = Home THEN owner[n.token] ELSE NoOne]
  BY <1>1, <1>3, <1>4
<1>6. {TransferOf(p) : p \in store.packets} = {} /\ store.nextSeq - 1 = 0
  BY <1>1
<1>7. ~ store.po.paused
  BY <1>1 DEF SetPauser
<1> QED
  BY <1>2, <1>5, <1>6, <1>7 DEF Ledger!Init

\* A user sends an NFT.
LEMMA SendStep ==
  ASSUME NEW l, NEW k, l = View(Committed), k = View(Committed)',
         NEW nft \in Nfts, NEW user \in Users, NEW channel \in Channels,
         l.open, l.place[nft] = user, k = Ledger!Departed(l, nft, user, channel)
  PROVE  Ledger!Next \/ k = l
<1>1. Ledger!Send(nft, channel)
  BY DEF View, Ledger!Send
<1>2. nft \in Ledger!Nfts
  BY DEF Nfts, Classes, Ledger!Nfts
<1> QED
  BY <1>1, <1>2 DEF View, Ledger!Next

\* A user hands an NFT on, or burns it.
LEMMA GiveStep ==
  ASSUME NEW l, NEW k, l = View(Committed), k = View(Committed)',
         NEW nft \in Nfts, NEW where \in Accounts \cup {NoOne}, l.place[nft] \in Users,
         k = [l EXCEPT !.place = Ledger!Moved(@, {nft}, where)]
  PROVE  Ledger!Next \/ k = l
<1>1. Ledger!Give(nft, where)
  BY DEF View, Ledger!Give
<1>2. nft \in Ledger!Nfts /\ where \in Ledger!Holders \cup {NoOne}
  BY DEF Nfts, Classes, Ledger!Nfts, Ledger!Holders, Accounts
<1> QED
  BY <1>1, <1>2 DEF View, Ledger!Next

\* An NFT can come in by a channel.
CanCome(l, n, class, channel) ==
  IF class = channel
  THEN l.place[n] = NoOne
  ELSE /\ l.place[n] = channel
       /\ \A t \in l.transfers : t.nft = n /\ t.channel = channel => t.state = "arrived"

\* NFTs of one class come in by it.
LEMMA ReceiveStep ==
  ASSUME NEW l, NEW k, l = View(Committed), k = View(Committed)',
         NEW channel \in Channels, NEW class \in Classes,
         NEW tokens \in (SUBSET Tokens) \ {{}}, NEW receiver \in Accounts,
         NEW nfts, nfts = [class: {class}, token: tokens], l.open,
         \A n \in nfts : CanCome(l, n, class, channel),
         k \in Ledger!HookActs([l EXCEPT !.place = Ledger!Moved(@, nfts, receiver)])
  PROVE  Ledger!Next \/ k = l
<1>1. Ledger!Receive(channel, class, tokens, receiver)
  BY DEF CanCome, View, Ledger!Receive, Ledger!Abroad
<1> QED
  BY <1>1 DEF View, Ledger!Next, Classes, Ledger!Holders, Accounts

\* A transfer is settled.
LEMMA SettleStep ==
  ASSUME NEW l, NEW k, l = View(Committed), k = View(Committed)',
         NEW t \in l.transfers, NEW state \in {"arrived", "failed"}, t.state = "sent",
         k = [l EXCEPT !.transfers = (@ \ {t}) \cup {[t EXCEPT !.state = state]}]
  PROVE  Ledger!Next \/ k = l
<1>1. Ledger!Settle(t, state)
  BY DEF View, Ledger!Settle
<1> QED
  BY <1>1 DEF Ledger!Next, View

\* It ends.
LEMMA ResolveStep ==
  ASSUME NEW l, NEW k, l = View(Committed), k = View(Committed)',
         NEW t \in l.transfers, t.state # "sent",
         NEW where,
         where = CASE t.state = "failed" -> t.sender
                   [] t.state = "arrived" /\ t.nft.class = t.channel -> NoOne
                   [] OTHER -> l.place[t.nft],
         NEW settled,
         settled = [l EXCEPT !.place = Ledger!Moved(@, {t.nft}, where), !.transfers = @ \ {t}],
         k \in Ledger!HookActs(settled) \cup {[settled EXCEPT !.open = FALSE]}
  PROVE  Ledger!Next \/ k = l
<1>1. Ledger!Resolve(t)
  BY DEF View, Ledger!Resolve
<1> QED
  BY <1>1 DEF Ledger!Next, View

\* The bridge is opened.
LEMMA MigrateStep ==
  ASSUME NEW l, NEW k, l = View(Committed), k = View(Committed)',
         k = [l EXCEPT !.open = TRUE]
  PROVE  Ledger!Next \/ k = l
<1>1. Ledger!Migrate
  BY DEF View, Ledger!Migrate
<1> QED
  BY <1>1 DEF View, Ledger!Next

\* The other chain's answer settles a transfer.
LEMMA AnswersStep ==
  ASSUME TypeInv, LedgerInv, NEW p \in store.packets, RemoteAnswers(p)
  PROVE  Ledger!Next \/ View(Committed)' = View(Committed)
<1>1. /\ NoTx /\ NoTx' /\ Numbered(store) /\ store \in Stores /\ p.state = "sent"
      /\ Committed = store /\ Committed' = store'
  BY DEF RemoteAnswers, LedgerInv, TypeInv, NoTx, Committed
<1>2. PICK answer \in Acks \cup {"timeout"} :
        store' = [store EXCEPT !.packets = (@ \ {p}) \cup {[p EXCEPT !.state = answer]}]
  BY DEF RemoteAnswers
<1>3. PICK q : q = [p EXCEPT !.state = answer]
  OBVIOUS
<1>4. /\ store'.packets = (store.packets \ {p}) \cup {q} /\ store'.nextSeq = store.nextSeq
      /\ store'.owner = store.owner /\ store'.outgoing = store.outgoing
      /\ store'.given = store.given /\ store'.po = store.po
  BY <1>1, <1>2, <1>3 DEF Stores
<1>5. PICK state, t : state = (IF answer = "result" THEN "arrived" ELSE "failed")
                      /\ t = TransferOf(p)
  OBVIOUS
<1>6. TransferOf(q) = [t EXCEPT !.state = state]
  <2>1. /\ q.seq = p.seq /\ q.nft = p.nft /\ q.channel = p.channel /\ q.sender = p.sender
        /\ q.state = answer
    BY <1>1, <1>2, <1>3 DEF Stores
  <2>2. EndOf(q) = state
    BY <1>2, <1>3, <1>5, <2>1 DEF EndOf, Acks
  <2> QED
    BY <1>5, <2>1, <2>2 DEF TransferOf
<1>7. PICK l, k : l = View(Committed) /\ k = View(Committed)'
  OBVIOUS
<1>8. /\ l.place = [n \in Nfts |-> PlaceIn(store, n)]
      /\ l.transfers = {TransferOf(r) : r \in store.packets}
      /\ l.sent = store.nextSeq - 1 /\ l.open = ~ store.po.paused
  BY <1>1, <1>7 DEF View
<1>9. k.place = l.place /\ k.sent = l.sent /\ k.open = l.open
  BY <1>1, <1>4, <1>7, <1>8 DEF View, PlaceIn
<1>10. k.transfers = (l.transfers \ {t}) \cup {TransferOf(q)}
  <2>1. k.transfers = {TransferOf(r) : r \in (store.packets \ {p}) \cup {q}}
    BY <1>1, <1>4, <1>7 DEF View
  <2>2. {TransferOf(r) : r \in store.packets \ {p}} = l.transfers \ {t}
    BY <1>1, <1>5, <1>8, OneLess
  <2> QED
    BY <2>1, <2>2
<1>11. /\ l = LedgerOf(l.place, l.transfers, l.sent, l.open)
       /\ k = LedgerOf(k.place, k.transfers, k.sent, k.open)
  BY <1>1, <1>7 DEF View, LedgerOf
<1>12. k = [l EXCEPT !.transfers = (@ \ {t}) \cup {[t EXCEPT !.state = state]}]
  BY <1>6, <1>9, <1>10, <1>11, EditTransfers
<1>13. t \in l.transfers /\ t.state = "sent" /\ state \in {"arrived", "failed"}
  BY <1>1, <1>5, <1>8 DEF TransferOf, EndOf
<1> QED
  BY <1>7, <1>12, <1>13, SettleStep

\* A migration opens the bridge.
LEMMA MigrationStep ==
  ASSUME TypeInv, NEW pauser, NEW proxies, Migrate(pauser, proxies)
  PROVE  Ledger!Next \/ View(Committed)' = View(Committed)
<1>1. store \in Stores /\ Committed = store /\ Committed' = store'
  BY DEF Migrate, TypeInv, NoTx, Committed
<1>2. /\ store'.packets = store.packets /\ store'.nextSeq = store.nextSeq
      /\ store'.owner = store.owner /\ store'.outgoing = store.outgoing
      /\ store'.given = store.given /\ store'.po = SetPauser(pauser)
  BY <1>1 DEF Stores, Migrate
<1>3. PICK l, k : l = View(Committed) /\ k = View(Committed)'
  OBVIOUS
<1>4. k.place = l.place /\ k.transfers = l.transfers /\ k.sent = l.sent /\ k.open = TRUE
  <2>1. k.place = l.place /\ k.transfers = l.transfers /\ k.sent = l.sent
    BY <1>1, <1>2, <1>3 DEF View, PlaceIn
  <2>2. ~ store'.po.paused
    BY <1>2 DEF SetPauser
  <2>3. k.open = ~ store'.po.paused
    BY <1>1, <1>3 DEF View
  <2> QED
    BY <2>1, <2>2, <2>3
<1>5. /\ l = LedgerOf(l.place, l.transfers, l.sent, l.open)
      /\ k = LedgerOf(k.place, k.transfers, k.sent, k.open)
  BY <1>1, <1>3 DEF View, LedgerOf
<1>6. k = [l EXCEPT !.open = TRUE]
  BY <1>4, <1>5, EditOpen
<1> QED
  BY <1>3, <1>6, MigrateStep

\* An NFT that a user has is somewhere else.
LEMMA PlaceStep ==
  ASSUME TypeInv, NoTx, tx' = tx, NEW nft \in Nfts, store.owner[nft] \in Users,
         NEW where \in Accounts \cup {NoOne},
         NEW G, GivenBut(store, G, nft), where = Ics721 => nft \in G,
         store' = [store EXCEPT !.owner[nft] = where, !.given = G]
  PROVE  Ledger!Next \/ View(Committed)' = View(Committed)
<1>1. store \in Stores /\ Committed = store /\ Committed' = store'
  BY DEF TypeInv, NoTx, Committed
<1>2. /\ store'.owner[nft] = where
      /\ \A n \in Nfts : n # nft => store'.owner[n] = store.owner[n]
      /\ store'.given = G /\ store'.outgoing = store.outgoing
      /\ store'.packets = store.packets /\ store'.nextSeq = store.nextSeq
      /\ store'.po = store.po
  BY <1>1 DEF Stores
<1>3. PICK l, k : l = View(Committed) /\ k = View(Committed)'
  OBVIOUS
<1>4. l.place[nft] \in Users
  <2>1. store.owner[nft] # Ics721
    BY Names DEF Senders
  <2> QED
    BY <1>1, <1>3, <2>1 DEF View, PlaceIn
<1>5. k.place = Ledger!Moved(l.place, {nft}, where)
  <2>1. \A n \in Nfts : PlaceIn(store', n) = IF n \in {nft} THEN where ELSE PlaceIn(store, n)
    BY <1>2 DEF PlaceIn, GivenBut
  <2>2. /\ k.place = [n \in Nfts |-> PlaceIn(store', n)]
        /\ \A n \in Nfts : l.place[n] = PlaceIn(store, n)
    BY <1>1, <1>3 DEF View
  <2> QED
    BY <2>1, <2>2 DEF Ledger!Moved, Ledger!Nfts, Nfts, Classes
<1>6. k.transfers = l.transfers /\ k.sent = l.sent /\ k.open = l.open
  BY <1>1, <1>2, <1>3 DEF View
<1>7. /\ l = LedgerOf(l.place, l.transfers, l.sent, l.open)
      /\ k = LedgerOf(k.place, k.transfers, k.sent, k.open)
  BY <1>1, <1>3 DEF View, LedgerOf
<1>8. k = [l EXCEPT !.place = Ledger!Moved(@, {nft}, where)]
  <2>1. PICK x : x = Ledger!Moved(l.place, {nft}, where)
    OBVIOUS
  <2>2. [l EXCEPT !.place = Ledger!Moved(@, {nft}, where)] = [l EXCEPT !.place = x]
    BY <2>1
  <2>3. [l EXCEPT !.place = x] = LedgerOf(x, l.transfers, l.sent, l.open)
    BY <1>7, EditPlace
  <2> QED
    BY <1>5, <1>6, <1>7, <2>1, <2>2, <2>3
<1> QED
  BY ONLY <1>3, <1>4, <1>8, GiveStep, nft \in Nfts, where \in Accounts \cup {NoOne}

\* A user hands one on, or burns it.
LEMMA GivesStep ==
  ASSUME TypeInv, NEW nft \in Nfts,
         (\E to \in Accounts : UserTransfer(nft, to)) \/ UserBurn(nft)
  PROVE  Ledger!Next \/ View(Committed)' = View(Committed)
<1>1. NoTx /\ tx' = tx /\ store.owner[nft] \in Users /\ store \in Stores
  BY DEF UserTransfer, UserBurn, TypeInv
<1>2. ASSUME NEW to \in Accounts, UserTransfer(nft, to)
      PROVE  Ledger!Next \/ View(Committed)' = View(Committed)
  <2>1. PICK G : G = IF to = Ics721 THEN store.given \cup {nft} ELSE store.given
    OBVIOUS
  <2>2. /\ store' = [store EXCEPT !.owner[nft] = to, !.given = G]
        /\ GivenBut(store, G, nft) /\ (to = Ics721 => nft \in G)
    BY <1>2, <2>1 DEF UserTransfer, HandedTo, GivenBut
  <2> QED
    BY <1>1, <2>2, PlaceStep
<1>3. CASE UserBurn(nft)
  <2>1. PICK G : G = store.given
    OBVIOUS
  <2>2. /\ store' = [store EXCEPT !.owner[nft] = NoOne, !.given = G]
        /\ GivenBut(store, G, nft) /\ NoOne # Ics721
    BY <1>1, <1>3, <2>1, OwnerOnly, Names DEF UserBurn, GivenBut
  <2> QED
    BY <1>1, <2>2, PlaceStep
<1> QED
  BY <1>2, <1>3

\* A send that is over.
LEMMA SendOver ==
  ASSUME TypeInv, LedgerInv, ~ NoTx, Commit, tx.kind = "send"
  PROVE  Ledger!Next \/ View(Committed)' = View(Committed)
<1>1. PICK l, k : l = View(Committed) /\ k = View(Committed)'
  OBVIOUS
<1>2. l = View(tx.before) /\ k = View(store)
  <2>1. Committed = tx.before /\ Committed' = store
    BY DEF Commit, NoTx, Committed
  <2> QED
    BY <1>1, <2>1 DEF View
<1>3. CASE Undone
  BY <1>1, <1>2, <1>3 DEF Undone
<1>4. CASE LedgerLive
  <2>1. Goal(k)
    BY <1>2, <1>4, OfNone DEF LedgerLive, Commit, Waiting, Active
  <2>2. Settled = l
    BY <1>2 DEF Settled, SettledPlace, View
  <2>3. CASE k = l
    BY <1>1, <2>3
  <2>4. ASSUME NEW nft \in Nfts, NEW user \in Users, NEW channel \in Channels,
               l.open, l.place[nft] = user, k = Ledger!Departed(l, nft, user, channel)
        PROVE  Ledger!Next \/ k = l
    BY <1>1, <2>4, SendStep
  <2> QED
    BY <1>1, <2>1, <2>2, <2>3, <2>4 DEF Goal
<1> QED
  BY <1>3, <1>4 DEF LedgerInv

\* A receive that is over.
LEMMA ReceiveOver ==
  ASSUME TypeInv, ReceiveInv, LedgerInv, ~ NoTx, Commit, tx.kind = "receive"
  PROVE  Ledger!Next \/ View(Committed)' = View(Committed)
<1>1. PICK l, k : l = View(Committed) /\ k = View(Committed)'
  OBVIOUS
<1>2. l = View(tx.before) /\ k = View(store) /\ stack = <<>>
  <2>1. Committed = tx.before /\ Committed' = store /\ stack = <<>>
    BY DEF Commit, NoTx, Committed
  <2> QED
    BY <1>1, <2>1 DEF View
<1>3. CASE store = tx.before
  BY <1>1, <1>2, <1>3
<1>4. CASE ~ store.po.paused /\ LedgerLive
  <2>1. Waiting = {}
    BY <1>2, OfNone DEF Waiting
  <2>2. Goal(k) /\ Fitting({})
    BY <1>2, <1>4, <2>1 DEF LedgerLive, Active
  <2>3. PICK P, N, class, channel, receiver :
          /\ P = tx.packet /\ N = PacketNfts(P)
          /\ class = P.class /\ channel = P.channel /\ receiver = P.receiver
    OBVIOUS
  <2>4. P \in PacketsIn
    BY <2>3 DEF TypeInv, TxOK, NoTx, Idle
  <2>5. PICK tokens : tokens = {P.tokens[i] : i \in DOMAIN P.tokens}
    OBVIOUS
  <2>6. /\ class \in Classes /\ channel \in Channels /\ receiver \in Accounts
        /\ tokens \in (SUBSET Tokens) \ {{}}
    <3>1. P.tokens \in Seq(Tokens) /\ DOMAIN P.tokens = 1..Len(P.tokens)
      BY <2>4, PacketTokens
    <3>2. 1 \in DOMAIN P.tokens
      BY <2>4 DEF PacketsIn
    <3>3. \A i \in DOMAIN P.tokens : P.tokens[i] \in Tokens
      BY <3>1
    <3>4. tokens # {} /\ tokens \subseteq Tokens
      BY <2>5, <3>2, <3>3
    <3> QED
      BY <2>3, <2>4, <3>4 DEF PacketsIn
  <2>7. N = [class: {class}, token: tokens]
    <3>1. \A n : n \in N <=> \E i \in DOMAIN P.tokens :
                                n = [class |-> class, token |-> P.tokens[i]]
      BY <2>3 DEF PacketNfts, NftOf
    <3>2. \A n : n \in [class: {class}, token: tokens] <=>
                 \E t \in tokens : n = [class |-> class, token |-> t]
      OBVIOUS
    <3>3. \A n : n \in N <=> n \in [class: {class}, token: tokens]
      BY <2>5, <3>1, <3>2
    <3> QED
      BY <3>3
  <2>8. N \subseteq Nfts
    BY <2>6, <2>7 DEF Nfts
  <2>9. l.open
    BY <1>2, <2>2 DEF Fitting, View
  <2>10. ASSUME NEW n \in N
         PROVE  CanCome(l, n, class, channel)
    <3>1. Fits(n)
      BY <2>2, <2>3, <2>10 DEF Fitting
    <3>2. l.place[n] = PlaceIn(tx.before, n)
      BY <1>2, <2>8, <2>10 DEF View
    <3>3. \A t \in l.transfers : \E p \in tx.before.packets : t = TransferOf(p)
      BY <1>2 DEF View
    <3>4. \A p : TransferOf(p).nft = p.nft /\ TransferOf(p).channel = p.channel
                 /\ (p.state = "result" => TransferOf(p).state = "arrived")
      BY DEF TransferOf, EndOf
    <3> QED
      BY <2>3, <3>1, <3>2, <3>3, <3>4 DEF Fits, ComesBack, CanCome
  <2>11. Settled = [l EXCEPT !.place = Ledger!Moved(@, N, receiver)]
    <3>1. Ledger!Moved(l.place, N, receiver) = Settled.place
      <4>1. \A n \in Nfts : Settled.place[n] =
              IF n \in N THEN receiver ELSE l.place[n]
        BY <1>2, <2>3 DEF Settled, SettledPlace, View
      <4>2. Nfts = Ledger!Nfts
        BY DEF Nfts, Classes, Ledger!Nfts
      <4>3. Settled.place = [n \in Nfts |-> Settled.place[n]]
        BY DEF Settled
      <4> QED
        BY <4>1, <4>2, <4>3 DEF Ledger!Moved
    <3>2. Settled.transfers = l.transfers /\ Settled.sent = l.sent /\ Settled.open = l.open
      BY <1>2 DEF Settled
    <3>3. l = LedgerOf(l.place, l.transfers, l.sent, l.open)
      BY <1>2, ViewParts
    <3> QED
      BY <3>1, <3>2, <3>3, SettledParts, EditPlace
  <2>12. k \in Ledger!HookActs(Settled)
    <3>1. k # [Settled EXCEPT !.open = FALSE]
      <4>1. k.open = ~ store.po.paused
        BY <1>2 DEF View
      <4>2. [Settled EXCEPT !.open = FALSE].open = FALSE
        BY DEF Settled
      <4> QED
        BY <1>4, <4>1, <4>2
    <3> QED
      BY <2>2, <3>1 DEF Goal
  <2>13. k \in Ledger!HookActs([l EXCEPT !.place = Ledger!Moved(@, N, receiver)])
    BY <2>11, <2>12
  <2> QED
    <3>1. Ledger!Next \/ k = l
      BY ONLY <1>1, <2>6, <2>7, <2>9, <2>10, <2>13, ReceiveStep
    <3> QED
      BY ONLY <1>1, <3>1
<1> QED
  BY <1>2, <1>3, <1>4, SeqFacts DEF LedgerInv, Undone, ReceiveInv, InProgress, ErrorIfPaused

\* The end of a packet.
LEMMA ResolveOver ==
  ASSUME TypeInv, LedgerInv, PacketInv, ~ NoTx, Commit, tx.kind = "resolve"
  PROVE  Ledger!Next \/ View(Committed)' = View(Committed)
<1>1. PICK l, k, p, t :
        /\ l = View(Committed) /\ k = View(Committed)' /\ p = tx.packet /\ t = TransferOf(p)
  OBVIOUS
<1>2. l = View(tx.before) /\ k = View(store)
  <2>1. Committed = tx.before /\ Committed' = store
    BY DEF Commit, NoTx, Committed
  <2> QED
    BY <1>1, <2>1 DEF View
<1>3. p \in tx.before.packets /\ p.state # "sent" /\ tx.before \in Stores
  BY <1>1 DEF PacketInv, TypeInv, TxOK, NoTx, Idle
<1>4. p.nft \in Nfts
  BY <1>3 DEF Stores
<1>5. Goal(k)
  <2>1. LedgerLive
    BY DEF LedgerInv, Undone
  <2> QED
    BY <1>2, <2>1, OfNone DEF LedgerLive, Commit, Waiting, Active
<1>6. /\ t \in l.transfers /\ t.nft = p.nft /\ t.channel = p.channel /\ t.sender = p.sender
      /\ t.state = IF p.state = "result" THEN "arrived" ELSE "failed"
  <2>1. t \in l.transfers
    BY <1>1, <1>2, <1>3 DEF View
  <2>2. /\ t.nft = p.nft /\ t.channel = p.channel /\ t.sender = p.sender
        /\ t.state = EndOf(p)
    BY <1>1 DEF TransferOf
  <2>3. EndOf(p) = IF p.state = "result" THEN "arrived" ELSE "failed"
    BY <1>3 DEF EndOf
  <2> QED
    BY <2>1, <2>2, <2>3
<1>7. PICK where :
        where = CASE t.state = "failed" -> t.sender
                  [] t.state = "arrived" /\ t.nft.class = t.channel -> NoOne
                  [] OTHER -> l.place[t.nft]
  OBVIOUS
<1>8. where = Rests(tx.before, p)
  <2>1. l.place[p.nft] = PlaceIn(tx.before, p.nft)
    BY <1>2, <1>4 DEF View
  <2> QED
    BY <1>6, <1>7, <2>1 DEF Rests
<1>9. PICK x, y : x = Ledger!Moved(l.place, {t.nft}, where) /\ y = l.transfers \ {t}
  OBVIOUS
<1>10. Settled.place = x
  <2>1. \A n \in Nfts : Settled.place[n] = IF n = t.nft THEN where ELSE l.place[n]
    BY <1>1, <1>2, <1>6, <1>8 DEF Settled, SettledPlace, View
  <2>2. Nfts = Ledger!Nfts
    BY DEF Nfts, Classes, Ledger!Nfts
  <2>3. Settled.place = [n \in Nfts |-> Settled.place[n]]
    BY DEF Settled
  <2> QED
    BY <1>9, <2>1, <2>2, <2>3 DEF Ledger!Moved
<1>11. Settled.transfers = y /\ Settled.sent = l.sent /\ Settled.open = l.open
  BY <1>1, <1>2, <1>9 DEF Settled
<1>12. PICK settled, m :
         /\ settled = [l EXCEPT !.place = Ledger!Moved(@, {t.nft}, where), !.transfers = @ \ {t}]
         /\ m = [l EXCEPT !.place = x]
  OBVIOUS
<1>13. settled = Settled
  <2>1. l = LedgerOf(l.place, l.transfers, l.sent, l.open)
    BY <1>2, ViewParts
  <2>2. m = LedgerOf(x, l.transfers, l.sent, l.open)
    BY <1>12, <2>1, EditPlace
  <2>3. [m EXCEPT !.transfers = y] = LedgerOf(x, y, l.sent, l.open)
    BY <2>2, EditTransfers
  <2>4. settled = [m EXCEPT !.transfers = y]
    BY <1>9, <1>12, <2>2, Fields
  <2> QED
    BY <1>10, <1>11, <2>3, <2>4, SettledParts
<1>14. k \in Ledger!HookActs(settled) \cup {[settled EXCEPT !.open = FALSE]}
  BY <1>5, <1>13 DEF Goal
<1>15. t.state # "sent"
  BY <1>6
<1>16. Ledger!Next \/ k = l
  BY ONLY <1>1, <1>6, <1>7, <1>12, <1>14, <1>15, ResolveStep
<1> QED
  BY ONLY <1>1, <1>16

\* What is committed changes only when a transaction is over.
LEMMA CommittedStays ==
  ASSUME TypeInv,
         \/ UNCHANGED vars
         \/ \E nft, via, channel, callback : UserSend(nft, via, channel, callback)
         \/ \E packet : RecvPacket(packet)
         \/ \E p : NoTx /\ Resolve(p)
         \/ \E nft : RemoteReleases(nft)
         \/ Continue
  PROVE  View(Committed)' = View(Committed)
<1>1. Committed' = Committed
  <2>1. CASE UNCHANGED vars
    BY <2>1 DEF vars, Committed, NoTx
  <2>2. CASE \/ \E nft, via, channel, callback : UserSend(nft, via, channel, callback)
             \/ \E packet : RecvPacket(packet)
             \/ \E p : NoTx /\ Resolve(p)
    <3>1. NoTx /\ tx'.before = store /\ tx'.kind # "idle"
      BY <2>2 DEF UserSend, RecvPacket, Receive, Resolve
    <3> QED
      BY <3>1 DEF Committed, NoTx, Idle
  <2>3. CASE \E nft : RemoteReleases(nft)
    BY <2>3 DEF RemoteReleases, Committed, NoTx
  <2>4. CASE Continue
    <3>1. /\ ~ NoTx /\ tx'.kind = tx.kind /\ tx'.before = tx.before
          /\ tx.kind \in {"send", "receive", "resolve"}
      BY <2>4, ContinueKind, TxKinds DEF Continue, TypeInv
    <3>2. ~ NoTx'
      BY <3>1 DEF NoTx, Idle
    <3> QED
      BY <3>1, <3>2 DEF Committed
  <2> QED
    BY <2>1, <2>2, <2>4, <2>3
<1> QED
  BY <1>1 DEF View

\* A step is one of the ledger, or none.
LEMMA LedgerStep ==
  ASSUME LedgerProofInv, [Next]_vars
  PROVE  Ledger!Next \/ View(Committed)' = View(Committed)
<1> USE DEF LedgerProofInv
<1>1. CASE \/ UNCHANGED vars
           \/ \E nft, via, channel, callback : UserSend(nft, via, channel, callback)
           \/ \E packet : RecvPacket(packet)
           \/ \E p : NoTx /\ Resolve(p)
           \/ \E nft : RemoteReleases(nft)
           \/ Continue
  BY <1>1, CommittedStays
<1>2. ASSUME NEW p \in store.packets, RemoteAnswers(p)
      PROVE  Ledger!Next \/ View(Committed)' = View(Committed)
  BY <1>2, AnswersStep
<1>3. ASSUME NEW pauser, NEW proxies, Migrate(pauser, proxies)
      PROVE  Ledger!Next \/ View(Committed)' = View(Committed)
  BY <1>3, MigrationStep
<1>4. ASSUME NEW nft \in Nfts, (\E to \in Accounts : UserTransfer(nft, to)) \/ UserBurn(nft)
      PROVE  Ledger!Next \/ View(Committed)' = View(Committed)
  BY <1>4, GivesStep
<1>5. CASE Commit
  <2>1. ~ NoTx /\ tx.kind \in {"send", "receive", "resolve"}
    BY <1>5, TxKinds DEF Commit, TypeInv
  <2> QED
    BY <1>5, <2>1, SendOver, ReceiveOver, ResolveOver
<1> QED
  BY <1>1, <1>2, <1>3, <1>5, <1>4 DEF Next

\* Seen between its transactions, a bridge whose messages execute one by one is one whose
\* transactions are single steps: a transfer is made as a whole before the callback
\* contract acts, or not at all (ImplementsLedger).  A callback contract must not send on
\* an NFT while that is being redeemed.
THEOREM OneStepEach == ASSUME ~ ResendsRedeemed PROVE Spec => ImplementsLedger
<1>1. Init => Ledger!Init
  BY InitStep
<1>2. ASSUME LedgerProofInv, [Next]_vars
      PROVE  [Ledger!Next]_([place     |-> [n \in Nfts |-> PlaceIn(Committed, n)],
                             transfers |-> {TransferOf(p) : p \in Committed.packets},
                             sent      |-> Committed.nextSeq - 1,
                             open      |-> ~ Committed.po.paused])
  BY <1>2, LedgerStep DEF View
<1> QED
  BY <1>1, <1>2, LedgerAlways, PTL DEF Spec, ImplementsLedger, Ledger!Spec
=============================================================================
