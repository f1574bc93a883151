------------------------- MODULE PacketRules_proofs -------------------------
(***************************************************************************)
(* Packets of any number of tokens, with lists of uris and data of any     *)
(* length: which of them are received, and that every token of a packet    *)
(* that is arrives with what the packet says of it.                        *)
(***************************************************************************)
EXTENDS PacketRules, SequenceTheorems, TLAPS

-----------------------------------------------------------------------------
(* Lists and what is left of them.                                         *)

\* A sequence of bounded length is a sequence.
LEMMA SeqOfFacts ==
  ASSUME NEW S, NEW s
  PROVE  s \in SeqOf(S, MaxTokens) <=> s \in Seq(S) /\ Len(s) <= MaxTokens
<1>1. ASSUME s \in SeqOf(S, MaxTokens)
      PROVE  s \in Seq(S) /\ Len(s) <= MaxTokens
  <2>1. PICK m \in 0..MaxTokens : s \in [1..m -> S]
    BY <1>1 DEF SeqOf
  <2>2. m \in Nat
    BY <2>1, BoundAssumption
  <2>3. s \in Seq(S)
    BY <2>1, <2>2
  <2>4. Len(s) = m
    BY <2>1, <2>2, <2>3
  <2> QED
    BY <2>1, <2>3, <2>4
<1>2. ASSUME s \in Seq(S), Len(s) <= MaxTokens
      PROVE  s \in SeqOf(S, MaxTokens)
  <2>1. Len(s) \in Nat /\ s \in [1..Len(s) -> S]
    BY <1>2, LenProperties
  <2>2. Len(s) \in 0..MaxTokens
    BY <1>2, <2>1, BoundAssumption
  <2> QED
    BY <2>1, <2>2 DEF SeqOf
<1> QED
  BY <1>1, <1>2

\* r is what is left of s after k tokens.
Left(S, r, s, k) ==
  /\ r \in Seq(S) /\ Len(r) = Len(s) - k
  /\ \A i \in 1..(Len(s) - k) : r[i] = s[k + i]

\* One more is taken.
LEMMA LeftStep ==
  ASSUME NEW S, NEW r, NEW s \in Seq(S), NEW k \in Nat, Left(S, r, s, k), r # <<>>
  PROVE  k + 1 <= Len(s) /\ Head(r) = s[k + 1] /\ Left(S, Tail(r), s, k + 1)
<1>1. Len(r) \in Nat /\ Len(r) >= 1 /\ Len(s) \in Nat /\ Head(r) = r[1]
  BY EmptySeq DEF Left
<1>2. /\ Tail(r) \in Seq(S) /\ Len(Tail(r)) = Len(r) - 1
      /\ \A i \in 1..Len(Tail(r)) : Tail(r)[i] = r[i + 1]
  BY HeadTailProperties DEF Left
<1>3. k + 1 <= Len(s) /\ r[1] = s[k + 1]
  BY <1>1 DEF Left
<1>4. ASSUME NEW i \in 1..(Len(s) - (k + 1))
      PROVE  Tail(r)[i] = s[(k + 1) + i]
  <2>1. i \in 1..Len(Tail(r)) /\ i + 1 \in 1..(Len(s) - k) /\ k + (i + 1) = (k + 1) + i
    BY <1>1, <1>2 DEF Left
  <2>2. Tail(r)[i] = r[i + 1] /\ r[i + 1] = s[k + (i + 1)]
    BY <1>2, <2>1 DEF Left
  <2> QED
    BY <2>1, <2>2
<1>5. Len(Tail(r)) = Len(s) - (k + 1)
  BY <1>1, <1>2 DEF Left
<1> QED
  BY <1>1, <1>2, <1>3, <1>4, <1>5 DEF Left

\* The same of a list that may not be there.
LeftOpt(S, r, s, k) == IF s = None THEN r = None ELSE Left(S, r, s, k)

At(s, i) == IF s = None THEN None ELSE s[i]

\* One more is taken of it.
LEMMA LeftOptStep ==
  ASSUME NEW S, NEW r, NEW s, NEW k \in Nat,
         None \notin SeqOf(S, MaxTokens), s \in SeqOf(S, MaxTokens) \cup {None},
         LeftOpt(S, r, s, k), r # <<>>
  PROVE  /\ HeadOf(r) = At(s, k + 1) /\ LeftOpt(S, TailOf(r), s, k + 1)
         /\ s # None => k + 1 <= Len(s)
<1>1. CASE s = None
  BY <1>1 DEF LeftOpt, HeadOf, TailOf, At
<1>2. CASE s # None
  <2>1. s \in Seq(S) /\ Len(s) <= MaxTokens /\ Left(S, r, s, k)
    BY <1>2, SeqOfFacts DEF LeftOpt
  <2>2. k + 1 <= Len(s) /\ Head(r) = s[k + 1] /\ Left(S, Tail(r), s, k + 1)
    BY <2>1, LeftStep
  <2>3. r \in Seq(S) /\ Len(r) <= MaxTokens
    BY <2>1, LenProperties, BoundAssumption DEF Left
  <2>4. r # None
    BY <2>3, SeqOfFacts
  <2> QED
    BY <1>2, <2>2, <2>4 DEF LeftOpt, HeadOf, TailOf, At
<1> QED
  BY <1>1, <1>2

\* A list that is not there never ends.
LEMMA NoneEmpty ==
  ASSUME NEW S, None \notin SeqOf(S, MaxTokens)
  PROVE  None # <<>>
<1>1. <<>> \in Seq(S) /\ Len(<<>>) = 0
  BY EmptySeq
<1>2. <<>> \in SeqOf(S, MaxTokens)
  <2>1. Len(<<>>) <= MaxTokens
    BY <1>1, BoundAssumption
  <2> QED
    BY <1>1, <2>1, SeqOfFacts
<1> QED
  BY <1>2

-----------------------------------------------------------------------------
(* The inductive invariant.                                                *)

Size == Len(packet.tokenIds)
UriOf(i) == At(packet.tokenUris, i)
TokenOf(i) == [id |-> packet.tokenIds[i], uri |-> UriOf(i), data |-> DataOf(i)]
Creations == [id: TokenIds, uri: Uris \cup {None}, data: Data \cup {None}]
Books == [owner: {NoOne, User, Ics721}, outgoing: {NoChannel, Channel, OtherChannel},
          incoming: {NoChannel, Channel, OtherChannel}, data: Data \cup {None, OldData}]

Types ==
  /\ packet \in Packets /\ mintable \in BOOLEAN
  /\ before \in [TokenIds -> Tokens] /\ books \in [TokenIds -> Books]
  /\ redemptions \in Seq(TokenIds) /\ creations \in Seq(Creations)
  /\ Len(redemptions) <= Size /\ Len(creations) <= Size
  /\ executed \in Nat /\ executed <= Size
  /\ step \in {"validate", "sort", "redeem", "create", "ok", "error"}

\* Tokens that were sorted.
Taken == Len(redemptions) + Len(creations)

Sorted ==
  /\ Taken <= Size
  /\ redemptions # <<>> => \E i \in 1..Taken : SentOutHere(packet.tokenIds[i])
  /\ creations # <<>> => \E i \in 1..Taken : ~ SentOutHere(packet.tokenIds[i])
  /\ creations = <<>> =>
       \A i \in 1..Taken :
         redemptions[i] = packet.tokenIds[i] /\ SentOutHere(packet.tokenIds[i])
  /\ redemptions = <<>> =>
       \A i \in 1..Taken : creations[i] = TokenOf(i) /\ ~ SentOutHere(packet.tokenIds[i])

AllLeft ==
  /\ Left(TokenIds, rest.ids, packet.tokenIds, Taken)
  /\ LeftOpt(Uris, rest.uris, packet.tokenUris, Taken)
  /\ LeftOpt(Data, rest.data, packet.tokenData, Taken)

\* The first k tokens of the packet.
First(k) == {packet.tokenIds[i] : i \in 1..k}
Distinct(k) == \A i, j \in 1..k : packet.tokenIds[i] = packet.tokenIds[j] => i = j

Redeeming ==
  /\ Validate(packet) /\ Len(redemptions) = Size
  /\ \A i \in 1..Size : redemptions[i] = packet.tokenIds[i] /\ SentOutHere(packet.tokenIds[i])
  /\ Distinct(executed) \/ packet.receiver = Ics721
  /\ \A i \in 1..executed : before[packet.tokenIds[i]].owner = Ics721
  /\ \A id \in TokenIds :
       books[id] = IF id \in First(executed) THEN [before[id] EXCEPT !.owner = packet.receiver]
                                             ELSE before[id]

Creating ==
  /\ Validate(packet) /\ Len(creations) = Size
  /\ \A i \in 1..Size : creations[i] = TokenOf(i) /\ ~ SentOutHere(packet.tokenIds[i])
  /\ Distinct(executed)
  /\ \A i \in 1..executed :
       /\ mintable /\ before[packet.tokenIds[i]].owner = NoOne
       /\ books[packet.tokenIds[i]] =
            [before[packet.tokenIds[i]] EXCEPT !.owner = packet.receiver, !.data = DataOf(i)]
  /\ \A id \in TokenIds \ First(executed) : books[id] = before[id]

IInv ==
  /\ Types
  /\ step \in {"validate", "sort"} => books = before /\ executed = 0 /\ AllLeft /\ Sorted
  /\ step = "validate" => Taken = 0
  /\ step = "sort" => Validate(packet)
  /\ step = "redeem" => Redeeming
  /\ step = "create" => Creating
  /\ EveryTokenArrives /\ SuccessIffReceivable

-----------------------------------------------------------------------------
(* What a packet holds.                                                    *)

\* Its lists.
LEMMA PacketFacts ==
  ASSUME packet \in Packets
  PROVE  /\ packet.tokenIds \in Seq(TokenIds) /\ Size \in Nat /\ Size <= MaxTokens
         /\ DOMAIN packet.tokenIds = 1..Size
         /\ \A i \in 1..Size : packet.tokenIds[i] \in TokenIds
         /\ packet.tokenUris \in SeqOf(Uris, MaxTokens) \cup {None}
         /\ packet.tokenData \in SeqOf(Data, MaxTokens) \cup {None}
         /\ packet.receiver \in {User, Ics721}
<1>1. /\ packet.receiver \in {User, Ics721}
      /\ packet.tokenIds \in SeqOf(TokenIds, MaxTokens)
      /\ packet.tokenUris \in SeqOf(Uris, MaxTokens) \cup {None}
      /\ packet.tokenData \in SeqOf(Data, MaxTokens) \cup {None}
  BY DEF Packets, Optional
<1>2. packet.tokenIds \in Seq(TokenIds) /\ Len(packet.tokenIds) <= MaxTokens
  BY <1>1, SeqOfFacts
<1> QED
  BY <1>1, <1>2, LenProperties DEF Size

\* Its data, if the packet is valid.
LEMMA DataFacts ==
  ASSUME packet \in Packets, Validate(packet), NEW i \in 1..Size
  PROVE  DataOf(i) \in Data \cup {None}
<1>1. CASE packet.tokenData = None
  BY <1>1 DEF DataOf
<1>2. CASE packet.tokenData # None
  <2>1. packet.tokenData \in Seq(Data) /\ Len(packet.tokenData) = Size
    BY <1>2, PacketFacts, SeqOfFacts DEF Validate, SameLength, Size
  <2> QED
    BY <1>2, <2>1, ElementOfSeq DEF DataOf
<1> QED
  BY <1>1, <1>2

\* What the bridge has of a token.
LEMMA TokenFacts ==
  ASSUME before \in [TokenIds -> Tokens], NEW id \in TokenIds
  PROVE  before[id] \in Books
BY DEF Tokens, Books

\* Initially nothing is taken.
LEMMA InitIInv == Init => IInv
<1> SUFFICES ASSUME Init
             PROVE  IInv
  OBVIOUS
<1>1. /\ packet \in Packets /\ mintable \in BOOLEAN /\ before \in [TokenIds -> Tokens]
      /\ books = before /\ step = "validate" /\ redemptions = <<>> /\ creations = <<>>
      /\ executed = 0
  BY DEF Init
<1>2. /\ redemptions \in Seq(TokenIds) /\ creations \in Seq(Creations)
      /\ Len(redemptions) = 0 /\ Len(creations) = 0 /\ Taken = 0
  BY <1>1, EmptySeq DEF Taken
<1>3. Size \in Nat
  BY <1>1, PacketFacts
<1>4. books \in [TokenIds -> Books]
  BY <1>1, TokenFacts
<1>5. Types
  BY <1>1, <1>2, <1>3, <1>4 DEF Types
<1>6. AllLeft
  <2>1. ASSUME NEW S, NEW s \in Seq(S)
        PROVE  Left(S, s, s, 0)
    BY LenProperties DEF Left
  <2>2. /\ rest.ids = packet.tokenIds /\ rest.uris = packet.tokenUris
        /\ rest.data = packet.tokenData
    BY DEF Init
  <2>3. Left(TokenIds, rest.ids, packet.tokenIds, 0)
    BY <1>1, <2>1, <2>2, PacketFacts
  <2>4. LeftOpt(Uris, rest.uris, packet.tokenUris, 0)
    BY <1>1, <2>1, <2>2, PacketFacts, SeqOfFacts DEF LeftOpt
  <2>5. LeftOpt(Data, rest.data, packet.tokenData, 0)
    BY <1>1, <2>1, <2>2, PacketFacts, SeqOfFacts DEF LeftOpt
  <2> QED
    BY <1>2, <2>3, <2>4, <2>5 DEF AllLeft
<1>7. Sorted
  BY <1>1, <1>2, <1>3 DEF Sorted
<1> QED
  BY <1>1, <1>2, <1>5, <1>6, <1>7 DEF IInv, EveryTokenArrives, SuccessIffReceivable

-----------------------------------------------------------------------------
(* The steps.                                                              *)

\* A packet that is not valid cannot be received.
LEMMA StepValidate == IInv /\ ReceivePacket => IInv'
<1> SUFFICES ASSUME IInv, ReceivePacket
             PROVE  IInv'
  OBVIOUS
<1>1. /\ step = "validate" /\ step' = IF Validate(packet) THEN "sort" ELSE "error"
      /\ UNCHANGED <<packet, mintable, books, before, rest, redemptions, creations, executed>>
  BY DEF ReceivePacket
<1>2. Types' /\ AllLeft' /\ Sorted' /\ Taken' = Taken
  BY <1>1 DEF IInv, Types, AllLeft, Sorted, Taken, Size, SentOutHere, TokenOf, UriOf, DataOf
<1>3. ~ Validate(packet) => ~ Receivable
  BY DEF Validate, Receivable
<1>4. CASE Validate(packet)
  <2>1. step' = "sort" /\ Validate(packet)'
    BY <1>1, <1>4
  <2> QED
    BY <1>1, <1>2, <2>1 DEF IInv, EveryTokenArrives, SuccessIffReceivable
<1>5. CASE ~ Validate(packet)
  <2>1. step' = "error" /\ books' = before' /\ Receivable' = Receivable
    BY <1>1, <1>5 DEF IInv, Receivable, Distinguished, SentOutHere
  <2> QED
    BY <1>2, <1>3, <1>5, <2>1 DEF IInv, EveryTokenArrives, SuccessIffReceivable
<1> QED
  BY <1>4, <1>5

\* The next token is added to one of the lists.
LEMMA StepSort == IInv /\ SortToken => IInv'
<1> SUFFICES ASSUME IInv, SortToken
             PROVE  IInv'
  OBVIOUS
<1> DEFINE t == NextToken
<1>1. /\ step = "sort" /\ HasNext
      /\ rest' = [ids |-> Tail(rest.ids), uris |-> TailOf(rest.uris), data |-> TailOf(rest.data)]
      /\ UNCHANGED <<packet, mintable, books, before, executed, step>>
  BY DEF SortToken
<1>2. Types /\ AllLeft /\ Sorted /\ books = before /\ executed = 0 /\ Validate(packet)
  BY <1>1 DEF IInv
<1>3. /\ packet \in Packets /\ redemptions \in Seq(TokenIds) /\ creations \in Seq(Creations)
      /\ Len(redemptions) \in Nat /\ Len(creations) \in Nat /\ Taken \in Nat /\ Size \in Nat
  BY <1>2, PacketFacts, LenProperties DEF Types, Taken
<1>4. rest.ids # <<>> /\ rest.uris # <<>> /\ rest.data # <<>>
  BY <1>1 DEF HasNext
<1>5. /\ Taken + 1 <= Size /\ Head(rest.ids) = packet.tokenIds[Taken + 1]
      /\ Left(TokenIds, Tail(rest.ids), packet.tokenIds, Taken + 1)
  BY <1>2, <1>3, <1>4, PacketFacts, LeftStep DEF AllLeft, Size
<1>6. /\ HeadOf(rest.uris) = UriOf(Taken + 1)
      /\ LeftOpt(Uris, TailOf(rest.uris), packet.tokenUris, Taken + 1)
      /\ packet.tokenUris # None => Taken + 1 <= Len(packet.tokenUris)
  <2>1. /\ LeftOpt(Uris, rest.uris, packet.tokenUris, Taken) /\ None \notin SeqOf(Uris, MaxTokens)
        /\ packet.tokenUris \in SeqOf(Uris, MaxTokens) \cup {None}
    BY <1>2, <1>3, PacketFacts, NoneAssumption DEF AllLeft
  <2>2. Taken \in Nat /\ rest.uris # <<>>
    BY <1>3, <1>4
  <2>3. /\ HeadOf(rest.uris) = At(packet.tokenUris, Taken + 1)
        /\ LeftOpt(Uris, TailOf(rest.uris), packet.tokenUris, Taken + 1)
        /\ packet.tokenUris # None => Taken + 1 <= Len(packet.tokenUris)
    BY <2>1, <2>2, LeftOptStep
  <2> QED
    BY <2>3 DEF UriOf
<1>7. /\ HeadOf(rest.data) = DataOf(Taken + 1)
      /\ LeftOpt(Data, TailOf(rest.data), packet.tokenData, Taken + 1)
  <2>1. /\ HeadOf(rest.data) = At(packet.tokenData, Taken + 1)
        /\ LeftOpt(Data, TailOf(rest.data), packet.tokenData, Taken + 1)
    <3>1. /\ LeftOpt(Data, rest.data, packet.tokenData, Taken) /\ None \notin SeqOf(Data, MaxTokens)
          /\ packet.tokenData \in SeqOf(Data, MaxTokens) \cup {None}
      BY <1>2, <1>3, PacketFacts, NoneAssumption DEF AllLeft
    <3>2. Taken \in Nat /\ rest.data # <<>>
      BY <1>3, <1>4
    <3> QED
      BY <3>1, <3>2, LeftOptStep
  <2> QED
    BY <2>1 DEF At, DataOf
<1>8. t = TokenOf(Taken + 1) /\ t.id = packet.tokenIds[Taken + 1] /\ t \in Creations
  <2>1. Taken + 1 \in 1..Size
    BY <1>3, <1>5
  <2>2. UriOf(Taken + 1) \in Uris \cup {None}
    <3>1. CASE packet.tokenUris = None
      BY <3>1 DEF UriOf, At
    <3>2. CASE packet.tokenUris # None
      <4>1. packet.tokenUris \in Seq(Uris) /\ Taken + 1 \in 1..Len(packet.tokenUris)
        BY <1>3, <1>6, <3>2, PacketFacts, SeqOfFacts, LenProperties
      <4> QED
        BY <3>2, <4>1, ElementOfSeq DEF UriOf, At
    <3> QED
      BY <3>1, <3>2
  <2>3. DataOf(Taken + 1) \in Data \cup {None}
    BY <1>2, <1>3, <2>1, DataFacts
  <2>4. t = TokenOf(Taken + 1)
    BY <1>5, <1>6, <1>7 DEF NextToken, TokenOf
  <2> QED
    BY <1>3, <2>1, <2>2, <2>3, <2>4, PacketFacts DEF TokenOf, Creations
<1>9. ReturningToSource(t.id) <=> SentOutHere(t.id)
  BY <1>2 DEF ReturningToSource, SentOutHere
<1>10. /\ \A id : SentOutHere(id)' <=> SentOutHere(id)
       /\ \A i : TokenOf(i)' = TokenOf(i)
       /\ Size' = Size
  BY <1>1 DEF SentOutHere, TokenOf, UriOf, DataOf, Size
<1>11. t.id \in TokenIds
  BY <1>8 DEF Creations
<1>12. /\ redemptions' \in Seq(TokenIds) /\ creations' \in Seq(Creations)
       /\ Taken' = Taken + 1 /\ Sorted'
  <2>1. CASE SentOutHere(t.id)
    <3>1. redemptions' = Append(redemptions, t.id) /\ creations' = creations
      BY <1>9, <2>1 DEF SortToken
    <3>2. /\ redemptions' \in Seq(TokenIds) /\ redemptions' # <<>>
          /\ Len(redemptions') = Len(redemptions) + 1
          /\ \A i \in 1..Len(redemptions) : redemptions'[i] = redemptions[i]
          /\ redemptions'[Len(redemptions) + 1] = t.id
      BY <1>3, <1>11, <3>1, AppendProperties
    <3>3. Taken' = Taken + 1
      BY <1>3, <3>1, <3>2 DEF Taken
    <3>4. \A i \in 1..(Taken + 1) : i \in 1..Taken \/ i = Taken + 1
      BY <1>3
    <3>5. creations = <<>> => Taken = Len(redemptions)
      BY <1>3, EmptySeq DEF Taken
    <3>6. creations = <<>> =>
            \A i \in 1..(Taken + 1) :
              redemptions'[i] = packet.tokenIds[i] /\ SentOutHere(packet.tokenIds[i])
      BY <1>2, <1>8, <2>1, <3>2, <3>4, <3>5 DEF Sorted
    <3>7. Taken + 1 \in 1..(Taken + 1) /\ \A i \in 1..Taken : i \in 1..(Taken + 1)
      BY <1>3
    <3>8. creations # <<>> => \E i \in 1..(Taken + 1) : ~ SentOutHere(packet.tokenIds[i])
      BY <1>2, <3>7 DEF Sorted
    <3>9. \E i \in 1..(Taken + 1) : SentOutHere(packet.tokenIds[i])
      BY <1>8, <2>1, <3>7
    <3>10. packet' = packet /\ Taken + 1 <= Size
      BY <1>1, <1>5
    <3> HIDE DEF t
    <3>11. Sorted'
      BY <1>10, <3>1, <3>2, <3>3, <3>6, <3>8, <3>9, <3>10 DEF Sorted
    <3> QED
      BY <1>3, <3>1, <3>2, <3>3, <3>11
  <2>2. CASE ~ SentOutHere(t.id)
    <3>1. creations' = Append(creations, t) /\ redemptions' = redemptions
      BY <1>9, <2>2 DEF SortToken
    <3>2. /\ creations' \in Seq(Creations) /\ creations' # <<>>
          /\ Len(creations') = Len(creations) + 1
          /\ \A i \in 1..Len(creations) : creations'[i] = creations[i]
          /\ creations'[Len(creations) + 1] = t
      BY <1>3, <1>8, <3>1, AppendProperties
    <3>3. Taken' = Taken + 1
      BY <1>3, <3>1, <3>2 DEF Taken
    <3>4. \A i \in 1..(Taken + 1) : i \in 1..Taken \/ i = Taken + 1
      BY <1>3
    <3>5. redemptions = <<>> => Taken = Len(creations)
      BY <1>3, EmptySeq DEF Taken
    <3>6. redemptions = <<>> =>
            \A i \in 1..(Taken + 1) :
              creations'[i] = TokenOf(i) /\ ~ SentOutHere(packet.tokenIds[i])
      BY <1>2, <1>8, <2>2, <3>2, <3>4, <3>5 DEF Sorted
    <3>7. Taken + 1 \in 1..(Taken + 1) /\ \A i \in 1..Taken : i \in 1..(Taken + 1)
      BY <1>3
    <3>8. redemptions # <<>> => \E i \in 1..(Taken + 1) : SentOutHere(packet.tokenIds[i])
      BY <1>2, <3>7 DEF Sorted
    <3>9. \E i \in 1..(Taken + 1) : ~ SentOutHere(packet.tokenIds[i])
      BY <1>8, <2>2, <3>7
    <3>10. packet' = packet /\ Taken + 1 <= Size
      BY <1>1, <1>5
    <3> HIDE DEF t
    <3>11. Sorted'
      BY <1>10, <3>1, <3>2, <3>3, <3>6, <3>8, <3>9, <3>10 DEF Sorted
    <3> QED
      BY <1>3, <3>1, <3>2, <3>3, <3>11
  <2> QED
    BY <2>1, <2>2
<1>13. AllLeft'
  BY <1>1, <1>5, <1>6, <1>7, <1>12 DEF AllLeft
<1>14. Types'
  <2>1. Len(redemptions') \in Nat /\ Len(creations') \in Nat
    BY <1>12, LenProperties
  <2>2. Len(redemptions') <= Size /\ Len(creations') <= Size
    BY <1>3, <1>5, <1>12, <2>1 DEF Taken
  <2> QED
    BY <1>1, <1>2, <1>10, <1>12, <2>2 DEF Types
<1>15. Validate(packet)'
  BY <1>1, <1>2
<1> QED
  BY <1>1, <1>2, <1>12, <1>13, <1>14, <1>15 DEF IInv, EveryTokenArrives, SuccessIffReceivable

\* What the properties speak of stays what it is once the tokens are sorted.
LEMMA Frame ==
  ASSUME UNCHANGED <<packet, mintable, before, redemptions, creations>>
  PROVE  /\ Size' = Size /\ Receivable' = Receivable
         /\ \A id : SentOutHere(id)' <=> SentOutHere(id)
         /\ \A i : TokenOf(i)' = TokenOf(i) /\ DataOf(i)' = DataOf(i)
         /\ \A k : First(k)' = First(k) /\ Distinct(k)' = Distinct(k)
BY DEF Size, Receivable, Distinguished, SentOutHere, TokenOf, UriOf, DataOf, First, Distinct

\* All are sorted when one of the lists has come to its end, and the packet is refused if
\* there are redemptions and creations.
LEMMA StepSorted == IInv /\ SortDone => IInv'
<1> SUFFICES ASSUME IInv, SortDone
             PROVE  IInv'
  OBVIOUS
<1>1. /\ step = "sort" /\ ~ HasNext /\ step' = Action
      /\ UNCHANGED <<packet, mintable, books, before, rest, redemptions, creations, executed>>
  BY DEF SortDone
<1>2. Types /\ AllLeft /\ Sorted /\ books = before /\ executed = 0 /\ Validate(packet)
  BY <1>1 DEF IInv
<1>3. /\ packet \in Packets /\ redemptions \in Seq(TokenIds) /\ creations \in Seq(Creations)
      /\ Len(redemptions) \in Nat /\ Len(creations) \in Nat /\ Size \in Nat /\ Size >= 1
      /\ redemptions = <<>> <=> Len(redemptions) = 0
      /\ creations = <<>> <=> Len(creations) = 0
  <2>1. /\ packet \in Packets /\ redemptions \in Seq(TokenIds) /\ creations \in Seq(Creations)
        /\ packet.tokenIds # <<>>
    BY <1>2 DEF Types, Validate
  <2>2. Size \in Nat /\ Size >= 1
    BY <2>1, PacketFacts, EmptySeq DEF Size
  <2> QED
    BY <2>1, <2>2, LenProperties, EmptySeq
<1>4. Taken = Size
  <2>0. packet.tokenIds \in Seq(TokenIds) /\ Taken \in Nat
    BY <1>3, PacketFacts DEF Taken
  <2>1. CASE rest.ids = <<>>
    <3>1. Len(rest.ids) = Size - Taken /\ Len(rest.ids) = 0
      BY <1>2, <2>1, EmptySeq DEF AllLeft, Left, Size
    <3> QED
      BY <1>3, <2>0, <3>1
  <2>2. CASE rest.uris = <<>>
    <3>1. packet.tokenUris # None
      BY <1>2, <2>2, NoneEmpty, NoneAssumption DEF AllLeft, LeftOpt
    <3>2. Len(rest.uris) = Size - Taken /\ Len(rest.uris) = 0
      BY <1>2, <2>2, <3>1, EmptySeq DEF AllLeft, LeftOpt, Left, Size, Validate, SameLength
    <3> QED
      BY <1>3, <2>0, <3>2
  <2>3. CASE rest.data = <<>>
    <3>1. packet.tokenData # None
      BY <1>2, <2>3, NoneEmpty, NoneAssumption DEF AllLeft, LeftOpt
    <3>2. Len(rest.data) = Size - Taken /\ Len(rest.data) = 0
      BY <1>2, <2>3, <3>1, EmptySeq DEF AllLeft, LeftOpt, Left, Size, Validate, SameLength
    <3> QED
      BY <1>3, <2>0, <3>2
  <2> QED
    BY <1>1, <2>1, <2>2, <2>3 DEF HasNext
<1>5. /\ Size' = Size /\ Receivable' = Receivable
      /\ \A id : SentOutHere(id)' <=> SentOutHere(id)
      /\ \A i : TokenOf(i)' = TokenOf(i) /\ DataOf(i)' = DataOf(i)
      /\ \A k : First(k)' = First(k) /\ Distinct(k)' = Distinct(k)
  BY <1>1, Frame
<1>6. step' \in {"redeem", "create", "error"}
  BY <1>1 DEF Action
<1>7. Types' /\ Validate(packet)'
  BY <1>1, <1>2, <1>5, <1>6 DEF Types
<1>8. First(executed) = {} /\ Distinct(executed) /\ \A i \in 1..executed : FALSE
  BY <1>2 DEF First, Distinct
<1>9. CASE step' = "error"
  <2>1. redemptions # <<>> /\ creations # <<>>
    BY <1>1, <1>3, <1>4, <1>9 DEF Action, Taken
  <2>2. PICK i \in 1..Size : SentOutHere(packet.tokenIds[i])
    BY <1>2, <1>4, <2>1 DEF Sorted
  <2>3. PICK j \in 1..Size : ~ SentOutHere(packet.tokenIds[j])
    BY <1>2, <1>4, <2>1 DEF Sorted
  <2>4. packet.tokenIds[i] \in ToSet(packet.tokenIds) /\ packet.tokenIds[j] \in ToSet(packet.tokenIds)
    BY <1>3, PacketFacts DEF ToSet
  <2>5. ~ Receivable
    BY <2>2, <2>3, <2>4 DEF Receivable
  <2>6. books' = before'
    BY <1>1, <1>2
  <2> QED
    BY <1>5, <1>7, <1>9, <2>5, <2>6 DEF IInv, EveryTokenArrives, SuccessIffReceivable
<1>10. CASE step' = "redeem"
  <2>1. creations = <<>>
    BY <1>1, <1>10 DEF Action
  <2>2. Len(redemptions) = Size
    BY <1>3, <1>4, <2>1 DEF Taken
  <2>3. \A i \in 1..Size : redemptions[i] = packet.tokenIds[i] /\ SentOutHere(packet.tokenIds[i])
    BY <1>2, <1>4, <2>1 DEF Sorted
  <2>4. \A id \in TokenIds : books[id] = IF id \in First(executed)
                                         THEN [before[id] EXCEPT !.owner = packet.receiver]
                                         ELSE before[id]
    BY <1>2, <1>8
  <2>5. Redeeming
    BY <1>2, <1>8, <2>2, <2>3, <2>4 DEF Redeeming
  <2>6. Redeeming'
    BY <1>1, <1>5, <2>5 DEF Redeeming
  <2> QED
    BY <1>7, <1>10, <2>6 DEF IInv, EveryTokenArrives, SuccessIffReceivable
<1>11. CASE step' = "create"
  <2>1. redemptions = <<>>
    BY <1>1, <1>11 DEF Action
  <2>2. Len(creations) = Size
    BY <1>3, <1>4, <2>1 DEF Taken
  <2>3. \A i \in 1..Size : creations[i] = TokenOf(i) /\ ~ SentOutHere(packet.tokenIds[i])
    BY <1>2, <1>4, <2>1 DEF Sorted
  <2>4. Creating
    BY <1>2, <1>8, <2>2, <2>3 DEF Creating
  <2>5. Creating'
    BY <1>1, <1>5, <2>4 DEF Creating
  <2> QED
    BY <1>7, <1>11, <2>5 DEF IInv, EveryTokenArrives, SuccessIffReceivable
<1> QED
  BY <1>6, <1>9, <1>10, <1>11

\* The first tokens and one more.
LEMMA FirstStep ==
  ASSUME NEW k \in Nat
  PROVE  /\ First(k + 1) = First(k) \cup {packet.tokenIds[k + 1]}
         /\ Distinct(k) /\ packet.tokenIds[k + 1] \notin First(k) => Distinct(k + 1)
<1>1. \A i : i \in 1..(k + 1) <=> i \in 1..k \/ i = k + 1
  OBVIOUS
<1>2. First(k + 1) = First(k) \cup {packet.tokenIds[k + 1]}
  BY <1>1 DEF First
<1>3. ASSUME Distinct(k), packet.tokenIds[k + 1] \notin First(k)
      PROVE  Distinct(k + 1)
  BY <1>1, <1>3 DEF Distinct, First
<1> QED
  BY <1>2, <1>3

\* An escrowed token goes to the receiver, once.
LEMMA StepTransfer == IInv /\ TransferNft => IInv'
<1> SUFFICES ASSUME IInv, TransferNft
             PROVE  IInv'
  OBVIOUS
<1> DEFINE k == executed
           id == packet.tokenIds[k + 1]
<1>1. /\ step = "redeem" /\ k < Len(redemptions)
      /\ books[redemptions[k + 1]].owner = Ics721
      /\ books' = [books EXCEPT ![redemptions[k + 1]].owner = packet.receiver]
      /\ executed' = k + 1
      /\ UNCHANGED <<packet, mintable, before, rest, redemptions, creations, step>>
  BY DEF TransferNft
<1>2. Types /\ Redeeming
  BY <1>1 DEF IInv
<1>3. k \in Nat /\ Size \in Nat /\ k + 1 \in 1..Size /\ packet \in Packets
  BY <1>1, <1>2, PacketFacts DEF Types, Redeeming
<1>4. redemptions[k + 1] = id /\ id \in TokenIds
  BY <1>2, <1>3, PacketFacts DEF Redeeming
<1>5. id \in First(k) => packet.receiver = Ics721 /\ before[id].owner = Ics721
  <2>1. id \in First(k) => books[id] = [before[id] EXCEPT !.owner = packet.receiver]
    BY <1>2, <1>4 DEF Redeeming
  <2>2. id \in First(k) => books[id].owner = packet.receiver
    <3>1. before[id] \in Books
      BY <1>2, <1>4, TokenFacts DEF Types
    <3> QED
      BY <2>1, <3>1 DEF Books
  <2>3. id \in First(k) => before[id].owner = Ics721
    BY <1>2 DEF Redeeming, First
  <2> QED
    BY <1>1, <1>4, <2>2, <2>3
<1>6. /\ First(k + 1) = First(k) \cup {id}
      /\ Distinct(k + 1) \/ packet.receiver = Ics721
  BY <1>2, <1>3, <1>5, FirstStep DEF Redeeming
<1>7. /\ [books[id] EXCEPT !.owner = packet.receiver]
         = [before[id] EXCEPT !.owner = packet.receiver]
      /\ before[id].owner = Ics721
  <2>1. CASE id \in First(k)
    <3>1. books[id] = [before[id] EXCEPT !.owner = packet.receiver]
      BY <1>2, <1>4, <2>1 DEF Redeeming
    <3>2. before[id] \in Books
      BY <1>2, <1>4, TokenFacts DEF Types
    <3> QED
      BY <1>5, <2>1, <3>1, <3>2 DEF Books
  <2>2. CASE id \notin First(k)
    BY <1>1, <1>2, <1>4, <2>2 DEF Redeeming
  <2> QED
    BY <2>1, <2>2
<1>8. /\ books'[id] = [before[id] EXCEPT !.owner = packet.receiver]
      /\ \A x \in TokenIds \ {id} : books'[x] = books[x]
  BY <1>1, <1>2, <1>4, <1>7 DEF Types
<1>9. ASSUME NEW x \in TokenIds
      PROVE  books'[x] = IF x \in First(k + 1) THEN [before[x] EXCEPT !.owner = packet.receiver]
                                               ELSE before[x]
  <2>1. CASE x = id
    BY <1>6, <1>8, <2>1
  <2>2. CASE x # id
    BY <1>2, <1>6, <1>8, <2>2 DEF Redeeming
  <2> QED
    BY <2>1, <2>2
<1>10. /\ Size' = Size /\ \A i : SentOutHere(i)' <=> SentOutHere(i)
       /\ First(executed)' = First(k + 1) /\ Distinct(executed)' = Distinct(k + 1)
  BY <1>1, Frame DEF First, Distinct
<1>11. books' \in [TokenIds -> Books]
  BY <1>1, <1>2, <1>3, <1>4, PacketFacts DEF Types, Books
<1>12. Types'
  BY <1>1, <1>2, <1>3, <1>10, <1>11 DEF Types
<1>13. Redeeming'
  <2>1. Validate(packet)' /\ Len(redemptions)' = Size'
    BY <1>1, <1>2, <1>10 DEF Redeeming
  <2>2. \A i \in 1..Size' : redemptions'[i] = packet'.tokenIds[i] /\ SentOutHere(packet.tokenIds[i])'
    BY <1>1, <1>2, <1>10 DEF Redeeming
  <2>3. ASSUME NEW i \in 1..(k + 1)
        PROVE  before[packet.tokenIds[i]].owner = Ics721
    <3>1. i \in 1..k \/ i = k + 1
      BY <1>3
    <3> QED
      BY <1>2, <1>7, <3>1 DEF Redeeming
  <2> QED
    BY <1>1, <1>6, <1>9, <1>10, <2>1, <2>2, <2>3 DEF Redeeming
<1> QED
  BY <1>1, <1>12, <1>13 DEF IInv, EveryTokenArrives, SuccessIffReceivable

\* A new token is minted for the receiver, once, with its data.
LEMMA StepMint == IInv /\ MintNft => IInv'
<1> SUFFICES ASSUME IInv, MintNft
             PROVE  IInv'
  OBVIOUS
<1> DEFINE k == executed
           id == packet.tokenIds[k + 1]
           minted == [before[id] EXCEPT !.owner = packet.receiver, !.data = DataOf(k + 1)]
<1>1. /\ step = "create" /\ k < Len(creations)
      /\ mintable /\ books[creations[k + 1].id].owner = NoOne
      /\ books' = [books EXCEPT ![creations[k + 1].id].owner = packet.receiver,
                                ![creations[k + 1].id].data = creations[k + 1].data]
      /\ executed' = k + 1
      /\ UNCHANGED <<packet, mintable, before, rest, redemptions, creations, step>>
  BY DEF MintNft
<1>2. Types /\ Creating
  BY <1>1 DEF IInv
<1>3. k \in Nat /\ Size \in Nat /\ k + 1 \in 1..Size /\ packet \in Packets /\ Validate(packet)
  <2>1. packet \in Packets /\ k \in Nat /\ Validate(packet) /\ Len(creations) = Size
    BY <1>2 DEF Types, Creating
  <2>2. Size \in Nat
    BY <2>1, PacketFacts
  <2> QED
    BY <1>1, <2>1, <2>2
<1>4. /\ creations[k + 1].id = id /\ creations[k + 1].data = DataOf(k + 1) /\ id \in TokenIds
      /\ DataOf(k + 1) \in Data \cup {None}
  <2>1. creations[k + 1] = TokenOf(k + 1)
    BY <1>2, <1>3 DEF Creating
  <2>2. id \in TokenIds
    BY <1>3, PacketFacts
  <2>3. DataOf(k + 1) \in Data \cup {None}
    BY <1>3, DataFacts
  <2> QED
    BY <2>1, <2>2, <2>3 DEF TokenOf
<1>5. id \notin First(k)
  <2>1. id \in First(k) => \E i \in 1..k : id = packet.tokenIds[i]
    BY DEF First
  <2>2. ASSUME NEW i \in 1..k, id = packet.tokenIds[i]
        PROVE  books[id].owner = packet.receiver
    <3>1. books[id] = [before[id] EXCEPT !.owner = packet.receiver, !.data = DataOf(i)]
      BY <1>2, <2>2 DEF Creating
    <3> QED
      BY <1>2, <1>4, <3>1, TokenFacts DEF Types, Books
  <2> QED
    BY <1>1, <1>3, <1>4, <2>1, <2>2, PacketFacts, AccountAssumption
<1>6. /\ First(k + 1) = First(k) \cup {id} /\ Distinct(k + 1)
  BY <1>2, <1>3, <1>5, FirstStep DEF Creating
<1>7. books[id] = before[id] /\ before[id].owner = NoOne
  BY <1>1, <1>2, <1>4, <1>5 DEF Creating
<1>8. /\ books'[id] = minted
      /\ \A x \in TokenIds \ {id} : books'[x] = books[x]
  BY <1>1, <1>2, <1>4, <1>7 DEF Types
<1>9. ASSUME NEW i \in 1..(k + 1)
      PROVE  /\ mintable /\ before[packet.tokenIds[i]].owner = NoOne
             /\ books'[packet.tokenIds[i]] =
                  [before[packet.tokenIds[i]] EXCEPT !.owner = packet.receiver, !.data = DataOf(i)]
  <2>1. CASE i = k + 1
    BY <1>1, <1>7, <1>8, <2>1
  <2>2. CASE i \in 1..k
    <3>1. packet.tokenIds[i] \in First(k) /\ packet.tokenIds[i] # id
      BY <1>5, <2>2 DEF First
    <3>2. packet.tokenIds[i] \in TokenIds
      BY <1>3, PacketFacts
    <3> QED
      BY <1>2, <1>8, <2>2, <3>1, <3>2 DEF Creating
  <2> QED
    BY <1>3, <2>1, <2>2
<1>10. \A x \in TokenIds \ First(k + 1) : books'[x] = before[x]
  BY <1>2, <1>6, <1>8 DEF Creating
<1>11. /\ Size' = Size /\ \A i : SentOutHere(i)' <=> SentOutHere(i)
       /\ \A i : TokenOf(i)' = TokenOf(i) /\ DataOf(i)' = DataOf(i)
       /\ First(executed)' = First(k + 1) /\ Distinct(executed)' = Distinct(k + 1)
  BY <1>1, Frame DEF First, Distinct
<1>12. books' \in [TokenIds -> Books]
  <2>1. minted \in Books
    BY <1>2, <1>3, <1>4, TokenFacts, PacketFacts DEF Types, Books
  <2>2. books' = [books EXCEPT ![id] = minted]
    BY <1>1, <1>2, <1>4, <1>7 DEF Types
  <2> QED
    BY <1>2, <1>4, <2>1, <2>2 DEF Types
<1>13. Types'
  BY <1>1, <1>2, <1>3, <1>11, <1>12 DEF Types
<1>14. Creating'
  <2>1. Validate(packet)' /\ Len(creations)' = Size'
    BY <1>1, <1>2, <1>11 DEF Creating
  <2>2. \A i \in 1..Size' : creations'[i] = TokenOf(i)' /\ ~ SentOutHere(packet.tokenIds[i])'
    BY <1>1, <1>2, <1>11 DEF Creating
  <2> QED
    BY <1>1, <1>6, <1>9, <1>10, <1>11, <2>1, <2>2 DEF Creating
<1> QED
  BY <1>1, <1>13, <1>14 DEF IInv, EveryTokenArrives, SuccessIffReceivable

\* The packet could not be received, and nothing of it is left.
LEMMA StepFails == IInv /\ MessageFails => IInv'
<1> SUFFICES ASSUME IInv, MessageFails
             PROVE  IInv'
  OBVIOUS
<1> DEFINE k == executed
           id == packet.tokenIds[k + 1]
<1>1. /\ books' = before /\ step' = "error"
      /\ UNCHANGED <<packet, mintable, before, rest, redemptions, creations, executed>>
  BY DEF MessageFails
<1>2. Types
  BY DEF IInv
<1>3. packet \in Packets /\ Size \in Nat /\ k \in Nat
  BY <1>2, PacketFacts DEF Types
<1>4. ASSUME k + 1 \in 1..Size, id \in First(k)
      PROVE  ~ Distinguished
  <2>1. PICK i \in 1..k : packet.tokenIds[i] = id
    BY <1>4 DEF First
  <2>2. i \in DOMAIN packet.tokenIds /\ k + 1 \in DOMAIN packet.tokenIds /\ i # k + 1
    BY <1>3, <1>4, PacketFacts
  <2> QED
    BY <2>1, <2>2 DEF Distinguished, IsInjective
<1>5. \A i \in 1..Size : packet.tokenIds[i] \in ToSet(packet.tokenIds)
  BY <1>3, PacketFacts DEF ToSet
<1>6. ~ Receivable
  <2>1. CASE step = "redeem" /\ k < Len(redemptions) /\ books[redemptions[k + 1]].owner # Ics721
    <3>1. Redeeming
      BY <2>1 DEF IInv
    <3>2. k + 1 \in 1..Size /\ redemptions[k + 1] = id /\ SentOutHere(id)
      BY <1>3, <2>1, <3>1 DEF Redeeming
    <3>3. id \in TokenIds
      BY <1>3, <3>2, PacketFacts
    <3>4. CASE id \notin First(k)
      <4>1. before[id].owner # Ics721
        BY <2>1, <3>1, <3>2, <3>3, <3>4 DEF Redeeming
      <4> QED
        BY <1>5, <3>2, <4>1 DEF Receivable
    <3>5. CASE id \in First(k)
      <4>1. books[id] = [before[id] EXCEPT !.owner = packet.receiver]
        BY <3>1, <3>3, <3>5 DEF Redeeming
      <4>2. before[id] \in Books
        BY <1>2, <3>3, TokenFacts DEF Types
      <4>3. packet.receiver # Ics721
        BY <2>1, <3>2, <4>1, <4>2 DEF Books
      <4> QED
        BY <1>4, <1>5, <3>2, <3>5, <4>3 DEF Receivable
    <3> QED
      BY <3>4, <3>5
  <2>2. CASE /\ step = "create" /\ k < Len(creations)
             /\ ~ mintable \/ books[creations[k + 1].id].owner # NoOne
    <3>1. Creating
      BY <2>2 DEF IInv
    <3>2. k + 1 \in 1..Size /\ creations[k + 1].id = id /\ ~ SentOutHere(id)
      <4>1. Len(creations) = Size
        BY <3>1 DEF Creating
      <4>2. k + 1 \in 1..Size
        BY <1>3, <2>2, <4>1
      <4>3. creations[k + 1] = TokenOf(k + 1) /\ ~ SentOutHere(id)
        BY <3>1, <4>2 DEF Creating
      <4> QED
        BY <4>2, <4>3 DEF TokenOf
    <3>3. id \in TokenIds /\ id \in ToSet(packet.tokenIds)
      BY <1>3, <1>5, <3>2, PacketFacts
    <3>4. CASE ~ mintable
      BY <3>2, <3>3, <3>4 DEF Receivable
    <3>5. CASE books[id].owner # NoOne /\ id \in First(k)
      BY <1>4, <3>2, <3>3, <3>5 DEF Receivable
    <3>6. CASE books[id].owner # NoOne /\ id \notin First(k)
      <4>1. before[id].owner # NoOne
        BY <3>1, <3>3, <3>6 DEF Creating
      <4> QED
        BY <3>2, <3>3, <4>1 DEF Receivable
    <3> QED
      BY <2>2, <3>2, <3>4, <3>5, <3>6
  <2> QED
    BY <2>1, <2>2 DEF MessageFails
<1>7. Receivable' = Receivable /\ Size' = Size
  BY <1>1, Frame
<1>8. Types'
  <2>1. before \in [TokenIds -> Books]
    BY <1>2, TokenFacts DEF Types
  <2> QED
    BY <1>1, <1>2, <1>7, <2>1 DEF Types
<1>9. books' = before'
  BY <1>1
<1> QED
  BY <1>1, <1>6, <1>7, <1>8, <1>9 DEF IInv, EveryTokenArrives, SuccessIffReceivable

\* All tokens were executed: a packet that can be received.
LEMMA AllExecuted ==
  ASSUME packet \in Packets, Validate(packet),
         \/ /\ Distinct(Size) \/ packet.receiver = Ics721
            /\ \A i \in 1..Size : /\ SentOutHere(packet.tokenIds[i])
                                  /\ before[packet.tokenIds[i]].owner = Ics721
         \/ /\ Distinct(Size)
            /\ \A i \in 1..Size : /\ mintable /\ ~ SentOutHere(packet.tokenIds[i])
                                  /\ before[packet.tokenIds[i]].owner = NoOne
  PROVE  Receivable
<1>1. DOMAIN packet.tokenIds = 1..Size /\ Size \in Nat /\ packet.tokenIds \in Seq(TokenIds)
  BY PacketFacts
<1>2. Distinct(Size) => Distinguished
  BY <1>1 DEF Distinct, Distinguished, IsInjective
<1>3. \A id \in ToSet(packet.tokenIds) : \E i \in 1..Size : id = packet.tokenIds[i]
  BY <1>1 DEF ToSet
<1>4. 1 \in 1..Size
  BY <1>1, EmptySeq DEF Validate, Size
<1>5. /\ packet.namesGiven /\ packet.tokenIds # <<>>
      /\ \A list \in {packet.tokenUris, packet.tokenData} : SameLength(list, packet.tokenIds)
  BY DEF Validate
<1> QED
  BY <1>2, <1>3, <1>4, <1>5 DEF Receivable

\* The entries of redeemed tokens are removed.
LEMMA StepRedeemEntries == IInv /\ RedeemOutgoingChannelEntries => IInv'
<1> SUFFICES ASSUME IInv, RedeemOutgoingChannelEntries
             PROVE  IInv'
  OBVIOUS
<1>1. /\ step = "redeem" /\ executed = Len(redemptions) /\ step' = "ok"
      /\ books' = [id \in TokenIds |-> IF id \in Redeemed
                                       THEN [books[id] EXCEPT !.outgoing = NoChannel]
                                       ELSE books[id]]
      /\ UNCHANGED <<packet, mintable, before, rest, redemptions, creations, executed>>
  BY DEF RedeemOutgoingChannelEntries
<1>2. Types /\ Redeeming
  BY <1>1 DEF IInv
<1>3. /\ packet \in Packets /\ Size \in Nat /\ executed = Size /\ DOMAIN redemptions = 1..Size
      /\ DOMAIN packet.tokenIds = 1..Size
  BY <1>1, <1>2, PacketFacts, LenProperties DEF Types, Redeeming
<1>4. Redeemed = First(Size) /\ ToSet(packet.tokenIds) = First(Size)
  BY <1>2, <1>3 DEF Redeemed, ToSet, First, Redeeming
<1>5. Receivable
  BY <1>2, <1>3, AllExecuted DEF Redeeming
<1>6. ASSUME NEW i \in 1..Size
      PROVE  /\ SentOutHere(packet.tokenIds[i])
             /\ books'[packet.tokenIds[i]] =
                  [before[packet.tokenIds[i]] EXCEPT !.owner = packet.receiver, !.outgoing = NoChannel]
  <2>1. packet.tokenIds[i] \in First(Size) /\ packet.tokenIds[i] \in TokenIds
    BY <1>3, PacketFacts DEF First
  <2>2. books[packet.tokenIds[i]] = [before[packet.tokenIds[i]] EXCEPT !.owner = packet.receiver]
    BY <1>2, <1>3, <2>1 DEF Redeeming
  <2>3. books'[packet.tokenIds[i]] = [books[packet.tokenIds[i]] EXCEPT !.outgoing = NoChannel]
    BY <1>1, <1>4, <2>1
  <2>4. before[packet.tokenIds[i]] \in Books
    BY <1>2, <2>1, TokenFacts DEF Types
  <2> QED
    BY <1>2, <2>1, <2>2, <2>3, <2>4 DEF Redeeming, Books
<1>7. ASSUME NEW id \in TokenIds \ ToSet(packet.tokenIds)
      PROVE  books'[id] = before[id]
  BY <1>1, <1>2, <1>3, <1>4 DEF Redeeming
<1>8. /\ Size' = Size /\ Receivable' = Receivable
      /\ \A id : SentOutHere(id)' <=> SentOutHere(id)
  BY <1>1, Frame
<1>9. EveryTokenArrives'
  BY <1>1, <1>3, <1>6, <1>7, <1>8 DEF EveryTokenArrives
<1>10. books' \in [TokenIds -> Books]
  BY <1>1, <1>2 DEF Types, Books
<1>11. Types'
  BY <1>1, <1>2, <1>8, <1>10 DEF Types
<1> QED
  BY <1>1, <1>5, <1>8, <1>9, <1>11 DEF IInv, SuccessIffReceivable

\* The entries of created tokens are added.
LEMMA StepAddEntries == IInv /\ AddIncomingChannelEntries => IInv'
<1> SUFFICES ASSUME IInv, AddIncomingChannelEntries
             PROVE  IInv'
  OBVIOUS
<1>1. /\ step = "create" /\ executed = Len(creations) /\ step' = "ok"
      /\ books' = [id \in TokenIds |-> IF \E token \in ToSet(creations) : token.id = id
                                       THEN [books[id] EXCEPT !.incoming = Channel]
                                       ELSE books[id]]
      /\ UNCHANGED <<packet, mintable, before, rest, redemptions, creations, executed>>
  BY DEF AddIncomingChannelEntries
<1>2. Types /\ Creating
  BY <1>1 DEF IInv
<1>3. /\ packet \in Packets /\ Size \in Nat /\ executed = Size /\ DOMAIN creations = 1..Size
      /\ DOMAIN packet.tokenIds = 1..Size
  BY <1>1, <1>2, PacketFacts, LenProperties DEF Types, Creating
<1>4. ToSet(packet.tokenIds) = First(Size)
  BY <1>3 DEF ToSet, First
<1>5. \A id : (\E token \in ToSet(creations) : token.id = id) <=> id \in First(Size)
  <2>1. ToSet(creations) = {TokenOf(i) : i \in 1..Size}
    <3>1. \A i \in 1..Size : creations[i] = TokenOf(i)
      BY <1>2 DEF Creating
    <3> QED
      BY <1>3, <3>1 DEF ToSet
  <2>2. \A i : TokenOf(i).id = packet.tokenIds[i]
    BY DEF TokenOf
  <2> QED
    BY <2>1, <2>2 DEF First
<1>6. Receivable
  BY <1>2, <1>3, AllExecuted DEF Creating
<1>7. ASSUME NEW i \in 1..Size
      PROVE  /\ ~ SentOutHere(packet.tokenIds[i])
             /\ books'[packet.tokenIds[i]] =
                  [before[packet.tokenIds[i]] EXCEPT !.owner = packet.receiver, !.incoming = Channel,
                                                     !.data = DataOf(i)]
  <2>1. packet.tokenIds[i] \in First(Size) /\ packet.tokenIds[i] \in TokenIds
    BY <1>3, PacketFacts DEF First
  <2>2. books[packet.tokenIds[i]] =
          [before[packet.tokenIds[i]] EXCEPT !.owner = packet.receiver, !.data = DataOf(i)]
    BY <1>2, <1>3, <2>1 DEF Creating
  <2>3. books'[packet.tokenIds[i]] = [books[packet.tokenIds[i]] EXCEPT !.incoming = Channel]
    BY <1>1, <1>5, <2>1
  <2> QED
    BY <1>2, <2>1, <2>2, <2>3, TokenFacts DEF Creating, Types, Books
<1>8. ASSUME NEW id \in TokenIds \ ToSet(packet.tokenIds)
      PROVE  books'[id] = before[id]
  BY <1>1, <1>2, <1>3, <1>4, <1>5 DEF Creating
<1>9. /\ Size' = Size /\ Receivable' = Receivable
      /\ \A id : SentOutHere(id)' <=> SentOutHere(id)
      /\ \A i : DataOf(i)' = DataOf(i)
  BY <1>1, Frame
<1>10. EveryTokenArrives'
  BY <1>1, <1>3, <1>7, <1>8, <1>9 DEF EveryTokenArrives
<1>11. books' \in [TokenIds -> Books]
  BY <1>1, <1>2 DEF Types, Books
<1>12. Types'
  BY <1>1, <1>2, <1>9, <1>11 DEF Types
<1> QED
  BY <1>1, <1>6, <1>9, <1>10, <1>12 DEF IInv, SuccessIffReceivable

\* No step breaks the invariant.
LEMMA NextIInv == IInv /\ [Next]_vars => IInv'
<1>1. IInv /\ UNCHANGED vars => IInv'
  <2> SUFFICES ASSUME IInv, UNCHANGED vars
               PROVE  IInv'
    OBVIOUS
  <2>1. UNCHANGED <<packet, mintable, books, before, rest, redemptions, creations, executed, step>>
    BY DEF vars
  <2>2. /\ Size' = Size /\ Receivable' = Receivable
        /\ \A id : SentOutHere(id)' <=> SentOutHere(id)
        /\ \A i : TokenOf(i)' = TokenOf(i) /\ DataOf(i)' = DataOf(i)
        /\ First(executed)' = First(executed) /\ Distinct(executed)' = Distinct(executed)
    BY <2>1, Frame DEF First, Distinct
  <2>3. Types' /\ Taken' = Taken /\ (AllLeft => AllLeft')
    BY <2>1, <2>2 DEF IInv, Types, AllLeft, Taken
  <2>4. Sorted => Sorted'
    BY <2>1, <2>2 DEF Sorted, Taken
  <2>5. Redeeming => Redeeming'
    BY <2>1, <2>2 DEF Redeeming
  <2>6. Creating => Creating'
    BY <2>1, <2>2 DEF Creating
  <2>7. EveryTokenArrives'
    BY <2>1, <2>2 DEF IInv, EveryTokenArrives
  <2>8. SuccessIffReceivable'
    BY <2>1, <2>2 DEF IInv, SuccessIffReceivable
  <2> QED
    BY <2>1, <2>3, <2>4, <2>5, <2>6, <2>7, <2>8 DEF IInv
<1> QED
  BY <1>1, StepValidate, StepSort, StepSorted, StepTransfer, StepMint, StepFails,
     StepRedeemEntries, StepAddEntries DEF Next

\* The types of the run.
LEMMA IInvTypes == IInv => TypeOK
<1> SUFFICES ASSUME IInv
             PROVE  TypeOK
  OBVIOUS
<1>1. Types /\ Size \in Nat /\ Size <= MaxTokens
  BY PacketFacts DEF IInv, Types
<1>2. Len(redemptions) \in Nat /\ Len(redemptions) <= MaxTokens /\ executed \in 0..MaxTokens
  BY <1>1, BoundAssumption, LenProperties DEF Types
<1>3. redemptions \in SeqOf(TokenIds, MaxTokens)
  BY <1>1, <1>2, SeqOfFacts DEF Types
<1>4. \A i \in DOMAIN creations : creations[i] \in Creations
  BY <1>1, LenProperties DEF Types
<1> QED
  BY <1>1, <1>2, <1>3, <1>4 DEF TypeOK, Types, Books, Creations

\* IInv holds at every step of a receipt, whatever lists the packet has, of whatever
\* length, and with it the types.
THEOREM ReceiptInvariance == Spec => []IInv /\ []TypeOK
<1>1. Spec => []IInv
  BY InitIInv, NextIInv, PTL DEF Spec
<1>2. IInv => TypeOK
  BY IInvTypes
<1> QED
  BY <1>1, <1>2, PTL

\* Every token of a packet that is received is the receiver's, with its own data, and
\* nothing has changed for a packet that is not (zip_optional, reply).
THEOREM PacketsArriveWhole == Spec => []EveryTokenArrives
<1>1. IInv => EveryTokenArrives
  BY DEF IInv
<1> QED
  BY <1>1, ReceiptInvariance, PTL

\* A packet is acknowledged as a success exactly when all of it can be received:
\* whatever entries earlier transfers left, and with the bridge's own address as the
\* receiver, too (validate, create_voucher_and_channel_messages, addr_validate).
THEOREM NoneRefusedInVain == Spec => []SuccessIffReceivable
<1>1. IInv => SuccessIffReceivable
  BY DEF IInv
<1> QED
  BY <1>1, ReceiptInvariance, PTL

=============================================================================
