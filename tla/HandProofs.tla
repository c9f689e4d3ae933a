----------------------------- MODULE HandProofs -----------------------------
(***************************************************************************)
(* How many cards each player holds, at every step of a deal: from it      *)
(* follow the order of the turns, that whoever is asked to play can, and   *)
(* that each player is asked for his handle before his first card.         *)
(***************************************************************************)
EXTENDS TableProofs

-----------------------------------------------------------------------------
(* The inductive invariant on the hands. *)

\* The players who have played in the current trick.
Played(e) ==
  {Forward(TrickOpener(e.ctx, e.trickCounter), k) : k \in 0..(e.position - 1)}

\* Before the play: full hands, and the dog aside.
HandsDealt(e) ==
  /\ \A p \in Places : Cardinality(e.hands[p]) = HandSize
  /\ Cardinality(CardsOf(e.ctx.dog)) = NumberOfDogCards

\* During the play: one card less for each trick, and for this one.
HandsCounted(e) ==
  \A p \in Places :
    Cardinality(e.hands[p]) = HandSize - e.trickCounter - (IF p \in Played(e) THEN 1 ELSE 0)

\* Whoever has played a card has been asked for his handle.
HandlesAsked(e) ==
  /\ IF e.trickCounter = 0 THEN Played(e) \subseteq e.handleAsked ELSE e.handleAsked = Places
  /\ e.seq = "PLAYED_CARD" => e.currentPlayer \in e.handleAsked

InPlay == PlaySteps \cup {"START_DEAL", "END_OF_TRICK"}

HandInv(e) ==
  /\ e.seq \in BidSteps => HandsDealt(e)
  /\ e.seq \in InPlay => HandsCounted(e) /\ HandlesAsked(e)

\* A step is one of the bids, of the play, or neither.
LEMMA StepKinds ==
  /\ \A s \in BidSteps : s \notin InPlay
  /\ {"READY", "PLAYERS", "END_OF_DEAL"} \cap (BidSteps \cup InPlay) = {}
BY DEF BidSteps, InPlay, PlaySteps

\* Every hand is finite.
LEMMA HandFinite ==
  ASSUME NEW e \in Engines, NEW p \in Places
  PROVE  e.hands[p] \in SUBSET Cards /\ IsFiniteSet(e.hands[p])
<1>1. e.hands[p] \in SUBSET Cards
  BY EngineFields
<1> QED
  BY <1>1, FS_Subset, TarotAssumption

\* Outside the bids and the play nothing is said of the hands.
LEMMA IdleHands ==
  ASSUME NEW f, f.seq \in {"READY", "PLAYERS", "END_OF_DEAL"}
  PROVE  HandInv(f)
BY DEF HandInv, BidSteps, InPlay, PlaySteps

-----------------------------------------------------------------------------
(* The distribution. *)

\* Two disjoint sets of cards have as many cards as the one and the other.
LEMMA CountApart ==
  ASSUME NEW A \in SUBSET Cards, NEW B \in SUBSET Cards, A \cap B = {}
  PROVE  Cardinality(A \cup B) = Cardinality(A) + Cardinality(B)
<1>1. IsFiniteSet(A) /\ IsFiniteSet(B)
  BY FS_Subset, TarotAssumption
<1>2. /\ Cardinality(A \cup B) = Cardinality(A) + Cardinality(B) - Cardinality(A \cap B)
      /\ Cardinality(A \cap B) = 0
      /\ Cardinality(A) \in Nat /\ Cardinality(B) \in Nat
  BY <1>1, FS_Union, FS_EmptySet, FS_CardinalityType
<1> QED
  BY <1>2

\* The hands of a deal and its dog are the whole deck.
LEMMA DealtCards ==
  ASSUME NEW d \in Distributions, IsDeal(d)
  PROVE  Cardinality(CardsOf(d.dog)) = NumberOfDogCards
<1> DEFINE h   == d.hands
           all == UNION {h[p] : p \in Places}
<1>1. /\ h \in [Places -> SUBSET Cards]
      /\ \A p \in Places : Cardinality(h[p]) = HandSize
      /\ \A p, q \in Places : p # q => h[p] \cap h[q] = {}
      /\ CardsOf(d.dog) = Cards \ all
  BY DEF IsDeal, Distributions
<1>2. /\ NbPlayers \in 3..5 /\ HandSize \in Nat /\ IsFiniteSet(Cards)
      /\ NumberOfDogCards = Cardinality(Cards) - HandSize * NbPlayers
  BY TarotAssumption DEF NumberOfDogCards, DeckSize
<1>3. /\ 0 \in Places /\ 1 \in Places /\ 2 \in Places
      /\ NbPlayers >= 4 <=> 3 \in Places
      /\ NbPlayers = 5 <=> 4 \in Places
      /\ \A p \in Places : p \in 0..4
  BY <1>2 DEF Places
<1> DEFINE three == (h[0] \cup h[1]) \cup h[2]
           four  == three \cup h[3]
           five  == four \cup h[4]
<1>4. three \in SUBSET Cards /\ Cardinality(three) = 3 * HandSize
  <2>0. h[0] \in SUBSET Cards /\ h[1] \in SUBSET Cards /\ h[0] \cap h[1] = {}
    BY <1>1, <1>3
  <2>1. Cardinality(h[0] \cup h[1]) = HandSize + HandSize
    BY <1>1, <1>3, <2>0, CountApart
  <2>2. h[0] \cup h[1] \in SUBSET Cards /\ (h[0] \cup h[1]) \cap h[2] = {}
    BY <1>1, <1>3
  <2>3. Cardinality(three) = (HandSize + HandSize) + HandSize
    BY <1>1, <1>3, <2>1, <2>2, CountApart
  <2>4. (HandSize + HandSize) + HandSize = 3 * HandSize
    BY <1>2
  <2>5. three \in SUBSET Cards
    BY <1>1, <1>3
  <2> HIDE DEF three
  <2> QED
    BY <2>3, <2>4, <2>5
<1>5. ASSUME 3 \in Places
      PROVE  four \in SUBSET Cards /\ Cardinality(four) = 4 * HandSize
  <2>1. three \cap h[3] = {} /\ h[3] \in SUBSET Cards
    BY <1>1, <1>3, <1>5
  <2>2. 3 * HandSize \in Nat /\ 3 * HandSize + HandSize = 4 * HandSize
    BY <1>2
  <2> HIDE DEF three
  <2>3. Cardinality(four) = 3 * HandSize + HandSize
    BY <1>1, <1>2, <1>4, <1>5, <2>1, <2>2, CountApart
  <2>4. four \in SUBSET Cards
    BY <1>4, <2>1
  <2> HIDE DEF four
  <2> QED
    BY <2>2, <2>3, <2>4
<1>6. ASSUME 4 \in Places, 3 \in Places
      PROVE  five \in SUBSET Cards /\ Cardinality(five) = 5 * HandSize
  <2>1. four \cap h[4] = {} /\ h[4] \in SUBSET Cards
    BY <1>1, <1>3, <1>6
  <2>2. 4 * HandSize \in Nat /\ 4 * HandSize + HandSize = 5 * HandSize
    BY <1>2
  <2> HIDE DEF four
  <2>3. /\ four \in SUBSET Cards /\ Cardinality(four) = 4 * HandSize
        /\ Cardinality(h[4]) = HandSize
    BY <1>1, <1>5, <1>6
  <2>4. Cardinality(five) = 4 * HandSize + HandSize
    BY <2>1, <2>3, CountApart
  <2>5. five \in SUBSET Cards
    BY <2>1, <2>3
  <2> HIDE DEF five
  <2> QED
    BY <2>2, <2>4, <2>5
<1>7. all \in SUBSET Cards /\ Cardinality(all) = HandSize * NbPlayers
  <2>1. CASE NbPlayers = 3
    <3>1. all = three
      BY <2>1 DEF Places
    <3>2. HandSize * NbPlayers = 3 * HandSize
      BY <1>2, <2>1
    <3>3. three \in SUBSET Cards /\ Cardinality(three) = 3 * HandSize
      BY <1>4, <2>1
    <3> QED  BY <3>1, <3>2, <3>3
  <2>2. CASE NbPlayers = 4
    <3>1. all = four
      BY <2>2 DEF Places
    <3>2. HandSize * NbPlayers = 4 * HandSize
      BY <1>2, <2>2
    <3>3. four \in SUBSET Cards /\ Cardinality(four) = 4 * HandSize
      BY <1>3, <1>5, <2>2
    <3> QED  BY <3>1, <3>2, <3>3
  <2>3. CASE NbPlayers = 5
    <3>1. all = five
      BY <2>3 DEF Places
    <3>2. HandSize * NbPlayers = 5 * HandSize
      BY <1>2, <2>3
    <3>3. five \in SUBSET Cards /\ Cardinality(five) = 5 * HandSize
      BY <1>3, <1>5, <1>6, <2>3
    <3> QED  BY <3>1, <3>2, <3>3
  <2> QED
    BY <1>2, <2>1, <2>2, <2>3
<1> HIDE DEF all
<1>8. /\ Cardinality(Cards \ all) = Cardinality(Cards) - Cardinality(Cards \cap all)
      /\ Cards \cap all = all
  BY <1>2, <1>7, FS_Difference
<1> QED
  BY <1>1, <1>2, <1>7, <1>8

\* Engine::NewDeal gives every player his cards, whatever was in the hands.
LEMMA NewDealHands ==
  ASSUME NEW e \in Engines, NEW d \in Distributions, IsDeal(d)
  PROVE  HandInv(EngineNewDeal(e, d))
<1> DEFINE f == EngineNewDeal(e, d)
<1>1. f.seq = "CARDS" /\ f.hands = d.hands /\ f.ctx.dog = d.dog
  BY NewDealFields
<1> HIDE DEF f
<1>2. HandsDealt(f)
  BY <1>1, DealtCards DEF HandsDealt, IsDeal
<1>3. HandInv(f)
  BY <1>1, <1>2 DEF HandInv, InPlay, PlaySteps
<1> QED
  BY <1>3 DEF f

-----------------------------------------------------------------------------
(* The bids: nothing but the discard touches a hand. *)

\* A step of the bids that leaves the hands and the dog alone.
LEMMA BidsKeepHands ==
  ASSUME NEW e, NEW f, HandInv(e), e.seq \in BidSteps, f.seq \in BidSteps,
         f.hands = e.hands, f.ctx.dog = e.ctx.dog
  PROVE  HandInv(f)
BY StepKinds DEF HandInv, HandsDealt

\* Engine::SetBid leaves the cards.
LEMMA SetBidCards ==
  ASSUME NEW e \in Engines, NEW c, NEW slam, NEW p
  PROVE  LET f == EngineSetBid(e, c, slam, p)
         IN  f.hands = e.hands /\ f.ctx.dog = e.ctx.dog
<1> DEFINE new == CtxSetBid(e.ctx, c, slam, p)
           f   == EngineSetBid(e, c, slam, p)
<1>1. new.dog = e.ctx.dog
  BY EngineFields DEF CtxSetBid, Contexts
<1> HIDE DEF new
<1>2. f.hands = e.hands /\ f.ctx = new
  BY DEF EngineSetBid, new, Engines
<1> QED
  BY <1>1, <1>2

\* ManageAfterBidSequence leaves the cards.
LEMMA ManageAfterBidCards ==
  ASSUME NEW e \in Engines
  PROVE  LET f == ManageAfterBidSequence(e)
         IN  f.hands = e.hands /\ f.ctx.dog = e.ctx.dog
<1> DEFINE new == ManageDogAfterBid(e.ctx)
           f   == ManageAfterBidSequence(e)
<1>1. new.dog = e.ctx.dog
  BY EngineFields, ManageDogAfterBidType
<1> HIDE DEF new
<1>2. f.hands = e.hands /\ f.ctx = new
  BY DEF ManageAfterBidSequence, new, Engines
<1> QED
  BY <1>1, <1>2

\* A partner is recorded without touching the cards.
LEMMA PartnerCards ==
  ASSUME NEW e \in Engines, NEW x, NEW s
  PROVE  LET f == [e EXCEPT !.ctx.bid.partner = x, !.seq = s]
         IN  f.hands = e.hands /\ f.ctx.dog = e.ctx.dog
<1> DEFINE f   == [e EXCEPT !.ctx.bid.partner = x, !.seq = s]
           new == [e.ctx EXCEPT !.bid.partner = x]
<1>1. new.dog = e.ctx.dog
  BY EngineFields DEF Contexts
<1>2. f = [e EXCEPT !.ctx = new, !.seq = s]
  BY DEF Engines, Contexts
<1> HIDE DEF new
<1>3. f.hands = e.hands /\ f.ctx = new
  BY <1>2 DEF Engines
<1> QED
  BY <1>1, <1>3

\* Engine::BidSequence leaves the cards.
LEMMA BidSequenceCards ==
  ASSUME NEW e \in Engines
  PROVE  LET f == BidSequence(e)
         IN  f.hands = e.hands /\ f.ctx.dog = e.ctx.dog
<1> DEFINE f == BidSequence(e)
           g == IF IsEndOfTrick(e) THEN CountTrick(e) ELSE e
<1>1. CASE ~(IsEndOfTrick(e) \/ e.ctx.bid.slam)
  BY <1>1 DEF BidSequence, Engines
<1>2. CASE IsEndOfTrick(e) \/ e.ctx.bid.slam
  <2>1. g \in Engines /\ g.hands = e.hands /\ g.ctx = e.ctx
    BY CountTrickCorrect
  <2>2. f = IF g.ctx.bid.contract = PASS THEN [g EXCEPT !.seq = "ALL_PASSED"]
            ELSE IF NbPlayers = 5 /\ g.seq = "SHOW_BID"
            THEN [g EXCEPT !.ctx.bid.partner = g.ctx.bid.taker, !.seq = "KING_CALL"]
            ELSE ManageAfterBidSequence(g)
    BY <1>2 DEF BidSequence
  <2> HIDE DEF g, f
  <2>3. /\ [g EXCEPT !.seq = "ALL_PASSED"].hands = g.hands
        /\ [g EXCEPT !.seq = "ALL_PASSED"].ctx = g.ctx
    BY <2>1 DEF Engines
  <2>4. f.hands = g.hands /\ f.ctx.dog = g.ctx.dog
    BY <2>1, <2>2, <2>3, PartnerCards, ManageAfterBidCards
  <2> QED
    BY <2>1, <2>4 DEF f
<1> QED
  BY <1>1, <1>2

\* Engine::StartDeal leaves the hands.
LEMMA StartDealCards ==
  ASSUME NEW e \in Engines
  PROVE  EngineStartDeal(e).hands = e.hands
BY DEF EngineStartDeal, Engines

\* At the start of the play every hand is full and nobody has played.
LEMMA StartHands ==
  ASSUME NEW f \in Engines, EngineInv(f), f.seq = "START_DEAL",
         \A p \in Places : Cardinality(f.hands[p]) = HandSize
  PROVE  HandInv(f)
<1>1. f.position = 0 /\ f.trickCounter = 0
  BY DEF EngineInv, PlayInv
<1>2. Played(f) = {}
  <2>1. 0..(f.position - 1) = {}
    BY <1>1
  <2> QED
    BY <2>1 DEF Played
<1>3. HandsCounted(f)
  BY <1>1, <1>2, TarotAssumption DEF HandsCounted
<1>4. HandlesAsked(f)
  BY <1>1, <1>2 DEF HandlesAsked
<1> QED
  BY <1>3, <1>4 DEF HandInv, BidSteps

\* A pile without a repeated card has as many cards as places.
LEMMA PileSize ==
  ASSUME NEW pile \in Seq(Cards),
         \A i, j \in DOMAIN pile : pile[j] = pile[i] => j = i
  PROVE  /\ IsFiniteSet(CardsOf(pile))
         /\ Cardinality(CardsOf(pile)) = Len(pile)
<1>1. DOMAIN pile = 1..Len(pile) /\ Len(pile) \in Nat
  OBVIOUS
<1>2. IsFiniteSet(1..Len(pile)) /\ Cardinality(1..Len(pile)) = Len(pile)
  BY <1>1, FS_Interval
<1>3. pile \in Bijection(1..Len(pile), CardsOf(pile))
  <2>1. pile \in [1..Len(pile) -> CardsOf(pile)]
    BY <1>1 DEF CardsOf
  <2>2. pile \in Injection(1..Len(pile), CardsOf(pile))
    BY <1>1, <2>1 DEF Injection, IsInjective
  <2>3. pile \in Surjection(1..Len(pile), CardsOf(pile))
    BY <1>1, <2>1 DEF Surjection, CardsOf
  <2> QED
    BY <2>2, <2>3 DEF Bijection
<1>4. ExistsBijection(1..Len(pile), CardsOf(pile))
  BY <1>3 DEF ExistsBijection
<1> QED
  BY <1>2, <1>4, FS_Bijection

\* Engine::SetDiscard takes from the taker as many cards as the dog gave him.
LEMMA SetDiscardHands ==
  ASSUME NEW e \in Engines, EngineInv(e), HandInv(e), e.seq = "DISCARD",
         NEW discard \in Seq(Cards),
         TestDiscard(e.hands[e.ctx.bid.taker], discard, e.ctx.dog)
  PROVE  \A p \in Places : Cardinality(SetDiscard(e, discard).hands[p]) = HandSize
<1> DEFINE taker == e.ctx.bid.taker
           dog   == CardsOf(e.ctx.dog)
           out   == CardsOf(discard)
           held  == e.hands[taker]
           hand  == (held \cup dog) \ out
<1>1. /\ taker \in Places
      /\ \A p \in Places : \A i \in DOMAIN e.ctx.dog : e.ctx.dog[i] \notin e.hands[p]
  BY DEF EngineInv, TakerInv, CardsInv, BidSteps, DealSteps, HasTaker
<1>2. /\ \A p \in Places : Cardinality(e.hands[p]) = HandSize
      /\ Cardinality(dog) = NumberOfDogCards
  BY DEF HandInv, HandsDealt, BidSteps
<1>3. /\ e.hands \in [Places -> SUBSET Cards] /\ held \in SUBSET Cards
      /\ dog \in SUBSET Cards /\ held \cap dog = {}
  <2>1. e.hands \in [Places -> SUBSET Cards] /\ e.ctx.dog \in Seq(Cards)
    BY EngineFields, ContextFields
  <2> QED
    BY <1>1, <2>1 DEF CardsOf
<1>4. /\ Len(discard) = NumberOfDogCards /\ out \subseteq held \cup dog
      /\ \A i, j \in DOMAIN discard : discard[j] = discard[i] => j = i
  BY DEF TestDiscard, CardsOf
<1>5. IsFiniteSet(out) /\ Cardinality(out) = NumberOfDogCards
  BY <1>4, PileSize
<1>6. HandSize \in Nat /\ NumberOfDogCards \in Nat
  BY TarotAssumption
<1>7. \A p \in Places :
        SetDiscard(e, discard).hands[p] = IF p = taker THEN hand ELSE e.hands[p]
  BY <1>1, <1>3 DEF SetDiscard, Engines
<1>8. Cardinality(hand) = HandSize
  <2> DEFINE both == held \cup dog
  <2> HIDE DEF held, dog, out
  <2>1. both \in SUBSET Cards /\ Cardinality(both) = Cardinality(held) + Cardinality(dog)
    BY <1>3, CountApart
  <2>2. IsFiniteSet(both)
    BY <2>1, FS_Subset, TarotAssumption
  <2>3. both \cap out = out
    BY <1>4
  <2>4. Cardinality(both \ out) = Cardinality(both) - Cardinality(both \cap out)
    BY <1>5, <2>2, FS_Difference
  <2>5. Cardinality(held) = HandSize
    BY <1>1, <1>2 DEF held
  <2>6. Cardinality(both \ out) = (HandSize + NumberOfDogCards) - NumberOfDogCards
    BY <1>2, <1>5, <2>1, <2>3, <2>4, <2>5
  <2> QED
    BY <1>6, <2>6
<1> HIDE DEF hand, taker
<1> QED
  BY <1>2, <1>7, <1>8

-----------------------------------------------------------------------------
(* The play. *)

\* A step of the play that moves no card and no turn.
LEMMA PlayKeepsHands ==
  ASSUME NEW e, NEW f, HandInv(e), e.seq \in InPlay, f.seq \in InPlay,
         f.hands = e.hands, f.position = e.position, f.trickCounter = e.trickCounter,
         f.ctx.firstPlayer = e.ctx.firstPlayer, f.ctx.winner = e.ctx.winner,
         f.handleAsked \in SUBSET Places, e.handleAsked \subseteq f.handleAsked,
         f.seq = "PLAYED_CARD" => f.currentPlayer \in f.handleAsked
  PROVE  HandInv(f)
<1>1. HandsCounted(e) /\ HandlesAsked(e)
  BY DEF HandInv
<1>2. Played(f) = Played(e)
  BY DEF Played, TrickOpener
<1>3. HandsCounted(f)
  BY <1>1, <1>2 DEF HandsCounted
<1>4. HandlesAsked(f)
  <2>1. IF e.trickCounter = 0 THEN Played(e) \subseteq e.handleAsked
                              ELSE e.handleAsked = Places
    BY <1>1 DEF HandlesAsked
  <2>2. CASE e.trickCounter = 0
    <3>1. f.trickCounter = 0 /\ Played(f) \subseteq f.handleAsked
      BY <1>2, <2>1, <2>2
    <3> QED
      BY <3>1 DEF HandlesAsked
  <2>3. CASE e.trickCounter # 0
    <3>1. f.trickCounter # 0 /\ f.handleAsked = Places
      BY <2>1, <2>3
    <3> QED
      BY <3>1 DEF HandlesAsked
  <2> QED
    BY <2>2, <2>3
<1>5. f.seq \notin BidSteps
  BY StepKinds
<1> QED
  BY <1>3, <1>4, <1>5 DEF HandInv

\* Engine::SetHandle leaves the hands and the turn.
LEMMA SetHandleHands ==
  ASSUME NEW e \in Engines, HandInv(e), e.seq = "HANDLE",
         NEW handle \in Seq(Cards), NEW p
  PROVE  HandInv(EngineSetHandle(e, handle, p))
<1> DEFINE f   == EngineSetHandle(e, handle, p)
           new == CtxSetHandle(e.ctx, handle, p)
<1>1. new.firstPlayer = e.ctx.firstPlayer /\ new.winner = e.ctx.winner
  BY CtxSetHandleType, EngineFields
<1> HIDE DEF new
<1>2. /\ f.seq = "SHOW_HANDLE" /\ f.ctx = new /\ f.hands = e.hands
      /\ f.position = e.position /\ f.trickCounter = e.trickCounter
      /\ f.handleAsked = e.handleAsked
  BY DEF EngineSetHandle, new, Engines
<1> HIDE DEF f
<1>3. e.handleAsked \in SUBSET Places /\ "HANDLE" \in InPlay /\ "SHOW_HANDLE" \in InPlay
  BY EngineFields DEF InPlay, PlaySteps
<1>4. HandInv(f)
  BY <1>1, <1>2, <1>3, PlayKeepsHands
<1> QED
  BY <1>4 DEF f

\* The player in turn has not played yet, and is the next to have.
LEMMA NextToPlay ==
  ASSUME NEW o \in Places, NEW n \in Places
  PROVE  /\ Forward(o, n) \in Places
         /\ Forward(o, n) \notin {Forward(o, k) : k \in 0..(n - 1)}
         /\ {Forward(o, k) : k \in 0..n}
              = {Forward(o, k) : k \in 0..(n - 1)} \cup {Forward(o, n)}
<1>1. n \in Nat /\ n < NbPlayers /\ NbPlayers \in 3..5
  BY TarotAssumption DEF Places
<1>2. \A k \in 0..(n - 1) : k \in Places /\ k # n
  BY <1>1 DEF Places
<1>3. Forward(o, n) \notin {Forward(o, k) : k \in 0..(n - 1)}
  BY <1>2, ForwardInjective
<1>4. 0..n = 0..(n - 1) \cup {n}
  BY <1>1
<1>5. Forward(o, n) \in Places
  BY ForwardType
<1> QED
  BY <1>3, <1>4, <1>5

\* After a whole round everybody has played.
LEMMA WholeRound ==
  ASSUME NEW o \in Places
  PROVE  {Forward(o, k) : k \in 0..(NbPlayers - 1)} = Places
<1>1. \A k \in Places : Forward(o, k) \in Places
  BY ForwardType
<1>2. ASSUME NEW p \in Places
      PROVE  \E k \in Places : p = Forward(o, k)
  <2>1. /\ p >= o => p - o \in Places /\ p = Forward(o, p - o)
        /\ p < o => p + NbPlayers - o \in Places /\ p = Forward(o, p + NbPlayers - o)
    BY TarotAssumption DEF Places, Forward
  <2>2. p >= o \/ p < o
    BY TarotAssumption DEF Places
  <2> QED
    BY <2>1, <2>2
<1> QED
  BY <1>1, <1>2 DEF Places

\* Engine::SetCard: the player in turn has one card less and has played.
LEMMA SetCardHands ==
  ASSUME NEW e \in Engines, EngineInv(e), HandInv(e), e.seq = "PLAYED_CARD",
         NEW c \in e.hands[e.currentPlayer]
  PROVE  HandInv(SetCard(e, c, e.currentPlayer))
<1> DEFINE f      == SetCard(e, c, e.currentPlayer)
           player == e.currentPlayer
           opener == TrickOpener(e.ctx, e.trickCounter)
<1>1. InTrick(e) /\ e.position < NbPlayers
  BY DEF EngineInv, PlayInv, PlaySteps
<1>2. e.position \in 0..NbPlayers /\ e.position \in Places
  BY <1>1, EngineFields, TarotAssumption DEF Places
<1>3. opener \in Places /\ player = Forward(opener, e.position)
  BY <1>1 DEF InTrick
<1>4. HandsCounted(e) /\ HandlesAsked(e)
  BY DEF HandInv, InPlay, PlaySteps
<1>5. /\ player \in Places /\ player \notin Played(e)
      /\ {Forward(opener, k) : k \in 0..e.position} = Played(e) \cup {player}
  BY <1>2, <1>3, NextToPlay DEF Played
<1>6. /\ f.seq = "SHOW_CARD" /\ f.ctx = e.ctx /\ f.trickCounter = e.trickCounter
      /\ f.position = e.position + 1 /\ f.handleAsked = e.handleAsked
      /\ \A p \in Places :
           f.hands[p] = IF p = player THEN e.hands[player] \ {c} ELSE e.hands[p]
  <2>1. e.hands \in [Places -> SUBSET Cards]
    BY EngineFields
  <2> QED
    BY <1>5, <2>1 DEF SetCard, Engines
<1>7. Played(f) = Played(e) \cup {player}
  <2>1. f.position - 1 = e.position
    BY <1>2, <1>6
  <2> HIDE DEF f
  <2> QED
    BY <1>5, <1>6, <2>1 DEF Played
<1> HIDE DEF f
<1>8. Cardinality(f.hands[player]) = Cardinality(e.hands[player]) - 1
  <2>1. IsFiniteSet(e.hands[player])
    BY <1>5, HandFinite
  <2>2. f.hands[player] = e.hands[player] \ {c}
    BY <1>5, <1>6
  <2> QED
    BY <2>1, <2>2, FS_RemoveElement
<1>9. HandsCounted(f)
  <2> SUFFICES ASSUME NEW p \in Places
               PROVE  Cardinality(f.hands[p]) = HandSize - f.trickCounter
                                                  - (IF p \in Played(f) THEN 1 ELSE 0)
    BY DEF HandsCounted
  <2>1. HandSize \in Int /\ e.trickCounter \in Int
    BY EngineFields, TarotAssumption, EngineAssumption
  <2>2. CASE p = player
    <3>1. p \in Played(f) /\ p \notin Played(e)
      BY <1>5, <1>7, <2>2
    <3>2. Cardinality(e.hands[player]) = HandSize - e.trickCounter
      BY <1>4, <1>5, <2>1, <2>2, <3>1 DEF HandsCounted
    <3> QED
      BY <1>6, <1>8, <2>1, <2>2, <3>1, <3>2
  <2>3. CASE p # player
    <3>1. (p \in Played(f)) = (p \in Played(e)) /\ f.hands[p] = e.hands[p]
      BY <1>6, <1>7, <2>3
    <3> QED
      BY <1>4, <1>6, <3>1 DEF HandsCounted
  <2> QED
    BY <2>2, <2>3
<1>10. HandlesAsked(f)
  BY <1>4, <1>5, <1>6, <1>7 DEF HandlesAsked
<1>11. HandInv(f)
  BY <1>6, <1>9, <1>10 DEF HandInv, BidSteps
<1> QED
  BY <1>11 DEF f

\* The end of a trick: everybody has played a card, and been asked.
LEMMA FinishTrickHands ==
  ASSUME NEW e \in Engines, EngineInv(e), HandInv(e), e.seq = "SHOW_CARD", IsEndOfTrick(e)
  PROVE  HandInv(FinishTrick(e))
<1> DEFINE f == FinishTrick(e)
           g == CountTrick(e)
<1>1. InTrick(e) /\ HandsCounted(e) /\ HandlesAsked(e)
  BY DEF EngineInv, PlayInv, HandInv, InPlay, PlaySteps
<1>2. e.position = NbPlayers /\ TrickOpener(e.ctx, e.trickCounter) \in Places
  BY <1>1, EngineFields, TarotAssumption DEF IsEndOfTrick, InTrick
<1>3. Played(e) = Places
  BY <1>2, WholeRound DEF Played
<1>4. /\ g \in Engines /\ g.position = 0 /\ g.hands = e.hands
      /\ g.handleAsked = e.handleAsked /\ g.trickCounter = e.trickCounter + 1
  BY <1>1, CountTrickCorrect DEF InTrick
<1> DEFINE new == SetTrick(g.ctx, g.trick, g.trickCounter)
           win == new.winner[g.trickCounter - 1]
<1>5. f = [g EXCEPT !.ctx = new, !.currentPlayer = win, !.trick = << >>, !.seq = "END_OF_TRICK"]
  BY DEF FinishTrick
<1> HIDE DEF g, new, win, f
<1>6. /\ f.seq = "END_OF_TRICK" /\ f.position = 0 /\ f.hands = e.hands
      /\ f.handleAsked = e.handleAsked /\ f.trickCounter = e.trickCounter + 1
  BY <1>4, <1>5 DEF Engines
<1>7. /\ f.trickCounter # 0
      /\ HandSize - f.trickCounter = HandSize - e.trickCounter - 1
      /\ HandSize - f.trickCounter - 0 = HandSize - f.trickCounter
  <2>1. e.trickCounter \in 0..(CounterMod - 1) /\ CounterMod \in Nat /\ HandSize \in 2..24
    BY EngineFields, TarotAssumption, EngineAssumption
  <2> QED
    BY <1>6, <2>1
<1>8. Played(f) = {}
  <2>1. 0..(f.position - 1) = {}
    BY <1>6
  <2> QED
    BY <2>1 DEF Played
<1>9. HandsCounted(f)
  BY <1>1, <1>3, <1>6, <1>7, <1>8 DEF HandsCounted
<1>10. HandlesAsked(f)
  <2>1. e.handleAsked \in SUBSET Places
    BY EngineFields
  <2>2. e.handleAsked = Places
    <3>1. CASE e.trickCounter = 0
      <4>1. Places \subseteq e.handleAsked
        BY <1>1, <1>3, <3>1 DEF HandlesAsked
      <4> QED
        BY <2>1, <4>1
    <3>2. CASE e.trickCounter # 0
      BY <1>1, <3>2 DEF HandlesAsked
    <3> QED
      BY <3>1, <3>2
  <2> QED
    BY <1>6, <1>7, <2>2 DEF HandlesAsked
<1>11. HandInv(f)
  BY <1>6, <1>9, <1>10 DEF HandInv, BidSteps
<1> QED
  BY <1>11 DEF f

\* GameSequence, when the trick is not over: who plays next has been asked.
LEMMA AskPlayerHands ==
  ASSUME NEW e \in Engines, EngineInv(e), HandInv(e), ~IsEndOfTrick(e),
         e.seq \in {"START_DEAL", "HANDLE", "SHOW_HANDLE", "SHOW_CARD", "END_OF_TRICK"}
  PROVE  HandInv(EngineGameSequence(e))
<1> DEFINE f     == EngineGameSequence(e)
           ask   == e.trickCounter = 0 /\ e.currentPlayer \notin e.handleAsked
<1>1. e.seq \in InPlay /\ InTrick(e) /\ HandsCounted(e) /\ HandlesAsked(e)
  BY DEF EngineInv, PlayInv, HandInv, InPlay, PlaySteps
<1>2. /\ e.position \in 0..NbPlayers /\ e.position < NbPlayers
      /\ e.handleAsked \in SUBSET Places
  BY EngineFields, TarotAssumption DEF IsEndOfTrick
<1>3. e.currentPlayer \in Places
  <2>1. e.position \in Places
    BY <1>2, TarotAssumption DEF Places
  <2> QED
    BY <1>1, <1>2, <2>1, ForwardType DEF InTrick
<1>4. /\ f.ctx = e.ctx /\ f.hands = e.hands /\ f.position = e.position
      /\ f.trickCounter = e.trickCounter /\ f.currentPlayer = e.currentPlayer
      /\ f.seq \in {"HANDLE", "PLAYED_CARD"}
      /\ f.handleAsked = IF ask THEN e.handleAsked \cup {e.currentPlayer} ELSE e.handleAsked
  BY DEF EngineGameSequence, Engines
<1> HIDE DEF f
<1>5. f.handleAsked \in SUBSET Places /\ e.handleAsked \subseteq f.handleAsked
  BY <1>2, <1>3, <1>4
<1>6. f.currentPlayer \in f.handleAsked
  BY <1>1, <1>3, <1>4 DEF HandlesAsked
<1>7. f.seq \in InPlay
  BY <1>4 DEF InPlay, PlaySteps
<1>8. HandInv(f)
  BY <1>1, <1>4, <1>5, <1>6, <1>7, PlayKeepsHands
<1> QED
  BY <1>8 DEF f

-----------------------------------------------------------------------------
(* The table: every request keeps the invariant on the hands. *)

\* What each step of the table starts from and leads to.
Between == Inv /\ HandInv(engine) /\ Inv'

\* The engine is correct before and after the step.
LEMMA BetweenFacts ==
  ASSUME Between
  PROVE  /\ Inv /\ HandInv(engine)
         /\ engine \in Engines /\ EngineInv(engine)
         /\ engine' \in Engines /\ EngineInv(engine')
BY DEF Between, Inv, TypeOK, TableInv

\* PlayingTable::NewDeal.
LEMMA NewDealStepHands ==
  ASSUME Between, NEW sc, NewDeal(sc)
  PROVE  HandInv(engine')
<1>1. PICK d \in Deals : engine' = EngineNewDeal(engine, d)
  BY DEF NewDeal
<1>2. d \in Distributions /\ IsDeal(d)
  BY TableAssumption
<1> QED
  BY <1>1, <1>2, BetweenFacts, NewDealHands

\* PlayingTable::SendNextBidSequence: the bids go on, or the play starts with
\* the hands that were dealt.
LEMMA NextBidHands ==
  ASSUME Between, engine.seq \in BidSteps, NEW e \in Engines, NextBidSequence(e),
         e.seq \in BidSteps \cup {"START_DEAL"},
         e.hands = engine.hands, e.ctx.dog = engine.ctx.dog
  PROVE  HandInv(engine')
<1>1. engine' = AfterBids(e)
  BY DEF NextBidSequence
<1>2. CASE e.seq = "START_DEAL"
  <2>1. engine' = EngineStartDeal(e)
    BY <1>1, <1>2 DEF AfterBids
  <2>2. engine'.hands = engine.hands
    BY <2>1, StartDealCards
  <2>3. engine'.seq = "START_DEAL"
    BY <1>2, <2>1 DEF EngineStartDeal, Engines
  <2>4. \A p \in Places : Cardinality(engine.hands[p]) = HandSize
    BY BetweenFacts DEF HandInv, HandsDealt
  <2> QED
    BY <2>2, <2>3, <2>4, BetweenFacts, StartHands
<1>3. CASE e.seq # "START_DEAL"
  <2>1. engine' = e /\ e.seq \in BidSteps
    BY <1>1, <1>3 DEF AfterBids
  <2> QED
    BY <2>1, BetweenFacts, BidsKeepHands
<1> QED
  BY <1>2, <1>3

\* PlayingTable::GameSequence.
LEMMA GameStepHands ==
  ASSUME Between, GameSequence,
         engine.seq \in {"START_DEAL", "HANDLE", "SHOW_HANDLE", "SHOW_CARD", "END_OF_TRICK"}
  PROVE  HandInv(engine')
<1> DEFINE e == EngineGameSequence(engine)
<1>1. engine' = IF IsLastTrick(e) THEN EngineEndOfDeal(e) ELSE e
  BY DEF GameSequence
<1>2. CASE IsLastTrick(e)
  <2>1. e \in Engines
    BY BetweenFacts, GameSequenceCorrect
  <2> HIDE DEF e
  <2>2. engine'.seq = "END_OF_DEAL"
    BY <1>1, <1>2, <2>1 DEF EngineEndOfDeal, Engines
  <2> QED
    BY <2>2, IdleHands
<1>3. CASE ~IsLastTrick(e)
  <2>1. engine' = e
    BY <1>1, <1>3
  <2>2. CASE IsEndOfTrick(engine)
    <3>1. e = FinishTrick(engine)
      BY <2>2 DEF EngineGameSequence
    <3>2. engine.seq = "SHOW_CARD"
      <4>1. /\ engine.position \in 0..NbPlayers /\ NbPlayers \in 3..5
            /\ engine.seq \in {"START_DEAL", "END_OF_TRICK"} => engine.position = 0
            /\ engine.seq \in {"HANDLE", "SHOW_HANDLE"} => engine.position < NbPlayers
        BY BetweenFacts, EngineFields, TarotAssumption DEF EngineInv, PlayInv
      <4> QED
        BY <2>2, <4>1 DEF IsEndOfTrick
    <3> QED
      BY <2>1, <2>2, <3>1, <3>2, BetweenFacts, FinishTrickHands
  <2>3. CASE ~IsEndOfTrick(engine)
    BY <2>1, <2>3, BetweenFacts, AskPlayerHands
  <2> QED
    BY <2>2, <2>3
<1> QED
  BY <1>2, <1>3

\* Every seat has acknowledged the current step.
LEMMA AllSyncedHands ==
  ASSUME Between, AllSynced(engine.seq)
  PROVE  HandInv(engine')
<1>1. CASE engine.seq = "PLAYERS"
  <2>1. engine' = engine \/ engine' = EngineNewGame(engine)
    BY <1>1 DEF AllSynced, NewGame
  <2>2. EngineNewGame(engine).seq = "READY"
    BY BetweenFacts, NewGameCorrect
  <2> QED
    BY <1>1, <2>1, <2>2, IdleHands
<1>2. CASE engine.seq \in {"READY", "ALL_PASSED"}
  <2>1. NewDeal(score)
    BY <1>2 DEF AllSynced
  <2> QED
    BY <2>1, NewDealStepHands
<1>3. CASE engine.seq \in {"CARDS", "SHOW_BID"}
  <2> DEFINE e == BidSequence(engine)
  <2>1. NextBidSequence(e)
    BY <1>3 DEF AllSynced
  <2>2. /\ e \in Engines /\ e.hands = engine.hands /\ e.ctx.dog = engine.ctx.dog
        /\ e.seq \in {"BID", "ALL_PASSED"} \cup
             IF NbPlayers = 5 THEN {"KING_CALL"} ELSE {"SHOW_DOG", "START_DEAL"}
    BY <1>3, BetweenFacts, BidSequenceCorrect, BidSequenceCards
  <2> HIDE DEF e
  <2>3. engine.seq \in BidSteps /\ e.seq \in BidSteps \cup {"START_DEAL"}
    BY <1>3, <2>2 DEF BidSteps
  <2> QED
    BY <2>1, <2>2, <2>3, NextBidHands
<1>4. CASE engine.seq = "SHOW_KING_CALL"
  <2> DEFINE e == ManageAfterBidSequence(engine)
  <2>1. NextBidSequence(e)
    BY <1>4 DEF AllSynced
  <2>2. /\ e \in Engines /\ e.hands = engine.hands /\ e.ctx.dog = engine.ctx.dog
        /\ e.seq \in {"SHOW_DOG", "START_DEAL"}
    BY <1>4, BetweenFacts, AfterKingCallCorrect, ManageAfterBidCards
  <2> HIDE DEF e
  <2>3. engine.seq \in BidSteps /\ e.seq \in BidSteps \cup {"START_DEAL"}
    BY <1>4, <2>2 DEF BidSteps
  <2> QED
    BY <2>1, <2>2, <2>3, NextBidHands
<1>5. CASE engine.seq = "SHOW_DOG"
  <2>1. engine' = DiscardSequence(engine)
    BY <1>5 DEF AllSynced
  <2>2. engine'.seq = "DISCARD" /\ engine'.hands = engine.hands /\ engine'.ctx = engine.ctx
    BY <2>1, BetweenFacts DEF DiscardSequence, Engines
  <2>3. engine.seq \in BidSteps /\ engine'.seq \in BidSteps
    BY <1>5, <2>2 DEF BidSteps
  <2> QED
    BY <2>2, <2>3, BetweenFacts, BidsKeepHands
<1>6. CASE engine.seq \in {"START_DEAL", "SHOW_HANDLE", "SHOW_CARD", "END_OF_TRICK"}
  <2>1. GameSequence
    BY <1>6 DEF AllSynced
  <2> QED
    BY <1>6, <2>1, GameStepHands
<1>7. CASE engine.seq = "END_OF_DEAL"
  <2>1. EndOfDeal
    BY <1>7 DEF AllSynced
  <2>2. NewDeal(AddPoints(score, engine.points, engine.ctx.bid))
          \/ engine' = EngineNewGame(engine)
    BY <2>1 DEF EndOfDeal
  <2>3. EngineNewGame(engine).seq = "READY"
    BY BetweenFacts, NewGameCorrect
  <2> QED
    BY <2>2, <2>3, NewDealStepHands, IdleHands
<1> QED
  BY <1>1, <1>2, <1>3, <1>4, <1>5, <1>6, <1>7 DEF AllSynced

\* A barrier is completed only by an acknowledgement of the current step.
LEMMA AckNamesStep ==
  ASSUME Inv, NEW u \in Users, NEW step \in AckSteps, Ack(u, step),
         \A q \in Places : Sync(u, step)[q]
  PROVE  engine.seq = step
<1>1. engine.seq # step => Sync(u, step) = ack
  BY SyncFacts DEF Ack
<1>2. \E q \in Places : ~ack[q]
  BY DEF Inv, TableInv, AckInv
<1> QED
  BY <1>1, <1>2

\* "Ack" runs the step that the engine is in, or leaves the engine.
LEMMA AckHands ==
  ASSUME Between, NEW u \in Users, SomeAck(u)
  PROVE  HandInv(engine')
<1>1. PICK step \in AckSteps : Ack(u, step)
  BY DEF SomeAck
<1>2. CASE \A q \in Places : Sync(u, step)[q]
  <2>1. AllSynced(step)
    BY <1>1, <1>2 DEF Ack
  <2>2. engine.seq = step
    BY <1>1, <1>2, BetweenFacts, AckNamesStep
  <2> QED
    BY <2>1, <2>2, AllSyncedHands
<1>3. CASE ~ \A q \in Places : Sync(u, step)[q]
  <2>1. engine' = engine
    BY <1>1, <1>3 DEF Ack
  <2> QED
    BY <2>1, BetweenFacts
<1> QED
  BY <1>2, <1>3

\* The answers of the player whose turn it is.
LEMMA AnswerHands ==
  ASSUME Between, NEW u \in Users,
         SomeBid(u) \/ SomeDiscard(u) \/ SomeKingCall(u) \/ SomeHandle(u) \/ SomeCard(u)
  PROVE  HandInv(engine')
<1>1. CASE SomeBid(u)
  <2>1. PICK b \in BidChoices : ReplyBid(u, b.contract, b.slam)
    BY <1>1 DEF SomeBid
  <2>2. /\ engine.seq = "BID"
        /\ engine' = EngineSetBid(engine, b.contract, b.slam, engine.currentPlayer)
    BY <2>1 DEF ReplyBid, Answers
  <2>3. engine'.seq = "SHOW_BID"
    BY <2>2, BetweenFacts DEF EngineSetBid, Engines
  <2>4. engine'.hands = engine.hands /\ engine'.ctx.dog = engine.ctx.dog
    BY <2>2, BetweenFacts, SetBidCards
  <2>5. engine.seq \in BidSteps /\ engine'.seq \in BidSteps
    BY <2>2, <2>3 DEF BidSteps
  <2> QED
    BY <2>4, <2>5, BetweenFacts, BidsKeepHands
<1>2. CASE SomeDiscard(u)
  <2>1. PICK d \in Discards : Discard(u, d)
    BY <1>2 DEF SomeDiscard
  <2>2. d \in Seq(Cards)
    BY TableAssumption
  <2>3. /\ engine.seq = "DISCARD"
        /\ TestDiscard(engine.hands[engine.ctx.bid.taker], d, engine.ctx.dog)
        /\ engine' = EngineStartDeal(SetDiscard(engine, d))
    BY <2>1 DEF Discard, Answers
  <2>4. SetDiscard(engine, d) \in Engines /\ SetDiscard(engine, d).seq = "START_DEAL"
    BY <2>2, <2>3, BetweenFacts, SetDiscardCorrect
  <2>5. \A p \in Places : Cardinality(SetDiscard(engine, d).hands[p]) = HandSize
    BY <2>2, <2>3, BetweenFacts, SetDiscardHands
  <2>6. engine'.hands = SetDiscard(engine, d).hands
    BY <2>3, <2>4, StartDealCards
  <2>7. engine'.seq = "START_DEAL"
    BY <2>3, <2>4 DEF EngineStartDeal, Engines
  <2> QED
    BY <2>5, <2>6, <2>7, BetweenFacts, StartHands
<1>3. CASE SomeKingCall(u)
  <2>1. PICK c \in KingCalls : ReplyKingCall(u, c)
    BY <1>3 DEF SomeKingCall
  <2>2. engine.seq = "KING_CALL" /\ engine' = SetKingCalled(engine, c)
    BY <2>1 DEF ReplyKingCall, Answers
  <2>3. engine'.seq = "SHOW_KING_CALL"
    BY <2>2, BetweenFacts, SetKingCalledCorrect
  <2>4. engine'.hands = engine.hands /\ engine'.ctx.dog = engine.ctx.dog
    BY <2>2, BetweenFacts, PartnerCards DEF SetKingCalled
  <2>5. engine.seq \in BidSteps /\ engine'.seq \in BidSteps
    BY <2>2, <2>3 DEF BidSteps
  <2> QED
    BY <2>4, <2>5, BetweenFacts, BidsKeepHands
<1>4. CASE SomeHandle(u)
  <2>1. CASE NoHandle(u)
    BY <2>1, GameStepHands DEF NoHandle, Answers
  <2>2. CASE \E h \in Handles : ShowHandle(u, h)
    <3>1. PICK h \in Handles : ShowHandle(u, h)
      BY <2>2
    <3>2. h \in Seq(Cards)
      BY TableAssumption
    <3>3. /\ engine.seq = "HANDLE"
          /\ engine' = EngineSetHandle(engine, h, engine.currentPlayer)
      BY <3>1 DEF ShowHandle, Answers
    <3> QED
      BY <3>2, <3>3, BetweenFacts, SetHandleHands
  <2> QED
    BY <1>4, <2>1, <2>2 DEF SomeHandle
<1>5. CASE SomeCard(u)
  <2>1. PICK c \in Cards : PlayCard(u, c)
    BY <1>5 DEF SomeCard
  <2>2. /\ engine.seq = "PLAYED_CARD" /\ c \in engine.hands[engine.currentPlayer]
        /\ engine' = SetCard(engine, c, engine.currentPlayer)
    BY <2>1 DEF PlayCard, Answers, CanPlayCard
  <2> QED
    BY <2>2, BetweenFacts, SetCardHands
<1> QED
  BY <1>1, <1>2, <1>3, <1>4, <1>5

\* Every request keeps the invariant on the hands.
LEMMA NextHands == Inv /\ HandInv(engine) /\ [Next]_vars => HandInv(engine)'
<1> SUFFICES ASSUME Inv, HandInv(engine), [Next]_vars PROVE HandInv(engine')
  BY DEF HandInv, HandsDealt, HandsCounted, HandlesAsked, Played
<1>1. Between
  BY NextInv DEF Between
<1>2. CASE engine' = engine
  BY <1>2
<1>3. ASSUME NEW u \in Users, SomeAck(u) PROVE HandInv(engine')
  BY <1>1, <1>3, AckHands
<1>4. ASSUME NEW u \in Users, SomeNewGame(u) PROVE HandInv(engine')
  <2>1. engine'.seq = "READY"
    BY <1>4, RequestNewGameStep
  <2> QED
    BY <2>1, IdleHands
<1>5. ASSUME NEW u \in Users,
             SomeBid(u) \/ SomeDiscard(u) \/ SomeKingCall(u) \/ SomeHandle(u) \/ SomeCard(u)
      PROVE  HandInv(engine')
  BY <1>1, <1>5, AnswerHands
<1>6. ASSUME NEW u \in Users, AddPlayer(u) \/ RemovePlayer(u) PROVE engine' = engine
  BY <1>6 DEF AddPlayer, RemovePlayer
<1> QED
  BY <1>2, <1>3, <1>4, <1>5, <1>6 DEF Next, vars

-----------------------------------------------------------------------------
(* The theorems. *)

\* Every player holds the cards that the step says, in every game: full hands
\* through the bids, whoever takes and discards; then one card less for each
\* trick.
THEOREM HandsCorrect == Spec => [](Inv /\ HandInv(engine))
<1>1. Init => HandInv(engine)
  <2> SUFFICES ASSUME Init PROVE HandInv(engine)
    OBVIOUS
  <2>1. engine.seq = "PLAYERS"
    BY CreateTableCorrect DEF Init
  <2> QED
    BY <2>1, IdleHands
<1>2. Inv /\ HandInv(engine) /\ [Next]_vars => HandInv(engine)'
  BY NextHands
<1> QED
  BY <1>1, <1>2, InvCorrect, PTL DEF Spec

\* While cards are played the turn is the one that the tricks say, and nobody
\* plays twice in a trick or is passed over: Engine::SetCard moves the player
\* in turn before the trick is closed, and GameSequence moves him again.
THEOREM TurnOrderCorrect == Spec => []TurnOrder
<1>1. Inv /\ HandInv(engine) => TurnOrder
  <2> SUFFICES ASSUME Inv, HandInv(engine), engine.seq \in PlaySteps
               PROVE  TurnOrder
    BY DEF TurnOrder
  <2>1. engine \in Engines /\ EngineInv(engine)
    BY DEF Inv, TypeOK, TableInv
  <2>2. InTrick(engine) /\ HandsCounted(engine)
    BY <2>1 DEF EngineInv, PlayInv, HandInv, InPlay
  <2>3. engine.trickCounter \in Turns
    <3>1. engine.trickCounter \in 0..(CounterMod - 1) /\ engine.trickCounter < HandSize
      BY <2>1, <2>2, EngineFields DEF InTrick
    <3> QED
      BY <3>1, TarotAssumption, EngineAssumption DEF Turns
  <2> QED
    BY <2>2, <2>3 DEF TurnOrder, InTrick, HandsCounted, Played, ctx
<1> QED
  BY <1>1, HandsCorrect, PTL

\* A player who is asked for a card holds one that the rules accept.
LEMMA CardsToPlay == Inv /\ HandInv(engine) => SomeCardPlayable
<1> SUFFICES ASSUME Inv, HandInv(engine), engine.seq = "PLAYED_CARD"
             PROVE  \E c \in Cards :
                      CanPlayCard(engine.hands[engine.currentPlayer], c, engine.trick)
  BY DEF SomeCardPlayable
<1> DEFINE player == engine.currentPlayer
           opener == TrickOpener(engine.ctx, engine.trickCounter)
<1>1. engine \in Engines /\ EngineInv(engine)
  BY DEF Inv, TypeOK, TableInv
<1>2. InTrick(engine) /\ HandsCounted(engine) /\ engine.position < NbPlayers
  BY <1>1 DEF EngineInv, PlayInv, HandInv, InPlay, PlaySteps
<1>3. opener \in Places /\ player = Forward(opener, engine.position)
  BY <1>2 DEF InTrick
<1>4. engine.position \in Places
  BY <1>1, <1>2, EngineFields, TarotAssumption DEF Places
<1>5. player \in Places /\ player \notin Played(engine)
  BY <1>3, <1>4, NextToPlay DEF Played
<1>6. Cardinality(engine.hands[player]) = HandSize - engine.trickCounter - 0
  BY <1>2, <1>5 DEF HandsCounted
<1>7. HandSize - engine.trickCounter - 0 # 0
  <2>1. engine.trickCounter \in 0..(CounterMod - 1) /\ engine.trickCounter < HandSize
    BY <1>1, <1>2, EngineFields DEF InTrick
  <2> QED
    BY <2>1, TarotAssumption, EngineAssumption
<1>8. engine.hands[player] \in SUBSET Cards /\ engine.hands[player] # {}
  BY <1>1, <1>5, <1>6, <1>7, HandFinite, FS_EmptySet
<1>9. engine.trick \in Seq(Cards)
  BY <1>1, EngineFields
<1> QED
  BY <1>8, <1>9, PlayableCardExists

\* Whoever is asked to play holds a card that Deck::CanPlayCard accepts, so a
\* table never waits for a card that the rules forbid.
THEOREM SomeCardPlayableCorrect == Spec => []SomeCardPlayable
<1>1. Inv /\ HandInv(engine) => SomeCardPlayable
  BY CardsToPlay
<1> QED
  BY <1>1, HandsCorrect, PTL

\* Every player is asked for his handle before his first card, also in a deal
\* that follows one abandoned at any step.
THEOREM HandleAskedCorrect == Spec => []HandleAskedFirst
<1>1. Inv /\ HandInv(engine) => HandleAskedFirst
  <2> SUFFICES ASSUME Inv, HandInv(engine), engine.seq \in PlaySteps \cup {"START_DEAL"}
               PROVE  HandleAskedFirst
    BY DEF HandleAskedFirst
  <2>1. engine \in Engines /\ EngineInv(engine)
    BY DEF Inv, TypeOK, TableInv
  <2>2. HandsCounted(engine) /\ HandlesAsked(engine)
    BY DEF HandInv, InPlay
  <2>3. engine.seq = "START_DEAL" => engine.handleAsked = {}
    BY <2>1 DEF EngineInv, PlayInv
  <2>4. ASSUME NEW p \in Places, Cardinality(engine.hands[p]) < HandSize
        PROVE  p \in engine.handleAsked
    <3>1. CASE engine.trickCounter = 0
      <4>1. p \in Played(engine)
        <5>1. HandSize \in Nat
          BY TarotAssumption
        <5> SUFFICES ASSUME p \notin Played(engine) PROVE FALSE
          OBVIOUS
        <5>2. Cardinality(engine.hands[p]) = HandSize - 0 - 0
          BY <2>2, <3>1 DEF HandsCounted
        <5> QED
          BY <2>4, <5>1, <5>2
      <4> QED
        BY <2>2, <3>1, <4>1 DEF HandlesAsked
    <3>2. CASE engine.trickCounter # 0
      BY <2>2, <3>2 DEF HandlesAsked
    <3> QED
      BY <3>1, <3>2
  <2>5. engine.seq = "PLAYED_CARD" => engine.currentPlayer \in engine.handleAsked
    BY <2>2 DEF HandlesAsked
  <2> QED
    BY <2>3, <2>4, <2>5 DEF HandleAskedFirst
<1> QED
  BY <1>1, HandsCorrect, PTL

-----------------------------------------------------------------------------
(* Nobody is asked for a handle twice in a deal. *)

\* A step that asks nobody, and keeps the players already asked if it stays in
\* the play of the cards.
LEMMA AsksNobody ==
  ASSUME \A i \in DOMAIN sent' : sent'[i].cmd # "AskForHandle",
         \/ engine'.handleAsked = engine.handleAsked
         \/ engine.seq \notin InPlay
         \/ engine'.seq \notin InPlay
  PROVE  AsksOnce
BY DEF AsksOnce, InPlay

\* A reply to all players is what it says.
LEMMA ToAll ==
  ASSUME NEW cmd, NEW arg
  PROVE  SendToAllPlayers(cmd, arg).cmd = cmd
BY DEF SendToAllPlayers, Reply

\* PlayingTable::GameSequence.
LEMMA GameStepAsks ==
  ASSUME Between, GameSequence,
         engine.seq \in {"START_DEAL", "HANDLE", "SHOW_HANDLE", "SHOW_CARD", "END_OF_TRICK"}
  PROVE  AsksOnce
<1> DEFINE e == EngineGameSequence(engine)
<1>1. /\ engine' = IF IsLastTrick(e) THEN EngineEndOfDeal(e) ELSE e
      /\ sent' = << IF IsLastTrick(e) THEN SendToAllPlayers("EndOfDeal", e.points)
                    ELSE CASE e.seq = "END_OF_TRICK" -> SendToAllPlayers("EndOfTrick", e.currentPlayer)
                           [] e.seq = "PLAYED_CARD"  -> SendToAllPlayers("PlayCard", e.currentPlayer)
                           [] e.seq = "HANDLE"       -> Reply({uuid[e.currentPlayer]}, "AskForHandle", << >>) >>
  BY DEF GameSequence
<1>2. /\ e \in Engines
      /\ ~IsLastTrick(e) => e.seq \in {"HANDLE", "PLAYED_CARD", "END_OF_TRICK"}
  BY BetweenFacts, GameSequenceCorrect
<1>3. CASE IsLastTrick(e)
  <2> HIDE DEF e
  <2>1. engine'.seq = "END_OF_DEAL"
    BY <1>1, <1>2, <1>3 DEF EngineEndOfDeal, Engines
  <2>2. engine'.seq \notin InPlay
    BY <2>1 DEF InPlay, PlaySteps
  <2>3. \A i \in DOMAIN sent' : sent'[i].cmd # "AskForHandle"
    BY <1>1, <1>3, ToAll
  <2> QED
    BY <2>2, <2>3, AsksNobody
<1>4. CASE ~IsLastTrick(e) /\ e.seq # "HANDLE"
  <2>1. e.handleAsked = engine.handleAsked
    <3>1. CASE IsEndOfTrick(engine)
      <4>1. e = FinishTrick(engine)
        BY <3>1 DEF EngineGameSequence
      <4>2. CountTrick(engine) \in Engines /\ CountTrick(engine).handleAsked = engine.handleAsked
        BY BetweenFacts, CountTrickCorrect
      <4> QED
        BY <4>1, <4>2 DEF FinishTrick, Engines
    <3>2. CASE ~IsEndOfTrick(engine)
      BY <1>4, <3>2, BetweenFacts DEF EngineGameSequence, Engines
    <3> QED
      BY <3>1, <3>2
  <2> HIDE DEF e
  <2>2. \A i \in DOMAIN sent' : sent'[i].cmd # "AskForHandle"
    BY <1>1, <1>2, <1>4, ToAll
  <2> QED
    BY <1>1, <1>4, <2>1, <2>2, AsksNobody
<1>5. CASE ~IsLastTrick(e) /\ e.seq = "HANDLE"
  <2>1. ~IsEndOfTrick(engine)
    <3> SUFFICES ASSUME IsEndOfTrick(engine) PROVE FALSE
      OBVIOUS
    <3>1. e = FinishTrick(engine)
      BY DEF EngineGameSequence
    <3>2. e.seq = "END_OF_TRICK"
      BY <3>1, BetweenFacts DEF FinishTrick, CountTrick, Engines
    <3> QED
      BY <1>5, <3>2
  <2>2. /\ engine.currentPlayer \notin engine.handleAsked
        /\ e.handleAsked = engine.handleAsked \cup {engine.currentPlayer}
        /\ e.currentPlayer = engine.currentPlayer
    BY <1>5, <2>1, BetweenFacts DEF EngineGameSequence, Engines
  <2> HIDE DEF e
  <2> QED
    BY <1>1, <1>5, <2>2 DEF AsksOnce
<1> QED
  BY <1>3, <1>4, <1>5

\* PlayingTable::NewDeal asks nobody.
LEMMA NewDealAsks ==
  ASSUME Between, NEW sc, NewDeal(sc)
  PROVE  AsksOnce
<1>1. PICK d \in Deals : engine' = EngineNewDeal(engine, d) /\ sent' = SendCards(engine')
  BY DEF NewDeal
<1>2. engine'.seq = "CARDS"
  BY <1>1, BetweenFacts DEF EngineNewDeal, Engines
<1>3. \A i \in DOMAIN sent' : sent'[i].cmd # "AskForHandle"
  BY <1>1 DEF SendCards, Reply
<1>4. engine'.seq \notin InPlay
  BY <1>2 DEF InPlay, PlaySteps
<1> QED
  BY <1>3, <1>4, AsksNobody

\* PlayingTable::SendNextBidSequence asks nobody.
LEMMA NextBidAsks ==
  ASSUME Between, engine.seq \in BidSteps, NEW e \in Engines, NextBidSequence(e),
         e.seq \in {"BID", "KING_CALL", "ALL_PASSED", "START_DEAL", "SHOW_DOG"}
  PROVE  AsksOnce
<1>1. engine' = AfterBids(e) /\ sent' = <<SendNextBidSequence(engine')>>
  BY DEF NextBidSequence
<1>2. engine'.seq = e.seq
  BY <1>1 DEF AfterBids, EngineStartDeal, Engines
<1>3. SendNextBidSequence(engine').cmd # "AskForHandle"
  BY <1>2, ToAll DEF SendNextBidSequence, SendStartDeal
<1>4. \A i \in DOMAIN sent' : sent'[i].cmd # "AskForHandle"
  BY <1>1, <1>3
<1> QED
  BY <1>4, StepKinds, AsksNobody

\* Every seat has acknowledged the current step.
LEMMA AllSyncedAsks ==
  ASSUME Between, AllSynced(engine.seq)
  PROVE  AsksOnce
<1>1. CASE engine.seq = "PLAYERS"
  <2>1. sent' = << >> \/ \E arg : sent' = <<SendToAllPlayers("NewGame", arg)>>
    BY <1>1 DEF AllSynced, NewGame
  <2>2. \A i \in DOMAIN sent' : sent'[i].cmd # "AskForHandle"
    BY <2>1, ToAll
  <2>3. engine.seq \notin InPlay
    BY <1>1 DEF InPlay, PlaySteps
  <2> QED
    BY <2>2, <2>3, AsksNobody
<1>2. CASE engine.seq \in {"READY", "ALL_PASSED"}
  <2>1. NewDeal(score)
    BY <1>2 DEF AllSynced
  <2> QED
    BY <2>1, NewDealAsks
<1>3. CASE engine.seq \in {"CARDS", "SHOW_BID"}
  <2> DEFINE e == BidSequence(engine)
  <2>1. NextBidSequence(e)
    BY <1>3 DEF AllSynced
  <2>2. /\ e \in Engines
        /\ e.seq \in {"BID", "ALL_PASSED"} \cup
             IF NbPlayers = 5 THEN {"KING_CALL"} ELSE {"SHOW_DOG", "START_DEAL"}
    BY <1>3, BetweenFacts, BidSequenceCorrect
  <2> HIDE DEF e
  <2>3. engine.seq \in BidSteps
        /\ e.seq \in {"BID", "KING_CALL", "ALL_PASSED", "START_DEAL", "SHOW_DOG"}
    BY <1>3, <2>2 DEF BidSteps
  <2> QED
    BY <2>1, <2>2, <2>3, NextBidAsks
<1>4. CASE engine.seq = "SHOW_KING_CALL"
  <2> DEFINE e == ManageAfterBidSequence(engine)
  <2>1. NextBidSequence(e)
    BY <1>4 DEF AllSynced
  <2>2. e \in Engines /\ e.seq \in {"SHOW_DOG", "START_DEAL"}
    BY <1>4, BetweenFacts, AfterKingCallCorrect
  <2> HIDE DEF e
  <2>3. engine.seq \in BidSteps
    BY <1>4 DEF BidSteps
  <2> QED
    BY <2>1, <2>2, <2>3, NextBidAsks
<1>5. CASE engine.seq = "SHOW_DOG"
  <2>1. sent' = <<Reply({uuid[engine.ctx.bid.taker]}, "BuildDiscard", << >>)>>
    BY <1>5 DEF AllSynced
  <2>2. \A i \in DOMAIN sent' : sent'[i].cmd # "AskForHandle"
    BY <2>1 DEF Reply
  <2>3. engine.seq \notin InPlay
    BY <1>5 DEF InPlay, PlaySteps
  <2> QED
    BY <2>2, <2>3, AsksNobody
<1>6. CASE engine.seq \in {"START_DEAL", "SHOW_HANDLE", "SHOW_CARD", "END_OF_TRICK"}
  <2>1. GameSequence
    BY <1>6 DEF AllSynced
  <2> QED
    BY <1>6, <2>1, GameStepAsks
<1>7. CASE engine.seq = "END_OF_DEAL"
  <2>1. EndOfDeal
    BY <1>7 DEF AllSynced
  <2>2. CASE NewDeal(AddPoints(score, engine.points, engine.ctx.bid))
    BY <2>2, NewDealAsks
  <2>3. CASE \E arg : sent' = <<SendToAllPlayers("EndOfGame", arg)>>
    <3>1. \A i \in DOMAIN sent' : sent'[i].cmd # "AskForHandle"
      BY <2>3, ToAll
    <3>2. engine.seq \notin InPlay
      BY <1>7 DEF InPlay, PlaySteps
    <3> QED
      BY <3>1, <3>2, AsksNobody
  <2> QED
    BY <2>1, <2>2, <2>3 DEF EndOfDeal
<1> QED
  BY <1>1, <1>2, <1>3, <1>4, <1>5, <1>6, <1>7 DEF AllSynced

\* The answers of the player whose turn it is: only one who declines a handle
\* makes the table go on at once.
LEMMA AnswerAsks ==
  ASSUME Between, NEW u \in Users,
         SomeBid(u) \/ SomeDiscard(u) \/ SomeKingCall(u) \/ SomeHandle(u) \/ SomeCard(u)
  PROVE  AsksOnce
<1>1. CASE SomeBid(u) \/ SomeDiscard(u) \/ SomeKingCall(u)
  <2>1. engine.seq \in {"BID", "DISCARD", "KING_CALL"}
    BY <1>1 DEF SomeBid, SomeDiscard, SomeKingCall, ReplyBid, Discard, ReplyKingCall, Answers
  <2>2. \/ sent' = << >>
        \/ \E cmd \in {"ShowBid", "StartDeal", "ShowKingCall"} : \E arg :
             sent' = <<SendToAllPlayers(cmd, arg)>>
    BY <1>1 DEF SomeBid, SomeDiscard, SomeKingCall, ReplyBid, Discard, ReplyKingCall,
                SendStartDeal
  <2>3. \A i \in DOMAIN sent' : sent'[i].cmd # "AskForHandle"
    BY <2>2, ToAll
  <2>4. engine.seq \notin InPlay
    BY <2>1 DEF InPlay, PlaySteps
  <2> QED
    BY <2>3, <2>4, AsksNobody
<1>2. CASE SomeHandle(u)
  <2>1. CASE NoHandle(u)
    BY <2>1, GameStepAsks DEF NoHandle, Answers
  <2>2. CASE \E h \in Handles : ShowHandle(u, h)
    <3>1. PICK h \in Handles : ShowHandle(u, h)
      BY <2>2
    <3>2. engine'.handleAsked = engine.handleAsked
      BY <3>1, BetweenFacts DEF ShowHandle, EngineSetHandle, Engines
    <3>3. \A i \in DOMAIN sent' : sent'[i].cmd # "AskForHandle"
      BY <3>1, ToAll DEF ShowHandle
    <3> QED
      BY <3>2, <3>3, AsksNobody
  <2> QED
    BY <1>2, <2>1, <2>2 DEF SomeHandle
<1>3. CASE SomeCard(u)
  <2>1. PICK c \in Cards : PlayCard(u, c)
    BY <1>3 DEF SomeCard
  <2>2. engine'.handleAsked = engine.handleAsked
    BY <2>1, BetweenFacts DEF PlayCard, SetCard, Engines
  <2>3. \A i \in DOMAIN sent' : sent'[i].cmd # "AskForHandle"
    BY <2>1, ToAll DEF PlayCard
  <2> QED
    BY <2>2, <2>3, AsksNobody
<1> QED
  BY <1>1, <1>2, <1>3

\* Every request of a player or of the lobby.
LEMMA NextAsks == Inv /\ HandInv(engine) /\ [Next]_vars => [AsksOnce]_vars
<1> SUFFICES ASSUME Inv, HandInv(engine), Next PROVE AsksOnce
  OBVIOUS
<1>1. Between
  BY NextInv DEF Between
<1>2. CASE sent' = << >> /\ engine' = engine
  <2>1. DOMAIN sent' = {}
    BY <1>2
  <2> QED
    BY <1>2, <2>1, AsksNobody
<1>3. ASSUME NEW u \in Users, SomeAck(u) PROVE AsksOnce
  <2>1. PICK step \in AckSteps : Ack(u, step)
    BY <1>3 DEF SomeAck
  <2>2. CASE \A q \in Places : Sync(u, step)[q]
    <3>1. AllSynced(step)
      BY <2>1, <2>2 DEF Ack
    <3>2. engine.seq = step
      BY <2>1, <2>2, AckNamesStep
    <3> QED
      BY <1>1, <3>1, <3>2, AllSyncedAsks
  <2>3. CASE ~ \A q \in Places : Sync(u, step)[q]
    <3>1. sent' = << >> /\ engine' = engine
      BY <2>1, <2>3 DEF Ack
    <3> QED
      BY <1>2, <3>1
  <2> QED
    BY <2>2, <2>3
<1>4. ASSUME NEW u \in Users, SomeNewGame(u) PROVE AsksOnce
  <2>1. engine'.seq = "READY"
    BY <1>4, RequestNewGameStep
  <2>2. \E arg : sent' = <<SendToAllPlayers("NewGame", arg)>>
    BY <1>4 DEF SomeNewGame, RequestNewGame, NewGame
  <2>3. \A i \in DOMAIN sent' : sent'[i].cmd # "AskForHandle"
    BY <2>2, ToAll
  <2>4. engine'.seq \notin InPlay
    BY <2>1 DEF InPlay, PlaySteps
  <2> QED
    BY <2>3, <2>4, AsksNobody
<1>5. ASSUME NEW u \in Users,
             SomeBid(u) \/ SomeDiscard(u) \/ SomeKingCall(u) \/ SomeHandle(u) \/ SomeCard(u)
      PROVE  AsksOnce
  BY <1>1, <1>5, AnswerAsks
<1>6. ASSUME NEW u \in Users, AddPlayer(u) \/ RemovePlayer(u) PROVE AsksOnce
  BY <1>2, <1>6 DEF AddPlayer, RemovePlayer
<1> QED
  BY <1>3, <1>4, <1>5, <1>6 DEF Next

\* At every table the question for a handle goes to each player at most once in
\* a deal, however players answer, leave, join or start games.
THEOREM HandleAskedOnceCorrect == Spec => HandleAskedOnce
<1> QED
  BY HandsCorrect, NextAsks, PTL DEF Spec, HandleAskedOnce

=============================================================================
