----------------------------- MODULE RuleProofs -----------------------------
(***************************************************************************)
(* Facts about the operators of Tarot, Deck, TarotContext and Score, for   *)
(* every number of players and every deck: going round the table, the card *)
(* that leads a trick and the card that may always be played; the types    *)
(* that the methods of TarotContext keep; the scores of a deal, which sum  *)
(* to zero.                                                                *)
(***************************************************************************)
EXTENDS Score, TLAPS, FiniteSetTheorems

-----------------------------------------------------------------------------
(* Places. *)

\* Place::Next always leads to a seat of the table, also from NOWHERE.
LEMMA NextPlaceType ==
  ASSUME NEW p \in PlaceOrNowhere
  PROVE  NextPlace(p) \in Places
BY TarotAssumption DEF NextPlace, PlaceOrNowhere, Places, NOWHERE

\* Place::Previous stays at the table.
LEMMA PreviousType ==
  ASSUME NEW p \in Places
  PROVE  Previous(p) \in Places
BY TarotAssumption DEF Previous, Places

\* Less than one round from a seat leads to a seat.
LEMMA ForwardType ==
  ASSUME NEW p \in Places, NEW k \in Places
  PROVE  Forward(p, k) \in Places
BY TarotAssumption DEF Forward, Places

\* Going k seats forward and then to the next one is going k + 1 forward.
LEMMA ForwardNext ==
  ASSUME NEW p \in Places, NEW k \in Nat, k + 1 < NbPlayers
  PROVE  NextPlace(Forward(p, k)) = Forward(p, k + 1)
BY TarotAssumption DEF Forward, NextPlace, Places, NOWHERE

\* Two players of the same round sit on different places.
LEMMA ForwardInjective ==
  ASSUME NEW p \in Places, NEW j \in Places, NEW k \in Places,
         Forward(p, j) = Forward(p, k)
  PROVE  j = k
BY TarotAssumption DEF Forward, Places

-----------------------------------------------------------------------------
(* Cards. *)

\* A card of the deck has a value of 0 to 21.
LEMMA CardValue == \A c \in Cards : c.value \in 0..21
BY TarotAssumption DEF AllCards

\* The fool is the only card of value 0 (Card::IsValid).
LEMMA CardType == \A c \in Cards : IsFool(c) \/ c.value \in 1..21
BY TarotAssumption DEF AllCards, IsValidCard, IsFool, TRUMPS

\* Counting down from 20 is a bijection of the positions of a search.
LEMMA Mirror == \A k \in 1..20 : 20 - k \in 0..19 /\ 20 - (20 - k) = k
OBVIOUS

\* A non-empty set of card values has a greatest one.
LEMMA GreatestValue ==
  ASSUME NEW S \in SUBSET (0..21), S # {}
  PROVE  \E m \in S : \A x \in S : x <= m
<1>1. SUFFICES ASSUME \A m \in S : \E x \in S : m < x
               PROVE  FALSE
  OBVIOUS
<1>2. \A m \in 17..21 : m \notin S
  <2>1. 21 \notin S  BY <1>1
  <2>2. 20 \notin S  BY <1>1, <2>1
  <2>3. 19 \notin S  BY <1>1, <2>1, <2>2
  <2>4. 18 \notin S  BY <1>1, <2>1, <2>2, <2>3
  <2>5. 17 \notin S  BY <1>1, <2>1, <2>2, <2>3, <2>4
  <2>6. QED  BY <2>1, <2>2, <2>3, <2>4, <2>5
<1>3. \A m \in 12..21 : m \notin S
  <2>1. 16 \notin S  BY <1>1, <1>2
  <2>2. 15 \notin S  BY <1>1, <1>2, <2>1
  <2>3. 14 \notin S  BY <1>1, <1>2, <2>1, <2>2
  <2>4. 13 \notin S  BY <1>1, <1>2, <2>1, <2>2, <2>3
  <2>5. 12 \notin S  BY <1>1, <1>2, <2>1, <2>2, <2>3, <2>4
  <2>6. QED  BY <1>2, <2>1, <2>2, <2>3, <2>4, <2>5
<1>4. \A m \in 6..21 : m \notin S
  <2>1. 11 \notin S  BY <1>1, <1>3
  <2>2. 10 \notin S  BY <1>1, <1>3, <2>1
  <2>3. 9 \notin S   BY <1>1, <1>3, <2>1, <2>2
  <2>4. 8 \notin S   BY <1>1, <1>3, <2>1, <2>2, <2>3
  <2>5. 7 \notin S   BY <1>1, <1>3, <2>1, <2>2, <2>3, <2>4
  <2>6. 6 \notin S   BY <1>1, <1>3, <2>1, <2>2, <2>3, <2>4, <2>5
  <2>7. QED  BY <1>3, <2>1, <2>2, <2>3, <2>4, <2>5, <2>6
<1>5. \A m \in 0..21 : m \notin S
  <2>1. 5 \notin S  BY <1>1, <1>4
  <2>2. 4 \notin S  BY <1>1, <1>4, <2>1
  <2>3. 3 \notin S  BY <1>1, <1>4, <2>1, <2>2
  <2>4. 2 \notin S  BY <1>1, <1>4, <2>1, <2>2, <2>3
  <2>5. 1 \notin S  BY <1>1, <1>4, <2>1, <2>2, <2>3, <2>4
  <2>6. 0 \notin S  BY <1>1, <1>4, <2>1, <2>2, <2>3, <2>4, <2>5
  <2>7. QED  BY <1>4, <2>1, <2>2, <2>3, <2>4, <2>5, <2>6
<1>6. QED
  BY <1>5

-----------------------------------------------------------------------------
(* Tricks. *)

\* Deck::HighestTrump finds a card whenever a trump other than the fool has
\* been played.
LEMMA HighestTrumpExists ==
  ASSUME NEW t \in Seq(Cards), NEW k \in DOMAIN t, IsTrump(t[k]), t[k].value > 0
  PROVE  \E i \in DOMAIN t : IsHighestTrump(t, i)
<1> DEFINE I == {i \in DOMAIN t : IsTrump(t[i])}
           S == {t[i].value : i \in I}
<1>1. S \in SUBSET (0..21) /\ S # {}
  <2>1. \A i \in DOMAIN t : t[i] \in Cards
    OBVIOUS
  <2>2. \A i \in I : t[i].value \in 0..21
    BY <2>1, CardValue
  <2>3. k \in I
    OBVIOUS
  <2> QED
    BY <2>2, <2>3
<1>2. PICK m \in S : \A x \in S : x <= m
  <2> HIDE DEF S
  <2> QED  BY <1>1, GreatestValue
<1>3. PICK i \in I : t[i].value = m
  OBVIOUS
<1>4. \A j \in DOMAIN t : IsTrump(t[j]) => t[j].value <= t[i].value
  BY <1>2, <1>3
<1>5. t[i].value > 0
  <2>1. t[i] \in Cards /\ t[k] \in Cards /\ t[k].value <= t[i].value
    BY <1>4
  <2>2. t[i].value \in 0..21 /\ t[k].value \in 0..21
    <3> HIDE DEF I, S
    <3> QED  BY <2>1, CardValue
  <2>3. \A a, b \in 0..21 : a > 0 /\ a <= b => b > 0
    OBVIOUS
  <2> HIDE DEF I, S
  <2>4. QED  BY <2>1, <2>2, <2>3
<1>6. QED
  BY <1>3, <1>4, <1>5 DEF IsHighestTrump

\* A trick of at most 20 cards that are not all trumps has a first plain card.
LEMMA FirstPlainExists ==
  ASSUME NEW t \in Seq(Cards), Len(t) <= 20, NEW k \in DOMAIN t, ~IsTrump(t[k])
  PROVE  \E l \in DOMAIN t : ~IsTrump(t[l]) /\ \A j \in 1..(l - 1) : IsTrump(t[j])
<1> DEFINE S == {x \in 0..19 : 20 - x \in DOMAIN t /\ ~IsTrump(t[20 - x])}
<1>1. DOMAIN t = 1..Len(t) /\ Len(t) \in Nat
  OBVIOUS
<1>2. S \in SUBSET (0..21) /\ S # {}
  <2>1. 20 - k \in 0..19 /\ 20 - (20 - k) = k
    <3>1. k \in 1..20
      BY <1>1
    <3>2. QED  BY <3>1, Mirror
  <2>2. 20 - k \in S
    BY <2>1
  <2>3. QED  BY <2>2
<1>3. PICK m \in S : \A x \in S : x <= m
  <2> HIDE DEF S
  <2> QED  BY <1>2, GreatestValue
<1>4. \A j \in 1..((20 - m) - 1) : IsTrump(t[j])
  <2> SUFFICES ASSUME NEW j \in 1..((20 - m) - 1), ~IsTrump(t[j])
               PROVE  FALSE
    OBVIOUS
  <2>1. j \in DOMAIN t /\ 20 - j \in 0..19 /\ 20 - (20 - j) = j /\ ~(20 - j <= m)
    BY <1>1
  <2>2. 20 - j \in S
    BY <2>1
  <2>3. QED  BY <1>3, <2>1, <2>2
<1>5. QED
  BY <1>4

\* Deck::HighestSuit finds a card whenever a plain card has been played.
LEMMA HighestSuitExists ==
  ASSUME NEW t \in Seq(Cards), Len(t) <= 20, NEW k \in DOMAIN t, ~IsTrump(t[k])
  PROVE  \E i \in DOMAIN t : IsHighestSuit(t, i)
<1>1. PICK l \in DOMAIN t : ~IsTrump(t[l]) /\ \A j \in 1..(l - 1) : IsTrump(t[j])
  BY FirstPlainExists
<1> DEFINE I == {i \in DOMAIN t : t[i].suit = t[l].suit}
           S == {t[i].value : i \in I}
<1>2. S \in SUBSET (0..21) /\ S # {}
  <2>1. l \in I /\ \A i \in I : t[i] \in Cards
    OBVIOUS
  <2> HIDE DEF I
  <2>2. QED  BY <2>1, CardValue
<1>3. PICK m \in S : \A x \in S : x <= m
  <2> HIDE DEF S
  <2> QED  BY <1>2, GreatestValue
<1>4. PICK i \in I : t[i].value = m
  OBVIOUS
<1>5. \A j \in DOMAIN t : t[j].suit = t[i].suit => t[j].value <= t[i].value
  BY <1>3, <1>4
<1>6. QED
  BY <1>1, <1>4, <1>5 DEF IsHighestSuit, IsTrump

\* The leader that SetTrick looks for exists: "cLeader cannot be invalid" holds
\* of every trick with a card that is not the fool.
LEMMA LeaderExists ==
  ASSUME NEW t \in Seq(Cards), Len(t) <= 20, NEW k \in DOMAIN t, ~IsFool(t[k])
  PROVE  LeaderIndex(t) \in DOMAIN t
<1>1. CASE \E i \in DOMAIN t : IsHighestTrump(t, i)
  BY <1>1 DEF LeaderIndex
<1>2. CASE ~ \E i \in DOMAIN t : IsHighestTrump(t, i)
  <2>1. ~IsTrump(t[k])
    BY <1>2, HighestTrumpExists, CardType DEF IsFool, IsTrump
  <2>2. \E i \in DOMAIN t : IsHighestSuit(t, i)
    BY <2>1, HighestSuitExists
  <2>3. QED  BY <1>2, <2>2 DEF LeaderIndex
<1>3. QED
  BY <1>1, <1>2

-----------------------------------------------------------------------------
(* The rules always leave a card to play. *)

\* Deck::CanPlayCard accepts some card of every non-empty hand, whatever has
\* been played before: a player is never blocked by the rules.
THEOREM PlayableCardExists ==
  ASSUME NEW hand \in SUBSET Cards, hand # {}, NEW t \in Seq(Cards)
  PROVE  \E c \in hand : CanPlayCard(hand, c, t)
<1>1. PICK any \in hand : TRUE
  OBVIOUS
<1>2. CASE t = << >> \/ (IsFool(t[1]) /\ Len(t) = 1)
  BY <1>1, <1>2 DEF CanPlayCard
<1>3. CASE \E c \in hand : IsFool(c)
  BY <1>3 DEF CanPlayCard
<1>4. CASE /\ ~(t = << >> \/ (IsFool(t[1]) /\ Len(t) = 1))
           /\ ~ \E c \in hand : IsFool(c)
  <2> DEFINE suit == RequestedSuit(t)
  <2>1. CASE suit # TRUMPS /\ \E c \in hand : c.suit = suit
    BY <1>4, <2>1 DEF CanPlayCard
  <2>2. CASE suit = TRUMPS \/ \A h \in hand : h.suit # suit
    <3>1. ASSUME NEW c \in hand, TestPlayTrump(hand, c, t)
          PROVE  CanPlayCard(hand, c, t)
      BY <1>4, <2>2, <3>1 DEF CanPlayCard
    <3>2. CASE Trumps(hand) = {}
      <4>1. TestPlayTrump(hand, any, t)
        BY <1>1, <3>2 DEF TestPlayTrump, Trumps
      <4>2. QED  BY <3>1, <4>1
    <3>3. CASE HasHigherTrump(hand, t)
      <4>1. PICK h \in Trumps(hand) :
              /\ h.value > 0
              /\ \A i \in DOMAIN t : IsTrump(t[i]) => h.value > t[i].value
        BY <3>3 DEF HasHigherTrump
      <4>2. h \in hand /\ IsTrump(h) /\ HasHigherTrump({h}, t)
        BY <4>1 DEF HasHigherTrump, Trumps
      <4>3. QED  BY <3>1, <4>2 DEF TestPlayTrump
    <3>4. CASE Trumps(hand) # {} /\ ~HasHigherTrump(hand, t)
      <4>1. PICK h \in hand : IsTrump(h)
        BY <3>4 DEF Trumps
      <4>2. QED  BY <3>1, <3>4, <4>1 DEF TestPlayTrump
    <3>5. QED  BY <3>2, <3>3, <3>4
  <2>3. QED  BY <2>1, <2>2
<1>5. QED
  BY <1>2, <1>3, <1>4

-----------------------------------------------------------------------------
(* Every method of TarotContext leaves a context of the right type. *)

\* A deal has at least two turns, so the last two can be read.
LEMMA TurnsFacts == 0 \in Turns /\ HandSize - 1 \in Turns /\ HandSize - 2 \in Turns
BY TarotAssumption DEF Turns

\* The cleared tricks of TarotContext::Initialize.
LEMMA NoTricksType == [t \in Turns |-> << >>] \in [Turns -> Seq(Cards)]
<1>1. << >> \in Seq(Cards)
  OBVIOUS
<1>2. QED  BY <1>1

\* The bid left by Bid::Initialize.
LEMMA NoBidType == NoBid \in Bids
BY DEF NoBid, Bids, PlaceOrNowhere, Contracts, NO_ANY, GUARD_AGAINST

\* The context of a new table.
LEMMA NewContextType == NewContext \in Contexts
<1>1. << >> \in Seq(Cards)
  OBVIOUS
<1>2. [t \in Turns |-> "NO_TEAM"] \in [Turns -> Teams]
  BY DEF Teams
<1>3. NOWHERE \in PlaceOrNowhere
  BY DEF PlaceOrNowhere
<1>4. [t \in Turns |-> NOWHERE] \in [Turns -> PlaceOrNowhere]
  BY <1>3
<1>5. QED
  BY <1>1, <1>2, <1>3, <1>4, NoTricksType, NoBidType DEF NewContext, Contexts, Teams

\* TarotContext::Initialize keeps the type.
LEMMA CtxInitializeType ==
  ASSUME NEW ctx \in Contexts
  PROVE  /\ CtxInitialize(ctx) \in Contexts
         /\ CtxInitialize(ctx).bid = NoBid
<1>1. << >> \in Seq(Cards)
  OBVIOUS
<1> DEFINE zero  == 0
           none  == << >>
           empty == [t \in Turns |-> none]
           new   == [ctx EXCEPT !.bid = NoBid, !.discard = none, !.attackHandle = zero,
                                !.defenseHandle = zero, !.tricks = empty, !.tricksWon = zero,
                                !.points = zero, !.oudlers = zero]
<1>2. CtxInitialize(ctx) = new
  BY DEF CtxInitialize
<1>3. /\ zero \in Nat /\ zero \in Int
      /\ none \in Seq(Cards) /\ empty \in [Turns -> Seq(Cards)]
  BY <1>1, NoTricksType
<1> HIDE DEF zero, none, empty
<1>4. new \in Contexts /\ new.bid = NoBid
  BY <1>3, NoBidType DEF Contexts
<1> HIDE DEF new
<1>5. QED
  BY <1>2, <1>4

\* SetBid keeps the highest bid; once somebody has spoken there is a taker.
LEMMA CtxSetBidType ==
  ASSUME NEW ctx \in Contexts, NEW c \in PASS..GUARD_AGAINST, NEW slam \in BOOLEAN,
         NEW p \in Places
  PROVE  LET new == CtxSetBid(ctx, c, slam, p)
         IN  /\ new \in Contexts
             /\ new.bid.contract >= PASS
             /\ ctx.bid.contract >= PASS => new.bid.contract >= ctx.bid.contract
             /\ new.bid.partner = ctx.bid.partner
             /\ new.bid.taker = p \/ (new.bid.taker = ctx.bid.taker /\ ctx.bid.contract >= PASS)
             /\ new.dog = ctx.dog
<1>1. /\ ctx.bid \in Bids
      /\ ctx.bid.contract \in 0..5
      /\ c \in 1..5
  BY DEF Contexts, Bids, Contracts, NO_ANY, PASS, GUARD_AGAINST
<1>2. p \in PlaceOrNowhere /\ c \in Contracts
  BY <1>1 DEF PlaceOrNowhere, Contracts, NO_ANY, GUARD_AGAINST
<1>3. CASE c > ctx.bid.contract
  <2>1. ASSUME NEW k \in Contracts, NEW q \in PlaceOrNowhere
        PROVE  LET b == [ctx.bid EXCEPT !.contract = k, !.taker = q, !.slam = slam]
               IN  /\ b \in Bids
                   /\ b.contract = k /\ b.taker = q /\ b.partner = ctx.bid.partner
    BY <1>1 DEF Bids
  <2>2. ASSUME NEW b \in Bids
        PROVE  LET new == [ctx EXCEPT !.bid = b]
               IN  new \in Contexts /\ new.bid = b /\ new.dog = ctx.dog
    BY DEF Contexts
  <2> DEFINE b == [ctx.bid EXCEPT !.contract = c, !.taker = p, !.slam = slam]
  <2>3. CtxSetBid(ctx, c, slam, p) = [ctx EXCEPT !.bid = b]
    BY <1>3 DEF CtxSetBid, Contexts, Bids
  <2>4. b \in Bids /\ b.contract = c /\ b.taker = p /\ b.partner = ctx.bid.partner
    BY <1>2, <2>1
  <2> HIDE DEF b
  <2>5. QED  BY <1>1, <1>3, <2>2, <2>3, <2>4 DEF PASS
<1>4. CASE ~(c > ctx.bid.contract)
  <2>1. CtxSetBid(ctx, c, slam, p) = ctx
    BY <1>4 DEF CtxSetBid
  <2>2. QED  BY <1>1, <1>4, <2>1 DEF PASS
<1>5. QED
  BY <1>3, <1>4

\* TarotContext::SetHandle keeps the type and the bid.
LEMMA CtxSetHandleType ==
  ASSUME NEW ctx \in Contexts, NEW handle \in Seq(Cards), NEW p
  PROVE  LET new == CtxSetHandle(ctx, handle, p)
         IN  /\ new \in Contexts
             /\ new.bid = ctx.bid
             /\ new.firstPlayer = ctx.firstPlayer
             /\ new.winner = ctx.winner
<1>1. Len(handle) \in Nat
  OBVIOUS
<1>2. QED
  BY <1>1 DEF CtxSetHandle, Contexts

\* TarotContext::ManageDogAfterBid keeps the type and the bid.
LEMMA ManageDogAfterBidType ==
  ASSUME NEW ctx \in Contexts
  PROVE  /\ ManageDogAfterBid(ctx) \in Contexts
         /\ ManageDogAfterBid(ctx).bid = ctx.bid
         /\ ManageDogAfterBid(ctx).dog = ctx.dog
BY DEF ManageDogAfterBid, Contexts, Teams

-----------------------------------------------------------------------------
(* Counting. *)

\* The half points of a pile are an integer.
LEMMA PilePointsType ==
  ASSUME NEW pile \in Seq(Cards)
  PROVE  PilePoints(pile) \in Int
<1>1. \A c \in Cards : GetCardPoints(c) \in Int
  <2> SUFFICES ASSUME NEW c \in Cards PROVE GetCardPoints(c) \in Int
    OBVIOUS
  <2>1. c.value \in 0..21
    BY CardValue
  <2>2. \A v \in Int : 1 + 2 * (v - 10) \in Int
    OBVIOUS
  <2>3. c.value \in Int
    BY <2>1
  <2>4. QED  BY <2>2, <2>3 DEF GetCardPoints
<1>2. \A i \in 1..6 : PointsAt(pile, i) \in Int
  BY <1>1 DEF PointsAt
<1>3. QED
  BY <1>2 DEF PilePoints

\* The oudlers of a pile are a natural number.
LEMMA PileOudlersType ==
  ASSUME NEW pile \in Seq(Cards)
  PROVE  PileOudlers(pile) \in Int
<1>1. DOMAIN pile = 1..Len(pile) /\ Len(pile) \in Nat
  OBVIOUS
<1>2. IsFiniteSet(1..Len(pile))
  BY <1>1, FS_Interval
<1>3. IsFiniteSet({i \in DOMAIN pile : IsOudler(pile[i])})
  BY <1>1, <1>2, FS_Subset
<1>4. QED
  BY <1>3, FS_CardinalityType DEF PileOudlers

\* A trick is won by a player of the table.
LEMMA TrickWinnerType ==
  ASSUME NEW ctx \in Contexts, NEW trick \in Seq(Cards), NEW turn \in Turns,
         Len(trick) = NbPlayers,
         \E k \in DOMAIN trick : ~IsFool(trick[k]),
         TrickOpener(ctx, turn) \in Places,
         ctx.bid.taker \in Places
  PROVE  TrickWinner(ctx, trick, turn) \in Places
<1>1. LeaderIndex(trick) \in DOMAIN trick
  BY LeaderExists, TarotAssumption
<1>2. LeaderIndex(trick) - 1 \in Places
  BY <1>1, TarotAssumption DEF Places
<1>3. GetOwner(TrickOpener(ctx, turn), LeaderIndex(trick)) \in Places
  BY <1>2, ForwardType DEF GetOwner
<1>4. QED
  BY <1>3 DEF TrickWinner

\* TarotContext::SetTrick keeps the type, records the winner
\* of the trick, and leaves the bid alone.
LEMMA SetTrickType ==
  ASSUME NEW ctx \in Contexts, NEW trick \in Seq(Cards), NEW n \in 1..HandSize,
         TrickWinner(ctx, trick, n - 1) \in Places
  PROVE  LET new == SetTrick(ctx, trick, n)
         IN  /\ new \in Contexts
             /\ new.bid = ctx.bid
             /\ new.firstPlayer = ctx.firstPlayer
             /\ new.winner[n - 1] = TrickWinner(ctx, trick, n - 1)
<1> DEFINE turn == n - 1
           w    == TrickWinner(ctx, trick, turn)
           att  == IsAttack(ctx.bid, w)
           swap == IF FoolSwap(ctx, trick, turn) THEN 1 ELSE 0
           pts  == IF att THEN ctx.points + PilePoints(trick) - 8 * swap
                          ELSE ctx.points + 8 * swap
           ouds == IF att THEN ctx.oudlers + PileOudlers(trick) - swap
                          ELSE ctx.oudlers + swap
           won  == IF att THEN ctx.tricksWon + 1 ELSE ctx.tricksWon
           team == IF att THEN "ATTACK" ELSE "DEFENSE"
<1>1. turn \in Turns
  BY TarotAssumption DEF Turns
<1>2. pts \in Int /\ ouds \in Int /\ won \in Nat
  <2>1. swap \in Int /\ PilePoints(trick) \in Int /\ PileOudlers(trick) \in Int
    BY PilePointsType, PileOudlersType
  <2>2. ctx.points \in Int /\ ctx.oudlers \in Int /\ ctx.tricksWon \in Nat
    BY DEF Contexts
  <2>3. ASSUME NEW a \in Int, NEW b \in Int, NEW k \in Int
        PROVE  a + b - 8 * k \in Int /\ a + 8 * k \in Int /\ a + b - k \in Int /\ a + k \in Int
    OBVIOUS
  <2>4. \A n1 \in Nat : n1 + 1 \in Nat
    OBVIOUS
  <2> HIDE DEF swap, att
  <2>5. pts \in Int
    BY <2>1, <2>2, <2>3
  <2>6. ouds \in Int
    BY <2>1, <2>2, <2>3
  <2>7. won \in Nat
    BY <2>2, <2>4
  <2>8. QED  BY <2>5, <2>6, <2>7
<1>3. team \in Teams /\ w \in PlaceOrNowhere
  BY DEF Teams, PlaceOrNowhere
<1>4. /\ [ctx.tricks EXCEPT ![turn] = trick] \in [Turns -> Seq(Cards)]
      /\ [ctx.owner EXCEPT ![turn] = team] \in [Turns -> Teams]
      /\ [ctx.winner EXCEPT ![turn] = w] \in [Turns -> PlaceOrNowhere]
      /\ [ctx.winner EXCEPT ![turn] = w][turn] = w
  <2>1. /\ ctx.tricks \in [Turns -> Seq(Cards)]
        /\ ctx.owner \in [Turns -> Teams]
        /\ ctx.winner \in [Turns -> PlaceOrNowhere]
    BY DEF Contexts
  <2> HIDE DEF turn, team, w
  <2>2. QED  BY <1>1, <1>3, <2>1
<1>5. SetTrick(ctx, trick, n)
        = [ctx EXCEPT !.tricks = [@ EXCEPT ![turn] = trick],
                      !.owner = [@ EXCEPT ![turn] = team],
                      !.winner = [@ EXCEPT ![turn] = w],
                      !.tricksWon = won, !.points = pts, !.oudlers = ouds]
  BY DEF SetTrick, Contexts
<1>6. QED
  <2> HIDE DEF turn, w, team, won, pts, ouds
  <2>1. SetTrick(ctx, trick, n) \in Contexts
    BY <1>2, <1>4, <1>5 DEF Contexts
  <2>2. /\ SetTrick(ctx, trick, n).bid = ctx.bid
        /\ SetTrick(ctx, trick, n).firstPlayer = ctx.firstPlayer
        /\ SetTrick(ctx, trick, n).winner = [ctx.winner EXCEPT ![turn] = w]
    BY <1>5 DEF Contexts
  <2>3. QED  BY <1>4, <2>1, <2>2 DEF turn, w

\* AnalyzeGame and the points it yields.
LEMMA AnalyzeGameType ==
  ASSUME NEW ctx \in Contexts
  PROVE  /\ AnalyzeGame(ctx) \in Contexts
         /\ AnalyzeGame(ctx).bid = ctx.bid
<1>1. ASSUME NEW c \in Contexts, NEW x \in Int, NEW y \in Int
      PROVE  LET new == [c EXCEPT !.points = x, !.oudlers = y]
             IN  new \in Contexts /\ new.bid = c.bid
  BY DEF Contexts
<1>2. ASSUME NEW c \in Contexts, NEW x \in Int
      PROVE  LET new == [c EXCEPT !.points = x]
             IN  new \in Contexts /\ new.bid = c.bid
  BY DEF Contexts
<1>3. ASSUME NEW c \in Contexts
      PROVE  c.points \in Int /\ c.oudlers \in Int
  BY DEF Contexts
<1>4. \A x, y \in Int : x + y \in Int /\ x + 1 \in Int /\ x - 1 \in Int
  OBVIOUS
<1>5. /\ CountDiscard(ctx) \in Contexts
      /\ CountDiscard(ctx).bid = ctx.bid
  <2>1. PilePoints(ctx.discard) \in Int /\ PileOudlers(ctx.discard) \in Int
    BY PilePointsType, PileOudlersType DEF Contexts
  <2>2. QED  BY <1>1, <1>3, <1>4, <2>1 DEF CountDiscard
<1>6. ASSUME NEW c \in Contexts
      PROVE  RoundPoints(c) \in Contexts /\ RoundPoints(c).bid = c.bid
  BY <1>2, <1>3, <1>4 DEF RoundPoints
<1>7. QED
  BY <1>5, <1>6 DEF AnalyzeGame

\* TarotContext::AnalyzeGame produces points of the right type.
LEMMA GamePointsType ==
  ASSUME NEW ctx \in Contexts
  PROVE  GamePoints(ctx) \in PointsRecords
<1>1. AnalyzeGame(ctx).points \div 2 \in Int /\ AnalyzeGame(ctx).oudlers \in Int
  <2>1. AnalyzeGame(ctx).points \in Int /\ AnalyzeGame(ctx).oudlers \in Int
    BY AnalyzeGameType DEF Contexts
  <2>2. \A x \in Int : x \div 2 \in Int
    OBVIOUS
  <2>3. QED  BY <2>1, <2>2
<1>2. ASSUME NEW n
      PROVE  GetHandlePoints(GetHandleType(n)) \in Int
  <2>1. GetHandleType(n) \in 0..3
    BY DEF GetHandleType
  <2>2. \A h \in 0..3 : GetHandlePoints(h) \in Int
    BY TarotAssumption DEF GetHandlePoints
  <2>3. QED  BY <2>1, <2>2
<1>3. ASSUME NEW b \in BOOLEAN
      PROVE  ctx.owner[LastTrick(ctx, b)] \in Teams
  BY TurnsFacts DEF LastTrick, Contexts
<1>4. "NO_TEAM" \in Teams
  BY DEF Teams
<1>5. \A x, y \in Int : x + y \in Int
  OBVIOUS
<1>6. ASSUME NEW a \in Int, NEW o \in Int, NEW h \in Int, NEW sl \in BOOLEAN, NEW l \in Teams
      PROVE  [ pointsAttack |-> a, oudlers |-> o, handlePoints |-> h,
               slamDone |-> sl, littleEndianOwner |-> l ] \in PointsRecords
  BY DEF PointsRecords
<1> DEFINE sd == ctx.tricksWon \in {0, HandSize}
           hp == GetHandlePoints(GetHandleType(ctx.attackHandle))
                   + GetHandlePoints(GetHandleType(ctx.defenseHandle))
           lo == IF HasOneOfTrump(ctx.tricks[LastTrick(ctx, sd)])
                 THEN ctx.owner[LastTrick(ctx, sd)] ELSE "NO_TEAM"
<1>7. sd \in BOOLEAN /\ hp \in Int
  BY <1>2, <1>5
<1>8. lo \in Teams
  <2> HIDE DEF sd
  <2> QED  BY <1>3, <1>4, <1>7
<1>9. QED
  BY <1>1, <1>6, <1>7, <1>8 DEF GamePoints

-----------------------------------------------------------------------------
(* The scores of a deal sum to zero, for every contract and every outcome. *)

\* A deal that can be scored: there is a taker, and with five players only a
\* partner, who may be the taker himself.
Scorable(bid) ==
  /\ bid.taker \in Places
  /\ IF NbPlayers = 5 THEN bid.partner \in Places ELSE bid.partner = NOWHERE

\* Points::Difference is a number for any count of oudlers.
LEMMA DifferenceType ==
  ASSUME NEW points \in PointsRecords
  PROVE  Difference(points) \in Int
<1>1. points.pointsAttack \in Int
  BY DEF PointsRecords
<1>2. PointsToDo(points.oudlers) \in {56, 51, 41, 36}
  BY DEF PointsToDo
<1> QED
  BY <1>1, <1>2 DEF Difference

\* What the winner of a deal gets from each loser.
LEMMA DealScoreType ==
  ASSUME NEW points \in PointsRecords, NEW bid \in Bids
  PROVE  DealScore(points, bid) \in Int
<1> DEFINE diff  == Difference(points)
           abs   == IF diff < 0 THEN -diff ELSE diff
           stake == 25 + abs + GetLittleEndianPoints(points)
<1>1. GetLittleEndianPoints(points) \in {0, 10, -10}
  BY DEF GetLittleEndianPoints
<1>2. GetSlamPoints(points, bid) \in {0, 200, 400, -200}
  BY DEF GetSlamPoints
<1>3. points.handlePoints \in Int
  BY DEF PointsRecords
<1>4. stake \in Int
  BY <1>1, DifferenceType
<1>5. GetMultiplier(bid.contract) \in {0, 1, 2, 4, 6}
  BY DEF GetMultiplier
<1>6. DealScore(points, bid)
        = stake * GetMultiplier(bid.contract) + points.handlePoints + GetSlamPoints(points, bid)
  BY DEF DealScore
<1> HIDE DEF stake
<1>7. stake * GetMultiplier(bid.contract) \in Int
  BY <1>4, <1>5
<1> QED
  BY <1>2, <1>3, <1>6, <1>7

\* The attack gets what every other player pays, or pays it: as many times the
\* defender's points as there are defenders.
LEMMA GetPointsFacts ==
  ASSUME NEW points \in PointsRecords, NEW bid \in Bids, Scorable(bid)
  PROVE  \E s \in Int :
           /\ GetPoints("DEFENSE", points, bid) = -s
           /\ GetPoints("ATTACK", points, bid)
                = IF NbPlayers = 5 /\ HasPartner(bid) THEN 3 * s ELSE (NbPlayers - 1) * s
<1> DEFINE d == DealScore(points, bid)
           s == IF Winner(points) = "ATTACK" THEN d ELSE -d
<1>1. d \in Int
  BY DealScoreType
<1>2. Winner(points) \in {"ATTACK", "DEFENSE"}
  BY DEF Winner
<1>3. NbPlayers # 5 => ~HasPartner(bid)
  BY DEF Scorable, HasPartner
<1>4. AttackShares(bid) = IF NbPlayers = 5 /\ HasPartner(bid) THEN 3 ELSE NbPlayers - 1
  BY <1>3, TarotAssumption DEF AttackShares
<1>5. /\ GetPoints("DEFENSE", points, bid) = (IF Winner(points) = "DEFENSE" THEN d ELSE -d) * 1
      /\ GetPoints("ATTACK", points, bid)
           = (IF Winner(points) = "ATTACK" THEN d ELSE -d) * AttackShares(bid)
  BY DEF GetPoints
<1> HIDE DEF d
<1>6. s \in Int /\ GetPoints("DEFENSE", points, bid) = -s
  BY <1>1, <1>2, <1>5
<1>7. GetPoints("ATTACK", points, bid) = s * AttackShares(bid)
  BY <1>5
<1> HIDE DEF s
<1>8. NbPlayers \in {3, 4, 5}
  BY TarotAssumption
<1>9. GetPoints("ATTACK", points, bid)
        = IF NbPlayers = 5 /\ HasPartner(bid) THEN 3 * s ELSE (NbPlayers - 1) * s
  BY <1>4, <1>6, <1>7, <1>8
<1> QED
  BY <1>6, <1>9

\* The taker's part is a whole number of points, won or lost.
LEMMA TakerPartType ==
  ASSUME NEW attack \in Int
  PROVE  TakerPart(attack) \in Int
BY DEF TakerPart

\* Score::AddPoints writes a number for every player, and the numbers sum to
\* zero.
LEMMA DealRowZeroSum ==
  ASSUME NEW points \in PointsRecords, NEW bid \in Bids, Scorable(bid)
  PROVE  /\ DealRow(points, bid) \in [Places -> Int]
         /\ RowSum(DealRow(points, bid)) = 0
<1> DEFINE attack    == GetPoints("ATTACK", points, bid)
           defense   == GetPoints("DEFENSE", points, bid)
           part      == TakerPart(attack)
           partnered == NbPlayers = 5 /\ HasPartner(bid)
           row       == DealRow(points, bid)
<1>1. PICK s \in Int : /\ defense = -s
                       /\ attack = IF partnered THEN 3 * s ELSE (NbPlayers - 1) * s
  BY GetPointsFacts
<1>2. NbPlayers \in {3, 4, 5} /\ Places = 0..(NbPlayers - 1)
  BY TarotAssumption DEF Places
<1>3. attack \in Int /\ defense \in Int
  BY <1>1, <1>2
<1>4. part \in Int
  BY <1>3, TakerPartType
<1>5. row = [p \in Places |->
               IF p = bid.taker THEN IF partnered THEN part ELSE attack
               ELSE IF partnered /\ p = bid.partner THEN attack - part
               ELSE defense]
  BY DEF DealRow
<1>6. bid.taker \in Places /\ (partnered => bid.partner \in Places /\ bid.partner # bid.taker)
  BY DEF Scorable, HasPartner
<1>7. partnered => NbPlayers = 5
  OBVIOUS
<1>8. partnered \in BOOLEAN
  OBVIOUS
<1> HIDE DEF attack, defense, part, partnered, row
<1>9. row \in [Places -> Int]
  BY <1>3, <1>4, <1>5
<1>10. ASSUME NbPlayers = 3 PROVE RowSum(row) = 0
  <2>1. \A p \in {0, 1, 2} : row[p] = IF p = bid.taker THEN 2 * s ELSE -s
    BY <1>1, <1>2, <1>5, <1>7, <1>10
  <2>2. bid.taker \in {0, 1, 2}
    BY <1>2, <1>6, <1>10
  <2>3. RowSum(row) = row[0] + row[1] + row[2] + 0 + 0
    BY <1>10 DEF RowSum
  <2> QED
    BY <2>1, <2>2, <2>3
<1>11. ASSUME NbPlayers = 4 PROVE RowSum(row) = 0
  <2>1. \A p \in {0, 1, 2, 3} : row[p] = IF p = bid.taker THEN 3 * s ELSE -s
    BY <1>1, <1>2, <1>5, <1>7, <1>11
  <2>2. bid.taker \in {0, 1, 2, 3}
    BY <1>2, <1>6, <1>11
  <2>3. RowSum(row) = row[0] + row[1] + row[2] + row[3] + 0
    BY <1>11 DEF RowSum
  <2> QED
    BY <2>1, <2>2, <2>3
<1>12. ASSUME NbPlayers = 5, ~partnered PROVE RowSum(row) = 0
  <2>1. \A p \in {0, 1, 2, 3, 4} : row[p] = IF p = bid.taker THEN 4 * s ELSE -s
    BY <1>1, <1>2, <1>5, <1>12
  <2>2. bid.taker \in {0, 1, 2, 3, 4}
    BY <1>2, <1>6, <1>12
  <2>3. RowSum(row) = row[0] + row[1] + row[2] + row[3] + row[4]
    BY <1>12 DEF RowSum
  <2> QED
    BY <2>1, <2>2, <2>3
<1>13. ASSUME partnered PROVE RowSum(row) = 0
  <2>1. \A p \in {0, 1, 2, 3, 4} :
          row[p] = IF p = bid.taker THEN part
                   ELSE IF p = bid.partner THEN 3 * s - part ELSE -s
    BY <1>1, <1>2, <1>5, <1>7, <1>13
  <2>2. bid.taker \in {0, 1, 2, 3, 4} /\ bid.partner \in {0, 1, 2, 3, 4}
        /\ bid.partner # bid.taker
    BY <1>2, <1>6, <1>7, <1>13
  <2>3. RowSum(row) = row[0] + row[1] + row[2] + row[3] + row[4]
    BY <1>7, <1>13 DEF RowSum
  <2> QED
    BY <1>4, <2>1, <2>2, <2>3
<1> QED
  BY <1>2, <1>9, <1>10, <1>11, <1>12, <1>13 DEF row
=============================================================================
