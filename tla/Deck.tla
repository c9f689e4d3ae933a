-------------------------------- MODULE Deck --------------------------------
(***************************************************************************)
(* The card rules of Deck.cpp as operators.  A hand is a set of cards; a   *)
(* trick, the dog and the discard are sequences, because the order of a    *)
(* trick decides the suit to follow and the winner.                        *)
(***************************************************************************)
EXTENDS Tarot

\* The cards of a pile, without their order.
CardsOf(pile) == {pile[i] : i \in DOMAIN pile}

\* Deck::HasFool, Deck::HasOneOfTrump.
HasFool(pile)       == \E i \in DOMAIN pile : IsFool(pile[i])
HasOneOfTrump(pile) == \E i \in DOMAIN pile : IsTrump(pile[i]) /\ pile[i].value = 1

Trumps(S) == {c \in S : IsTrump(c)}

\* Deck::HasOnlyOneOfTrump: the "petit sec", which makes a random deal void.
HasOnlyOneOfTrump(S) == \E c \in S : Trumps(S) = {c} /\ c.value = 1

-----------------------------------------------------------------------------
(* Which card may be played. *)

\* The suit asked for: that of the first card, or of the second one when the
\* first is the fool.
RequestedSuit(trick) ==
  IF IsFool(trick[1]) THEN trick[2].suit ELSE trick[1].suit

\* Some trump of the hand beats every trump of the trick
\* (highestTrumpValue > maxPreviousTrump).
HasHigherTrump(hand, trick) ==
  \E h \in Trumps(hand) :
    /\ h.value > 0
    /\ \A i \in DOMAIN trick : IsTrump(trick[i]) => h.value > trick[i].value

\* Faulty variant of TestPlayTrump: a lower trump is refused even to a player
\* who has no higher one.
TestPlayTrumpStrict(hand, card, trick) ==
  IF IsTrump(card)
  THEN \/ \A i \in DOMAIN trick : ~IsTrump(trick[i])
       \/ HasHigherTrump({card}, trick)
  ELSE \A h \in Trumps(hand) : h.value = 0

\* Deck::TestPlayTrump, for a player who must play a trump if he has one.
TestPlayTrump(hand, card, trick) ==
  IF IsTrump(card)
  THEN \/ \A i \in DOMAIN trick : ~IsTrump(trick[i])
       \/ HasHigherTrump({card}, trick)
       \/ ~HasHigherTrump(hand, trick)
  ELSE \A h \in Trumps(hand) : h.value = 0

\* Deck::CanPlayCard.
CanPlayCard(hand, card, trick) ==
  IF card \notin hand THEN FALSE
  ELSE IF trick = << >> \/ IsFool(card) THEN TRUE
  ELSE IF IsFool(trick[1]) /\ Len(trick) = 1 THEN TRUE
  ELSE LET suit == RequestedSuit(trick)
       IN  IF suit # TRUMPS /\ card.suit = suit THEN TRUE
           ELSE /\ suit = TRUMPS \/ \A h \in hand : h.suit # suit
                /\ TestPlayTrump(hand, card, trick)

-----------------------------------------------------------------------------
(* Who wins a trick. *)

\* Deck::HighestTrump: the index of the highest trump, which is never the fool.
IsHighestTrump(pile, i) ==
  /\ IsTrump(pile[i])
  /\ pile[i].value > 0
  /\ \A j \in DOMAIN pile : IsTrump(pile[j]) => pile[j].value <= pile[i].value

\* Deck::HighestSuit: the highest card of the suit of the first plain card.
IsHighestSuit(pile, i) ==
  /\ ~IsTrump(pile[i])
  /\ \E lead \in DOMAIN pile :
       /\ \A j \in 1..(lead - 1) : IsTrump(pile[j])
       /\ ~IsTrump(pile[lead])
       /\ pile[lead].suit = pile[i].suit
  /\ \A j \in DOMAIN pile : pile[j].suit = pile[i].suit => pile[j].value <= pile[i].value

\* The leading card of a trick (TarotContext::SetTrick): its highest trump,
\* or else the highest card of the suit led.
LeaderIndex(trick) ==
  IF \E i \in DOMAIN trick : IsHighestTrump(trick, i)
  THEN CHOOSE i \in DOMAIN trick : IsHighestTrump(trick, i)
  ELSE CHOOSE i \in DOMAIN trick : IsHighestSuit(trick, i)

FoolIndex(trick) == CHOOSE i \in DOMAIN trick : IsFool(trick[i])

-----------------------------------------------------------------------------
(* Counting.  Deck::AnalyzeTrumps is called on a trick (up to 5 cards) and *)
(* on the discard (up to 6); the sum is written out over these positions.  *)

PointsAt(pile, i) == IF i \in DOMAIN pile THEN GetCardPoints(pile[i]) ELSE 0

PilePoints(pile) ==
  PointsAt(pile, 1) + PointsAt(pile, 2) + PointsAt(pile, 3)
    + PointsAt(pile, 4) + PointsAt(pile, 5) + PointsAt(pile, 6)

PileOudlers(pile) == Cardinality({i \in DOMAIN pile : IsOudler(pile[i])})

\* Deck::AnalyzeSuits, the part a king call needs: cards of one plain value.
CountValue(S, v) == Cardinality({c \in S : ~IsTrump(c) /\ c.value = v})

-----------------------------------------------------------------------------
(* What a player may show and put aside. *)

\* Deck::TestHandle.  The cards shown are not compared with one another.
TestHandle(hand, handle) ==
  /\ GetHandleType(Len(handle)) # 0
  /\ \A c \in CardsOf(handle) : IsTrump(c) /\ c \in hand
  /\ (\E c \in CardsOf(handle) : IsFool(c)) => Cardinality(Trumps(hand)) <= Len(handle)

\* A card that Deck::TestDiscard and Deck::AutoDiscard accept in the discard.
MayDiscard(c) == ~IsTrump(c) /\ c.value # KING

\* Deck::TestDiscard.
TestDiscard(hand, discard, dog) ==
  /\ Len(discard) = NumberOfDogCards
  /\ \A i \in DOMAIN discard :
       /\ discard[i] \in hand \cup CardsOf(dog)
       /\ MayDiscard(discard[i])
       /\ \A j \in DOMAIN discard : discard[j] = discard[i] => j = i
=============================================================================
