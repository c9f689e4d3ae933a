------------------------------- MODULE Tarot -------------------------------
(***************************************************************************)
(* The vocabulary of the game: places, contracts, teams, cards, and the    *)
(* rule tables of Common.cpp and Card.cpp.                                 *)
(*                                                                         *)
(* The real game has 78 cards and 24, 18 or 15 cards in hand for 3, 4 or 5 *)
(* players.  The deck and the hand size are parameters here, so that small *)
(* decks can be model-checked and the theorems hold for the real one.      *)
(***************************************************************************)
EXTENDS Integers, Sequences, FiniteSets

CONSTANTS
  NbPlayers,    \* mNbPlayers: players around the table
  HandSize,     \* Tarot::NumberOfCardsInHand(NbPlayers)
  Cards,        \* the cards of the deck, Deck::CreateTarotDeck()
  SimpleSize,   \* trumps shown in a simple handle  (10 in the code)
  DoubleSize,   \* trumps shown in a double handle  (13 in the code)
  TripleSize    \* trumps shown in a triple handle  (15 in the code)

-----------------------------------------------------------------------------
(* Places around the table. *)

Places  == 0..(NbPlayers - 1)
NOWHERE == 5
PlaceOrNowhere == Places \cup {NOWHERE}

\* Faulty variant of NextPlace: the bound is off by one.
NextPlacePastEnd(p) == IF p + 1 > NbPlayers THEN 0 ELSE p + 1

\* Place::Next: the player on the right, back to SOUTH after the last one.
NextPlace(p) == IF p + 1 >= NbPlayers \/ p + 1 >= NOWHERE THEN 0 ELSE p + 1

\* Place::Previous.
Previous(p) == IF p = 0 THEN NbPlayers - 1 ELSE p - 1

\* The place reached from p by k < NbPlayers calls of Next.
Forward(p, k) == IF p + k >= NbPlayers THEN p + k - NbPlayers ELSE p + k

-----------------------------------------------------------------------------
(* Contracts, in the order of their enumeration; teams. *)

NO_ANY        == 0
PASS          == 1
TAKE_BID      == 2   \* Contract::TAKE (TAKE is a keyword of TLA+)
GUARD         == 3
GUARD_WITHOUT == 4
GUARD_AGAINST == 5
Contracts     == NO_ANY..GUARD_AGAINST

Teams == {"ATTACK", "DEFENSE", "NO_TEAM"}

-----------------------------------------------------------------------------
(* Cards.  The suits 0..3 are spades, hearts, diamonds and clubs.  The     *)
(* fool is the trump of value 0.                                           *)

TRUMPS == 4
JACK   == 11
KNIGHT == 12
QUEEN  == 13
KING   == 14

\* Card::IsValid.
IsValidCard(c) ==
  \/ c.suit = TRUMPS /\ c.value \in 0..21
  \/ c.suit \in 0..(TRUMPS - 1) /\ c.value \in 1..14

AllCards == {c \in [suit : 0..TRUMPS, value : 0..21] : IsValidCard(c)}

IsTrump(c) == c.suit = TRUMPS
IsFool(c)  == c.suit = TRUMPS /\ c.value = 0

\* The oudlers: fool, 1 and 21 of trumps.
IsOudler(c) == IsTrump(c) /\ c.value \in {0, 1, 21}

\* Card::GetPoints, in half points (the code counts 0.5 to 4.5).
GetCardPoints(c) ==
  CASE IsOudler(c)                     -> 9
    [] ~IsTrump(c) /\ c.value > 10     -> 1 + 2 * (c.value - 10)
    [] OTHER                           -> 1

-----------------------------------------------------------------------------
(* Rule tables. *)

DeckSize == Cardinality(Cards)

\* Tarot::NumberOfDogCards.
NumberOfDogCards == DeckSize - HandSize * NbPlayers

\* Tarot::IsDealFinished.
IsDealFinished(trickCounter) == trickCounter >= HandSize

\* Tarot::GetHandleType: 0 for NO_HANDLE, then simple, double and triple.
GetHandleType(size) ==
  CASE size = SimpleSize -> 1
    [] size = DoubleSize -> 2
    [] size = TripleSize -> 3
    [] OTHER             -> 0

\* Tarot::GetHandlePoints.
GetHandlePoints(handle) ==
  IF handle = 0 THEN 0
  ELSE CASE NbPlayers = 4 -> <<20, 30, 40>>[handle]
         [] NbPlayers = 3 -> <<13, 15, 18>>[handle]
         [] NbPlayers = 5 -> <<8, 10, 13>>[handle]
         [] OTHER         -> 0

\* Tarot::PointsToDo: what the attack must reach, by its number of oudlers.
PointsToDo(oudlers) ==
  CASE oudlers = 0 -> 56
    [] oudlers = 1 -> 51
    [] oudlers = 2 -> 41
    [] OTHER       -> 36

-----------------------------------------------------------------------------
\* 3 to 5 players; at least two tricks; the dog of a real deck has 3 or 6
\* cards, and a smaller deck may have fewer.
ASSUME TarotAssumption ==
  /\ NbPlayers \in 3..5
  /\ HandSize \in 2..24
  /\ IsFiniteSet(Cards)
  /\ Cards \subseteq AllCards
  /\ NumberOfDogCards \in 0..6
  /\ SimpleSize \in Nat \ {0}
  /\ DoubleSize \in Nat
  /\ TripleSize \in Nat
=============================================================================
