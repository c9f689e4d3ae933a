------------------------------- MODULE Engine -------------------------------
(***************************************************************************)
(* Engine.cpp: the rules machine of one table.  Its state is a record and  *)
(* each method an operator from a state to the state it leaves, because    *)
(* PlayingTable calls several of them in one request.                      *)
(***************************************************************************)
EXTENDS TarotContext

CONSTANT
  CounterMod    \* mTrickCounter wraps at this value (2^8 in the code)

\* The counter is wide enough for the tricks of a deal.
ASSUME EngineAssumption == CounterMod \in Nat /\ CounterMod > HandSize

\* enum Engine::Sequence, without the WAIT_FOR_ prefix.  BAD_STEP and STOPPED
\* are not states of a created table.
Steps ==
  {"PLAYERS", "READY", "CARDS", "BID", "SHOW_BID", "ALL_PASSED", "KING_CALL",
   "SHOW_KING_CALL", "SHOW_DOG", "DISCARD", "START_DEAL", "HANDLE", "SHOW_HANDLE",
   "PLAYED_CARD", "SHOW_CARD", "END_OF_TRICK", "END_OF_DEAL"}

\* A distribution of the cards: hands, dog, and the first player that a deal
\* file imposes (NOWHERE for a random deal).
Distributions ==
  [hands : [Places -> SUBSET Cards], dog : Seq(Cards), first : PlaceOrNowhere]

Engines ==
  [ seq           : Steps,               \* mSequence
    position      : 0..NbPlayers,             \* mPosition
    dealer        : Places,                   \* mDealer
    trickCounter  : 0..(CounterMod - 1),      \* mTrickCounter
    currentPlayer : PlaceOrNowhere,           \* mCurrentPlayer
    handleAsked   : SUBSET Places,            \* mHandleAsked
    hands         : [Places -> SUBSET Cards], \* mPlayers
    trick         : Seq(Cards),               \* currentTrick
    points        : PointsRecords,            \* mCurrentPoints
    ctx           : Contexts ]                \* mCtx

\* The constructor, then CreateTable with the dealer drawn at random.
EngineCreateTable(dealer) ==
  [ seq |-> "PLAYERS", position |-> 0, dealer |-> dealer, trickCounter |-> 0,
    currentPlayer |-> NOWHERE, handleAsked |-> {}, hands |-> [p \in Places |-> {}],
    trick |-> << >>, points |-> NoPoints, ctx |-> NewContext ]

\* Engine::NewGame.
EngineNewGame(e) == [e EXCEPT !.seq = "READY"]

\* DealGenerator: what Engine::CreateDeal can obtain.  A random deal is drawn
\* again while a player holds the 1 of trumps as only trump; a deal file only
\* has to give everyone the right number of cards (IsValid).  The deal files
\* considered are those that deal each card of the deck once.
IsDeal(d) ==
  /\ \A p \in Places : Cardinality(d.hands[p]) = HandSize
  /\ \A p, q \in Places : p # q => d.hands[p] \cap d.hands[q] = {}
  /\ Len(d.dog) = NumberOfDogCards
  /\ CardsOf(d.dog) = Cards \ UNION {d.hands[p] : p \in Places}
  /\ d.first = NOWHERE => \A p \in Places : ~HasOnlyOneOfTrump(d.hands[p])

\* Engine::CreateDeal: the hands and the dog; a deal file imposes the first
\* player, and through him the dealer.
CreateDeal(e, d) ==
  LET dealt == [e EXCEPT !.hands = d.hands, !.ctx.dog = d.dog]
  IN  IF d.first = NOWHERE THEN dealt
      ELSE [dealt EXCEPT !.currentPlayer = d.first, !.dealer = Previous(d.first)]

\* Engine::NewDeal.  The trick counter is left as it is.
EngineNewDeal(e, d) ==
  LET dealer == NextPlace(e.dealer)
      ready  == [e EXCEPT !.ctx = CtxInitialize(@), !.position = 0, !.trick = << >>,
                          !.dealer = dealer, !.currentPlayer = NextPlace(dealer)]
  IN  [CreateDeal(ready, d) EXCEPT !.seq = "CARDS"]

-----------------------------------------------------------------------------
(* Bids, king call, dog and discard. *)

\* Engine::SetBid.
EngineSetBid(e, c, slam, p) ==
  [e EXCEPT !.ctx = CtxSetBid(@, c, slam, p), !.position = @ + 1,
            !.currentPlayer = NextPlace(@), !.seq = "SHOW_BID"]

\* Engine::IsEndOfTrick: the test, and the counters it moves when it holds.
IsEndOfTrick(e) == e.position >= NbPlayers

CountTrick(e) == [e EXCEPT !.position = 0, !.trickCounter = (@ + 1) % CounterMod]

\* Engine::ManageAfterBidSequence.
ManageAfterBidSequence(e) ==
  [e EXCEPT !.ctx = ManageDogAfterBid(@),
            !.seq = IF ShowsDog(e.ctx) THEN "SHOW_DOG" ELSE "START_DEAL"]

\* Faulty variants of BidSequence: a deal that everybody passes is played; the
\* taker is not his own partner while the king is called; no king is called.
BidSequenceNoPass(e) ==
  IF IsEndOfTrick(e) \/ e.ctx.bid.slam
  THEN ManageAfterBidSequence(IF IsEndOfTrick(e) THEN CountTrick(e) ELSE e)
  ELSE [e EXCEPT !.seq = "BID"]

BidSequenceNoPartner(e) ==
  IF IsEndOfTrick(e) \/ e.ctx.bid.slam
  THEN [CountTrick(e) EXCEPT !.seq = IF e.ctx.bid.contract = PASS THEN "ALL_PASSED"
                                                                 ELSE "KING_CALL"]
  ELSE [e EXCEPT !.seq = "BID"]

BidSequenceNoCall(e) ==
  IF IsEndOfTrick(e) \/ e.ctx.bid.slam
  THEN IF e.ctx.bid.contract = PASS THEN [CountTrick(e) EXCEPT !.seq = "ALL_PASSED"]
       ELSE ManageAfterBidSequence(CountTrick(e))
  ELSE [e EXCEPT !.seq = "BID"]

\* Engine::BidSequence.  An announced slam ends the bids at once.
BidSequence(e) ==
  IF IsEndOfTrick(e) \/ e.ctx.bid.slam
  THEN LET f == IF IsEndOfTrick(e) THEN CountTrick(e) ELSE e
       IN  IF f.ctx.bid.contract = PASS THEN [f EXCEPT !.seq = "ALL_PASSED"]
           ELSE IF NbPlayers = 5 /\ f.seq = "SHOW_BID"
           THEN [f EXCEPT !.ctx.bid.partner = f.ctx.bid.taker, !.seq = "KING_CALL"]
           ELSE ManageAfterBidSequence(f)
  ELSE [e EXCEPT !.seq = "BID"]

\* Engine::SetKingCalled.  The partner holds the called card; a taker who
\* holds it, or finds it in the dog, plays alone.  If nobody has the card the
\* partner stays as he is, and the call fails after the sequence has moved.
KingFound(e, c) == c \in CardsOf(e.ctx.dog) \cup UNION {e.hands[p] : p \in Places}

KingOwner(e, c) ==
  LET taker == e.ctx.bid.taker
  IN  CASE c \in CardsOf(e.ctx.dog) \cup e.hands[taker] -> taker
        [] \E p \in Places \ {taker} : c \in e.hands[p]
             -> CHOOSE p \in Places : c \in e.hands[p]
        [] OTHER -> e.ctx.bid.partner

SetKingCalled(e, c) ==
  [e EXCEPT !.ctx.bid.partner = KingOwner(e, c), !.seq = "SHOW_KING_CALL"]

\* Engine::DiscardSequence.
DiscardSequence(e) == [e EXCEPT !.seq = "DISCARD"]

\* Faulty variant of SetDiscard: the discard stays in the taker's hand.
SetDiscardKept(e, discard) ==
  [e EXCEPT !.hands[e.ctx.bid.taker] = @ \cup CardsOf(e.ctx.dog),
            !.ctx.discard = discard, !.ctx.discardOwner = "ATTACK",
            !.seq = "START_DEAL"]

\* Engine::SetDiscard, for a discard that TestDiscard accepts.
SetDiscard(e, discard) ==
  [e EXCEPT !.hands[e.ctx.bid.taker] = (@ \cup CardsOf(e.ctx.dog)) \ CardsOf(discard),
            !.ctx.discard = discard, !.ctx.discardOwner = "ATTACK",
            !.seq = "START_DEAL"]

-----------------------------------------------------------------------------
(* The play of the cards. *)

\* Faulty variants of StartDeal: the position, or the players already asked
\* for a handle, are left as they were.
StartDealKeepsPosition(e) ==
  LET first == IF e.ctx.bid.slam THEN e.ctx.bid.taker ELSE NextPlace(e.dealer)
  IN  [e EXCEPT !.trickCounter = 0, !.handleAsked = {},
                !.currentPlayer = first, !.ctx.firstPlayer = first]

StartDealKeepsAsked(e) ==
  LET first == IF e.ctx.bid.slam THEN e.ctx.bid.taker ELSE NextPlace(e.dealer)
  IN  [e EXCEPT !.trickCounter = 0, !.position = 0,
                !.currentPlayer = first, !.ctx.firstPlayer = first]

\* Engine::StartDeal.  The player on the dealer's right opens, or the taker
\* who has announced a slam.
EngineStartDeal(e) ==
  LET first == IF e.ctx.bid.slam THEN e.ctx.bid.taker ELSE NextPlace(e.dealer)
  IN  [e EXCEPT !.trickCounter = 0, !.position = 0, !.handleAsked = {},
                !.currentPlayer = first, !.ctx.firstPlayer = first]

\* Engine::SetHandle, for a handle that TestHandle accepts.
EngineSetHandle(e, handle, p) ==
  [e EXCEPT !.ctx = CtxSetHandle(@, handle, p), !.seq = "SHOW_HANDLE"]

\* Engine::SetCard, for a card that CanPlayCard accepts.
SetCard(e, c, p) ==
  [e EXCEPT !.trick = Append(@, c), !.hands[p] = @ \ {c}, !.position = @ + 1,
            !.currentPlayer = NextPlace(@), !.seq = "SHOW_CARD"]

\* Faulty variant of FinishTrick: the opener of the trick opens the next one.
FinishTrickSameOpener(e) ==
  LET f == CountTrick(e)
  IN  [f EXCEPT !.ctx = SetTrick(@, f.trick, f.trickCounter), !.trick = << >>,
                !.seq = "END_OF_TRICK"]

\* Engine::GameSequence, when every player has played.
FinishTrick(e) ==
  LET f   == CountTrick(e)
      ctx == SetTrick(f.ctx, f.trick, f.trickCounter)
  IN  [f EXCEPT !.ctx = ctx, !.currentPlayer = ctx.winner[f.trickCounter - 1],
                !.trick = << >>, !.seq = "END_OF_TRICK"]

\* Faulty variant of GameSequence: the handle is asked for in the second trick.
GameSequenceAsksLate(e) ==
  IF IsEndOfTrick(e) THEN FinishTrick(e)
  ELSE IF e.trickCounter = 1 /\ e.currentPlayer \notin e.handleAsked
  THEN [e EXCEPT !.handleAsked = @ \cup {e.currentPlayer}, !.seq = "HANDLE"]
  ELSE [e EXCEPT !.seq = "PLAYED_CARD"]

\* Faulty variant of GameSequence: whoever declines a handle is asked again.
GameSequenceAsksAgain(e) ==
  IF IsEndOfTrick(e) THEN FinishTrick(e)
  ELSE IF e.trickCounter = 0 /\ e.seq # "SHOW_HANDLE"
  THEN [e EXCEPT !.handleAsked = @ \cup {e.currentPlayer}, !.seq = "HANDLE"]
  ELSE [e EXCEPT !.seq = "PLAYED_CARD"]

\* Engine::GameSequence.  In the first trick each player is asked once for a
\* handle before he plays.
EngineGameSequence(e) ==
  IF IsEndOfTrick(e) THEN FinishTrick(e)
  ELSE IF e.trickCounter = 0 /\ e.currentPlayer \notin e.handleAsked
  THEN [e EXCEPT !.handleAsked = @ \cup {e.currentPlayer}, !.seq = "HANDLE"]
  ELSE [e EXCEPT !.seq = "PLAYED_CARD"]

\* Engine::IsLastTrick.
IsLastTrick(e) == IsDealFinished(e.trickCounter)

\* Engine::EndOfDeal.
EngineEndOfDeal(e) ==
  [e EXCEPT !.points = GamePoints(e.ctx), !.ctx = AnalyzeGame(@), !.seq = "END_OF_DEAL"]

-----------------------------------------------------------------------------
(* What is true of the engine between two requests. *)

\* The steps of a deal before the cards are played, and while they are.
BidSteps  == {"CARDS", "BID", "SHOW_BID", "ALL_PASSED", "KING_CALL", "SHOW_KING_CALL",
              "SHOW_DOG", "DISCARD"}
PlaySteps == {"HANDLE", "SHOW_HANDLE", "PLAYED_CARD", "SHOW_CARD"}
DealSteps == BidSteps \cup PlaySteps \cup {"START_DEAL", "END_OF_TRICK", "END_OF_DEAL"}

\* While the players bid: the next one is known, and whoever has spoken last
\* above the others is the taker, even with a PASS.
BidsInv(e) ==
  /\ e.seq \in {"CARDS", "BID", "SHOW_BID"} =>
       /\ e.currentPlayer \in Places
       /\ e.ctx.bid.partner = NOWHERE
       /\ e.position > 0 => e.ctx.bid.contract >= PASS
       /\ e.ctx.bid.contract >= PASS => e.ctx.bid.taker \in Places
  /\ e.seq = "CARDS" => e.position = 0 /\ ~e.ctx.bid.slam
  /\ e.seq = "BID" => e.position < NbPlayers
  /\ e.seq = "SHOW_BID" => e.position > 0
  /\ e.seq \in {"KING_CALL", "SHOW_KING_CALL"} => NbPlayers = 5

\* Once the bids are over: a taker with a real contract, and in a game of five
\* a partner.
HasTaker(e) ==
  /\ e.ctx.bid.taker \in Places
  /\ e.ctx.bid.contract >= TAKE_BID
  /\ IF NbPlayers = 5 THEN e.ctx.bid.partner \in Places ELSE e.ctx.bid.partner = NOWHERE

TakerInv(e) ==
  e.seq \in DealSteps \ {"CARDS", "BID", "SHOW_BID", "ALL_PASSED"} => HasTaker(e)

\* While cards are played: the counters agree with the trick on the table, and
\* the player in turn is found from its opener.
InTrick(e) ==
  /\ e.trickCounter < HandSize
  /\ TrickOpener(e.ctx, e.trickCounter) \in Places
  /\ Len(e.trick) = e.position
  /\ e.position < NbPlayers =>
       e.currentPlayer = Forward(TrickOpener(e.ctx, e.trickCounter), e.position)

PlayInv(e) ==
  /\ e.seq \in BidSteps \cup {"START_DEAL"} => e.trick = << >>
  /\ e.seq \in PlaySteps \cup {"START_DEAL", "END_OF_TRICK"} => InTrick(e)
  /\ e.seq = "START_DEAL" => e.position = 0 /\ e.trickCounter = 0 /\ e.handleAsked = {}
  /\ e.seq \in {"HANDLE", "SHOW_HANDLE", "PLAYED_CARD"} => e.position < NbPlayers
  /\ e.seq \in {"HANDLE", "SHOW_HANDLE"} =>
       e.trickCounter = 0 /\ e.currentPlayer \in e.handleAsked
  /\ e.seq = "END_OF_TRICK" => e.position = 0 /\ e.trickCounter > 0

\* No card is in two places among the hands, the trick and the dog.
CardsApart(e) ==
  /\ \A p, q \in Places : p # q => e.hands[p] \cap e.hands[q] = {}
  /\ \A i \in DOMAIN e.trick : \A p \in Places : e.trick[i] \notin e.hands[p]
  /\ \A i, j \in DOMAIN e.trick : e.trick[i] = e.trick[j] => i = j

CardsInv(e) ==
  /\ e.seq \in DealSteps => CardsApart(e)
  /\ e.seq \in BidSteps =>
       \A p \in Places : \A i \in DOMAIN e.ctx.dog : e.ctx.dog[i] \notin e.hands[p]

EngineInv(e) == BidsInv(e) /\ TakerInv(e) /\ PlayInv(e) /\ CardsInv(e)
=============================================================================
