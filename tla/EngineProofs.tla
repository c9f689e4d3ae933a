---------------------------- MODULE EngineProofs ----------------------------
(***************************************************************************)
(* Every method of Engine leaves an engine of the right type in which      *)
(* EngineInv holds, in the step that the method announces.                 *)
(***************************************************************************)
EXTENDS Engine, RuleProofs

\* The fields of an engine, with their types.
LEMMA EngineFields ==
  ASSUME NEW e \in Engines
  PROVE  /\ e.seq \in Steps
         /\ e.position \in 0..NbPlayers
         /\ e.dealer \in Places
         /\ e.trickCounter \in 0..(CounterMod - 1)
         /\ e.currentPlayer \in PlaceOrNowhere
         /\ e.handleAsked \in SUBSET Places
         /\ e.hands \in [Places -> SUBSET Cards]
         /\ e.trick \in Seq(Cards)
         /\ e.points \in PointsRecords
         /\ e.ctx \in Contexts
BY DEF Engines

\* The fields of a context have their types.
LEMMA ContextFields ==
  ASSUME NEW ctx \in Contexts
  PROVE  /\ ctx.bid \in Bids
         /\ ctx.bid.taker \in PlaceOrNowhere
         /\ ctx.bid.partner \in PlaceOrNowhere
         /\ ctx.bid.contract \in 0..5
         /\ ctx.bid.slam \in BOOLEAN
         /\ ctx.dog \in Seq(Cards)
         /\ ctx.discard \in Seq(Cards)
         /\ ctx.firstPlayer \in PlaceOrNowhere
         /\ ctx.winner \in [Turns -> PlaceOrNowhere]
BY DEF Contexts, Bids, Contracts, NO_ANY, GUARD_AGAINST

\* There is a first place, and NOWHERE is none of them.
LEMMA PlacesFacts == /\ Places \subseteq PlaceOrNowhere
                     /\ NOWHERE \in PlaceOrNowhere
                     /\ NOWHERE \notin Places
                     /\ 0 \in Places
BY TarotAssumption DEF PlaceOrNowhere, Places, NOWHERE

-----------------------------------------------------------------------------
(* Games and deals. *)

\* Engine::CreateTable establishes the invariant.
LEMMA CreateTableCorrect ==
  ASSUME NEW d \in Places
  PROVE  /\ EngineCreateTable(d) \in Engines
         /\ EngineInv(EngineCreateTable(d))
         /\ EngineCreateTable(d).seq = "PLAYERS"
<1> DEFINE e == EngineCreateTable(d)
<1>1. NoPoints \in PointsRecords
  BY DEF NoPoints, PointsRecords, Teams
<1>2. 0 \in 0..NbPlayers /\ 0 \in 0..(CounterMod - 1)
  BY TarotAssumption, EngineAssumption
<1>3. [p \in Places |-> {}] \in [Places -> SUBSET Cards] /\ << >> \in Seq(Cards)
  OBVIOUS
<1>4. e \in Engines
  BY <1>1, <1>2, <1>3, PlacesFacts, NewContextType DEF EngineCreateTable, Engines, Steps
<1>5. e.seq = "PLAYERS"
  BY DEF EngineCreateTable
<1>6. EngineInv(e)
  <2> HIDE DEF e
  <2> QED
    BY <1>5 DEF EngineInv, BidsInv, TakerInv, PlayInv, CardsInv, BidSteps, PlaySteps, DealSteps
<1>7. QED
  BY <1>4, <1>5, <1>6

\* Engine::NewGame is correct in any state, also in the middle of a deal.
LEMMA NewGameCorrect ==
  ASSUME NEW e \in Engines
  PROVE  /\ EngineNewGame(e) \in Engines
         /\ EngineInv(EngineNewGame(e))
         /\ EngineNewGame(e).seq = "READY"
<1> DEFINE f == EngineNewGame(e)
<1>1. f \in Engines /\ f.seq = "READY"
  BY DEF EngineNewGame, Engines, Steps
<1>2. EngineInv(f)
  <2> HIDE DEF f
  <2> QED
    BY <1>1 DEF EngineInv, BidsInv, TakerInv, PlayInv, CardsInv, BidSteps, PlaySteps, DealSteps
<1>3. QED
  BY <1>1, <1>2

\* What NewDeal leaves: the cards of the deal, an empty trick, no bid.
LEMMA NewDealFields ==
  ASSUME NEW e \in Engines, NEW d \in Distributions
  PROVE  LET f == EngineNewDeal(e, d)
         IN  /\ f \in Engines
             /\ f.seq = "CARDS"
             /\ f.position = 0
             /\ f.trick = << >>
             /\ f.currentPlayer \in Places
             /\ f.hands = d.hands
             /\ f.ctx.dog = d.dog
             /\ f.ctx.bid = NoBid
<1> DEFINE dealer == NextPlace(e.dealer)
           player == NextPlace(dealer)
           zero   == 0
           none   == << >>
           c      == CtxInitialize(e.ctx)
           ready  == [e EXCEPT !.ctx = c, !.position = zero, !.trick = none,
                               !.dealer = dealer, !.currentPlayer = player]
           dctx   == [c EXCEPT !.dog = d.dog]
           dealt  == [ready EXCEPT !.hands = d.hands, !.ctx = dctx]
           filed  == [dealt EXCEPT !.currentPlayer = d.first, !.dealer = Previous(d.first)]
<1>1. /\ dealer \in Places /\ player \in Places /\ zero \in 0..NbPlayers
      /\ none \in Seq(Cards) /\ Places \subseteq PlaceOrNowhere
  BY NextPlaceType, EngineFields, PlacesFacts, TarotAssumption
<1>2. c \in Contexts /\ c.bid = NoBid
  BY CtxInitializeType, EngineFields
<1>3. d.hands \in [Places -> SUBSET Cards] /\ d.dog \in Seq(Cards) /\ d.first \in PlaceOrNowhere
  BY DEF Distributions
<1>4. dctx \in Contexts /\ dctx.bid = NoBid /\ dctx.dog = d.dog
  <2> HIDE DEF c
  <2> QED  BY <1>2, <1>3 DEF Contexts
<1>5. EngineNewDeal(e, d)
        = [(IF d.first = NOWHERE THEN dealt ELSE filed) EXCEPT !.seq = "CARDS"]
  BY <1>2 DEF EngineNewDeal, CreateDeal, Engines, Contexts
<1> HIDE DEF c, dctx, dealer, player, zero, none
<1>6. /\ dealt \in Engines
      /\ dealt.position = zero /\ dealt.trick = none /\ dealt.currentPlayer = player
      /\ dealt.hands = d.hands /\ dealt.ctx = dctx
  BY <1>1, <1>2, <1>3, <1>4 DEF Engines
<1>7. CASE d.first = NOWHERE
  <2>1. EngineNewDeal(e, d) = [dealt EXCEPT !.seq = "CARDS"]
    BY <1>5, <1>7
  <2> HIDE DEF dealt
  <2>2. QED  BY <1>1, <1>4, <1>6, <2>1 DEF Engines, Steps, zero, none
<1>8. CASE d.first # NOWHERE
  <2>1. d.first \in Places /\ Previous(d.first) \in Places
    BY <1>3, <1>8, PreviousType DEF PlaceOrNowhere
  <2>2. EngineNewDeal(e, d) = [filed EXCEPT !.seq = "CARDS"]
    BY <1>5, <1>8
  <2> HIDE DEF dealt
  <2>3. QED  BY <1>1, <1>4, <1>6, <2>1, <2>2 DEF Engines, Steps, zero, none
<1>9. QED
  BY <1>7, <1>8

\* Engine::NewDeal is correct in any state, whatever the deal before left.
LEMMA NewDealCorrect ==
  ASSUME NEW e \in Engines, NEW d \in Distributions, IsDeal(d)
  PROVE  /\ EngineNewDeal(e, d) \in Engines
         /\ EngineInv(EngineNewDeal(e, d))
         /\ EngineNewDeal(e, d).seq = "CARDS"
<1> DEFINE f == EngineNewDeal(e, d)
<1>1. /\ f \in Engines /\ f.seq = "CARDS" /\ f.position = 0 /\ f.trick = << >>
      /\ f.currentPlayer \in Places /\ f.hands = d.hands /\ f.ctx.dog = d.dog
      /\ f.ctx.bid = NoBid
  BY NewDealFields
<1> HIDE DEF f
<1>2. BidsInv(f)
  BY <1>1 DEF BidsInv, NoBid, PASS, NO_ANY
<1>3. TakerInv(f) /\ PlayInv(f)
  BY <1>1 DEF TakerInv, PlayInv, PlaySteps
<1>4. CardsInv(f)
  <2>1. \A p, q \in Places : p # q => d.hands[p] \cap d.hands[q] = {}
    BY DEF IsDeal
  <2>2. \A p \in Places : \A i \in DOMAIN d.dog : d.dog[i] \notin d.hands[p]
    BY DEF IsDeal, CardsOf
  <2>3. DOMAIN f.trick = {}
    BY <1>1
  <2>4. QED  BY <1>1, <2>1, <2>2, <2>3 DEF CardsInv, CardsApart
<1>5. QED
  BY <1>1, <1>2, <1>3, <1>4 DEF EngineInv, f

-----------------------------------------------------------------------------
(* Bids, king call, dog and discard. *)

\* Engine::SetBid: a bid is shown.
LEMMA SetBidCorrect ==
  ASSUME NEW e \in Engines, EngineInv(e), e.seq = "BID",
         NEW c \in PASS..GUARD_AGAINST, NEW slam \in BOOLEAN
  PROVE  LET f == EngineSetBid(e, c, slam, e.currentPlayer)
         IN  f \in Engines /\ EngineInv(f) /\ f.seq = "SHOW_BID"
<1> DEFINE f    == EngineSetBid(e, c, slam, e.currentPlayer)
           new  == CtxSetBid(e.ctx, c, slam, e.currentPlayer)
           next == NextPlace(e.currentPlayer)
           pos  == e.position + 1
<1>1. /\ e.currentPlayer \in Places /\ e.ctx.bid.partner = NOWHERE
      /\ e.ctx.bid.contract >= PASS => e.ctx.bid.taker \in Places
      /\ e.position < NbPlayers /\ e.trick = << >> /\ CardsApart(e)
      /\ \A p \in Places : \A i \in DOMAIN e.ctx.dog : e.ctx.dog[i] \notin e.hands[p]
  BY DEF EngineInv, BidsInv, PlayInv, CardsInv, BidSteps, DealSteps
<1>2. pos \in 0..NbPlayers /\ pos > 0
  BY <1>1, EngineFields, TarotAssumption
<1>3. next \in Places /\ next \in PlaceOrNowhere
  BY <1>1, NextPlaceType, PlacesFacts
<1>4. /\ new \in Contexts /\ new.bid.contract >= PASS /\ new.dog = e.ctx.dog
      /\ new.bid.partner = e.ctx.bid.partner
      /\ new.bid.taker = e.currentPlayer
           \/ (new.bid.taker = e.ctx.bid.taker /\ e.ctx.bid.contract >= PASS)
  BY <1>1, CtxSetBidType, EngineFields
<1>5. new.bid.taker \in Places
  BY <1>1, <1>4
<1> HIDE DEF new, next, pos
<1>6. f = [e EXCEPT !.ctx = new, !.position = pos, !.currentPlayer = next, !.seq = "SHOW_BID"]
  BY DEF EngineSetBid, new, next, pos, Engines
<1>7. /\ f \in Engines /\ f.seq = "SHOW_BID" /\ f.position = pos /\ f.currentPlayer = next
      /\ f.ctx = new /\ f.hands = e.hands /\ f.trick = e.trick
  BY <1>2, <1>3, <1>4, <1>6 DEF Engines, Steps
<1> HIDE DEF f
<1>8. BidsInv(f)
  BY <1>1, <1>2, <1>3, <1>4, <1>5, <1>7 DEF BidsInv
<1>9. TakerInv(f) /\ PlayInv(f)
  BY <1>1, <1>7 DEF TakerInv, PlayInv, PlaySteps
<1>10. CardsInv(f)
  BY <1>1, <1>4, <1>7 DEF CardsInv, CardsApart
<1>11. QED
  BY <1>7, <1>8, <1>9, <1>10 DEF EngineInv, f

\* What StartDeal needs: the bids are over and the cards are in order.
ReadyToStart(e) == HasTaker(e) /\ e.trick = << >> /\ CardsApart(e)

\* Engine::StartDeal: the first trick can be played.
LEMMA StartDealCorrect ==
  ASSUME NEW e \in Engines, e.seq = "START_DEAL", ReadyToStart(e)
  PROVE  /\ EngineStartDeal(e) \in Engines
         /\ EngineInv(EngineStartDeal(e))
         /\ EngineStartDeal(e).seq = "START_DEAL"
<1> DEFINE f     == EngineStartDeal(e)
           first == IF e.ctx.bid.slam THEN e.ctx.bid.taker ELSE NextPlace(e.dealer)
           new   == [e.ctx EXCEPT !.firstPlayer = first]
           zero  == 0
<1>1. first \in Places /\ first \in PlaceOrNowhere
  BY NextPlaceType, EngineFields, PlacesFacts DEF ReadyToStart, HasTaker
<1>2. zero \in 0..NbPlayers /\ zero \in 0..(CounterMod - 1)
  BY TarotAssumption, EngineAssumption
<1> HIDE DEF first, zero
<1>3. new \in Contexts /\ new.bid = e.ctx.bid /\ new.firstPlayer = first
  BY <1>1, EngineFields DEF Contexts
<1>4. f = [e EXCEPT !.trickCounter = zero, !.position = zero, !.handleAsked = {},
                    !.currentPlayer = first, !.ctx = new]
  BY DEF EngineStartDeal, first, new, zero, Engines, Contexts
<1> HIDE DEF new
<1>5. /\ f \in Engines /\ f.seq = "START_DEAL" /\ f.position = zero /\ f.trickCounter = zero
      /\ f.currentPlayer = first /\ f.handleAsked = {} /\ f.ctx = new
      /\ f.hands = e.hands /\ f.trick = e.trick
  BY <1>1, <1>2, <1>3, <1>4 DEF Engines
<1> HIDE DEF f
<1>6. BidsInv(f)
  BY <1>5 DEF BidsInv
<1>7. TakerInv(f)
  BY <1>3, <1>5 DEF TakerInv, ReadyToStart, HasTaker
<1>8. PlayInv(f)
  <2>1. f.trickCounter = 0 /\ f.position = 0 /\ Len(f.trick) = 0 /\ f.trick = << >>
    BY <1>5 DEF zero, ReadyToStart
  <2>2. TrickOpener(f.ctx, f.trickCounter) = first
    BY <1>3, <1>5, <2>1 DEF TrickOpener
  <2>3. Forward(first, 0) = first
    BY <1>1, TarotAssumption DEF Forward, Places
  <2>4. InTrick(f)
    BY <1>1, <1>5, <2>1, <2>2, <2>3, TarotAssumption DEF InTrick
  <2>5. QED  BY <1>5, <2>1, <2>4 DEF PlayInv
<1>9. CardsInv(f)
  BY <1>5 DEF CardsInv, CardsApart, ReadyToStart, BidSteps
<1>10. QED
  BY <1>5, <1>6, <1>7, <1>8, <1>9 DEF EngineInv, f

\* The end of the bids: the dog is shown, or the deal can start.
LEMMA ManageAfterBidCorrect ==
  ASSUME NEW e \in Engines, ReadyToStart(e),
         \A p \in Places : \A i \in DOMAIN e.ctx.dog : e.ctx.dog[i] \notin e.hands[p]
  PROVE  LET f == ManageAfterBidSequence(e)
         IN  /\ f \in Engines
             /\ ReadyToStart(f)
             /\ f.seq = "START_DEAL" \/ (f.seq = "SHOW_DOG" /\ EngineInv(f))
<1> DEFINE f   == ManageAfterBidSequence(e)
           new == ManageDogAfterBid(e.ctx)
           s   == IF ShowsDog(e.ctx) THEN "SHOW_DOG" ELSE "START_DEAL"
<1>1. new \in Contexts /\ new.bid = e.ctx.bid /\ new.dog = e.ctx.dog
  BY ManageDogAfterBidType, EngineFields
<1>2. s \in {"SHOW_DOG", "START_DEAL"}
  OBVIOUS
<1> HIDE DEF new, s
<1>3. f = [e EXCEPT !.ctx = new, !.seq = s]
  BY DEF ManageAfterBidSequence, new, s
<1>4. /\ f \in Engines /\ f.seq = s /\ f.ctx = new /\ f.hands = e.hands /\ f.trick = e.trick
  BY <1>1, <1>2, <1>3 DEF Engines, Steps
<1> HIDE DEF f
<1>5. ReadyToStart(f)
  BY <1>1, <1>4 DEF ReadyToStart, HasTaker, CardsApart
<1>6. ASSUME s = "SHOW_DOG" PROVE EngineInv(f)
  <2>1. BidsInv(f) /\ TakerInv(f)
    BY <1>4, <1>5, <1>6 DEF BidsInv, TakerInv, ReadyToStart
  <2>2. PlayInv(f)
    BY <1>4, <1>5, <1>6 DEF PlayInv, ReadyToStart, PlaySteps
  <2>3. CardsInv(f)
    BY <1>1, <1>4, <1>5 DEF CardsInv, ReadyToStart
  <2>4. QED  BY <2>1, <2>2, <2>3 DEF EngineInv
<1>7. QED
  BY <1>2, <1>4, <1>5, <1>6 DEF f

\* IsEndOfTrick resets the position and counts a trick, modulo 2^8.
LEMMA CountTrickCorrect ==
  ASSUME NEW e \in Engines
  PROVE  LET f == CountTrick(e)
         IN  /\ f \in Engines
             /\ f.position = 0
             /\ f.seq = e.seq /\ f.ctx = e.ctx /\ f.hands = e.hands /\ f.trick = e.trick
             /\ f.handleAsked = e.handleAsked
             /\ e.trickCounter < HandSize => f.trickCounter = e.trickCounter + 1
<1> DEFINE f    == CountTrick(e)
           zero == 0
           n    == (e.trickCounter + 1) % CounterMod
<1>1. e.trickCounter \in 0..(CounterMod - 1) /\ CounterMod \in Nat /\ CounterMod > HandSize
  BY EngineFields, EngineAssumption
<1>2. zero \in 0..NbPlayers /\ n \in 0..(CounterMod - 1)
  BY <1>1, TarotAssumption
<1>3. e.trickCounter < HandSize => n = e.trickCounter + 1
  BY <1>1, TarotAssumption
<1> HIDE DEF n, zero
<1>4. f = [e EXCEPT !.position = zero, !.trickCounter = n]
  BY DEF CountTrick, n, zero
<1>5. /\ f \in Engines /\ f.position = zero /\ f.trickCounter = n
      /\ f.seq = e.seq /\ f.ctx = e.ctx /\ f.hands = e.hands /\ f.trick = e.trick
      /\ f.handleAsked = e.handleAsked
  BY <1>2, <1>4 DEF Engines
<1>6. QED
  BY <1>3, <1>5 DEF zero

\* BidSequence: the next bid, or the end of the bids.  From the step CARDS only
\* the first bid can come.
LEMMA BidSequenceCorrect ==
  ASSUME NEW e \in Engines, EngineInv(e), e.seq \in {"CARDS", "SHOW_BID"}
  PROVE  LET f == BidSequence(e)
         IN  /\ f \in Engines
             /\ (f.seq = "START_DEAL" /\ ReadyToStart(f)) \/ EngineInv(f)
             /\ e.seq = "CARDS" => f.seq = "BID"
             /\ f.seq \in {"BID", "ALL_PASSED"} \cup
                   IF NbPlayers = 5 THEN {"KING_CALL"} ELSE {"SHOW_DOG", "START_DEAL"}
<1> DEFINE f == BidSequence(e)
<1>1. /\ e.currentPlayer \in Places /\ e.ctx.bid.partner = NOWHERE
      /\ e.position > 0 => e.ctx.bid.contract >= PASS
      /\ e.ctx.bid.contract >= PASS => e.ctx.bid.taker \in Places
      /\ e.seq = "CARDS" => e.position = 0 /\ ~e.ctx.bid.slam
      /\ e.seq = "SHOW_BID" => e.position > 0
      /\ e.trick = << >> /\ CardsApart(e)
      /\ \A p \in Places : \A i \in DOMAIN e.ctx.dog : e.ctx.dog[i] \notin e.hands[p]
  BY DEF EngineInv, BidsInv, PlayInv, CardsInv, BidSteps, DealSteps
<1>2. CASE ~(IsEndOfTrick(e) \/ e.ctx.bid.slam)
  <2>1. f = [e EXCEPT !.seq = "BID"]
    BY <1>2 DEF BidSequence
  <2>2. /\ f \in Engines /\ f.seq = "BID" /\ f.position = e.position /\ f.ctx = e.ctx
        /\ f.currentPlayer = e.currentPlayer /\ f.hands = e.hands /\ f.trick = e.trick
    BY <2>1 DEF Engines, Steps
  <2>3. e.position < NbPlayers
    BY <1>2, EngineFields, TarotAssumption DEF IsEndOfTrick
  <2> HIDE DEF f
  <2>4. BidsInv(f)
    BY <1>1, <2>2, <2>3 DEF BidsInv
  <2>5. TakerInv(f) /\ PlayInv(f)
    BY <1>1, <2>2 DEF TakerInv, PlayInv, PlaySteps
  <2>6. CardsInv(f)
    BY <1>1, <2>2 DEF CardsInv, CardsApart
  <2>7. QED  BY <2>2, <2>4, <2>5, <2>6 DEF EngineInv, f
<1>3. CASE IsEndOfTrick(e) \/ e.ctx.bid.slam
  <2> DEFINE g == IF IsEndOfTrick(e) THEN CountTrick(e) ELSE e
  <2>1. e.seq = "SHOW_BID" /\ e.ctx.bid.contract >= PASS /\ e.ctx.bid.taker \in Places
    BY <1>1, <1>3, TarotAssumption DEF IsEndOfTrick
  <2>2. /\ g \in Engines /\ g.seq = "SHOW_BID" /\ g.ctx = e.ctx /\ g.hands = e.hands
        /\ g.trick = e.trick
    BY <2>1, CountTrickCorrect
  <2>3. f = IF g.ctx.bid.contract = PASS THEN [g EXCEPT !.seq = "ALL_PASSED"]
            ELSE IF NbPlayers = 5 /\ g.seq = "SHOW_BID"
            THEN [g EXCEPT !.ctx.bid.partner = g.ctx.bid.taker, !.seq = "KING_CALL"]
            ELSE ManageAfterBidSequence(g)
    BY <1>3 DEF BidSequence
  <2> HIDE DEF g, f
  <2>4. CASE e.ctx.bid.contract = PASS
    <3>1. f = [g EXCEPT !.seq = "ALL_PASSED"]
      BY <2>2, <2>3, <2>4
    <3>2. /\ f \in Engines /\ f.seq = "ALL_PASSED" /\ f.ctx = e.ctx /\ f.hands = e.hands
          /\ f.trick = e.trick
      BY <2>2, <3>1 DEF Engines, Steps
    <3>3. BidsInv(f) /\ TakerInv(f) /\ PlayInv(f)
      BY <1>1, <3>2 DEF BidsInv, TakerInv, PlayInv, PlaySteps
    <3>4. CardsInv(f)
      BY <1>1, <3>2 DEF CardsInv, CardsApart
    <3>5. QED  BY <2>1, <3>2, <3>3, <3>4 DEF EngineInv, f
  <2>5. CASE e.ctx.bid.contract # PASS
    <3>1. e.ctx.bid.contract >= TAKE_BID
      BY <2>1, <2>5, EngineFields, ContextFields DEF PASS, TAKE_BID
    <3>2. CASE NbPlayers # 5
      <4>1. f = ManageAfterBidSequence(g)
        BY <2>2, <2>3, <2>5, <3>2
      <4>2. ReadyToStart(g)
        BY <1>1, <2>1, <2>2, <3>1, <3>2 DEF ReadyToStart, HasTaker, CardsApart
      <4>3. QED  BY <1>1, <2>1, <2>2, <3>2, <4>1, <4>2, ManageAfterBidCorrect DEF f
    <3>3. CASE NbPlayers = 5
      <4> DEFINE b   == [g.ctx.bid EXCEPT !.partner = g.ctx.bid.taker]
                 new == [g.ctx EXCEPT !.bid = b]
      <4>1. /\ b \in Bids /\ b.taker = e.ctx.bid.taker /\ b.contract = e.ctx.bid.contract
            /\ b.partner = e.ctx.bid.taker
        BY <2>2, EngineFields, ContextFields DEF Bids
      <4>2. f = [g EXCEPT !.ctx = new, !.seq = "KING_CALL"]
        BY <2>2, <2>3, <2>5, <3>3 DEF Engines, Contexts, Bids
      <4> HIDE DEF b
      <4>3. new \in Contexts /\ new.bid = b /\ new.dog = e.ctx.dog
        BY <2>2, <4>1, EngineFields DEF Contexts
      <4> HIDE DEF new
      <4>4. /\ f \in Engines /\ f.seq = "KING_CALL" /\ f.ctx = new /\ f.hands = e.hands
            /\ f.trick = e.trick
        BY <2>2, <4>2, <4>3 DEF Engines, Steps
      <4>5. TakerInv(f)
        BY <2>1, <3>1, <3>3, <4>1, <4>3, <4>4 DEF TakerInv, HasTaker
      <4>6. BidsInv(f) /\ PlayInv(f)
        BY <1>1, <3>3, <4>4 DEF BidsInv, PlayInv, PlaySteps
      <4>7. CardsInv(f)
        BY <1>1, <4>3, <4>4 DEF CardsInv, CardsApart
      <4>8. QED  BY <2>1, <3>3, <4>4, <4>5, <4>6, <4>7 DEF EngineInv, f
    <3>4. QED  BY <3>2, <3>3
  <2>6. QED  BY <2>4, <2>5
<1>4. QED
  BY <1>2, <1>3

\* Engine::SetKingCalled: there is a partner, even when nobody has the card.
LEMMA SetKingCalledCorrect ==
  ASSUME NEW e \in Engines, EngineInv(e), e.seq = "KING_CALL", NEW c
  PROVE  LET f == SetKingCalled(e, c)
         IN  f \in Engines /\ EngineInv(f) /\ f.seq = "SHOW_KING_CALL"
<1> DEFINE f     == SetKingCalled(e, c)
           owner == KingOwner(e, c)
           b     == [e.ctx.bid EXCEPT !.partner = owner]
           new   == [e.ctx EXCEPT !.bid = b]
<1>1. /\ HasTaker(e) /\ e.trick = << >> /\ CardsApart(e) /\ NbPlayers = 5
      /\ \A p \in Places : \A i \in DOMAIN e.ctx.dog : e.ctx.dog[i] \notin e.hands[p]
  BY DEF EngineInv, BidsInv, TakerInv, PlayInv, CardsInv, BidSteps, DealSteps
<1>2. owner \in Places /\ owner \in PlaceOrNowhere
  <2>1. e.ctx.bid.taker \in Places /\ e.ctx.bid.partner \in Places
    BY <1>1 DEF HasTaker
  <2>2. (\E p \in Places \ {e.ctx.bid.taker} : c \in e.hands[p]) =>
          (CHOOSE p \in Places : c \in e.hands[p]) \in Places
    OBVIOUS
  <2>3. QED  BY <2>1, <2>2, PlacesFacts DEF KingOwner
<1> HIDE DEF owner
<1>3. /\ b \in Bids /\ b.taker = e.ctx.bid.taker /\ b.contract = e.ctx.bid.contract
      /\ b.partner = owner
  BY <1>2, EngineFields, ContextFields DEF Bids
<1>4. f = [e EXCEPT !.ctx = new, !.seq = "SHOW_KING_CALL"]
  BY DEF SetKingCalled, owner, Engines, Contexts, Bids
<1> HIDE DEF b
<1>5. new \in Contexts /\ new.bid = b /\ new.dog = e.ctx.dog
  BY <1>3, EngineFields DEF Contexts
<1> HIDE DEF new
<1>6. /\ f \in Engines /\ f.seq = "SHOW_KING_CALL" /\ f.ctx = new /\ f.hands = e.hands
      /\ f.trick = e.trick
  BY <1>4, <1>5 DEF Engines, Steps
<1> HIDE DEF f
<1>7. BidsInv(f) /\ PlayInv(f)
  BY <1>1, <1>6 DEF BidsInv, PlayInv, PlaySteps
<1>8. TakerInv(f)
  BY <1>1, <1>2, <1>3, <1>5, <1>6 DEF TakerInv, HasTaker
<1>9. CardsInv(f)
  BY <1>1, <1>5, <1>6 DEF CardsInv, CardsApart
<1>10. QED
  BY <1>6, <1>7, <1>8, <1>9 DEF EngineInv, f

\* After the called king has been shown.
LEMMA AfterKingCallCorrect ==
  ASSUME NEW e \in Engines, EngineInv(e), e.seq = "SHOW_KING_CALL"
  PROVE  LET f == ManageAfterBidSequence(e)
         IN  /\ f \in Engines
             /\ (f.seq = "START_DEAL" /\ ReadyToStart(f)) \/ EngineInv(f)
             /\ f.seq \in {"SHOW_DOG", "START_DEAL"}
<1>1. /\ ReadyToStart(e)
      /\ \A p \in Places : \A i \in DOMAIN e.ctx.dog : e.ctx.dog[i] \notin e.hands[p]
  BY DEF EngineInv, TakerInv, PlayInv, CardsInv, BidSteps, DealSteps, ReadyToStart
<1>2. QED
  BY <1>1, ManageAfterBidCorrect

\* Engine::DiscardSequence: the taker is asked for his discard.
LEMMA DiscardSequenceCorrect ==
  ASSUME NEW e \in Engines, EngineInv(e), e.seq = "SHOW_DOG"
  PROVE  /\ DiscardSequence(e) \in Engines
         /\ EngineInv(DiscardSequence(e))
         /\ DiscardSequence(e).seq = "DISCARD"
<1> DEFINE f == DiscardSequence(e)
<1>1. /\ HasTaker(e) /\ e.trick = << >> /\ CardsApart(e)
      /\ \A p \in Places : \A i \in DOMAIN e.ctx.dog : e.ctx.dog[i] \notin e.hands[p]
  BY DEF EngineInv, TakerInv, PlayInv, CardsInv, BidSteps, DealSteps
<1>2. /\ f \in Engines /\ f.seq = "DISCARD" /\ f.ctx = e.ctx /\ f.hands = e.hands
      /\ f.trick = e.trick
  BY DEF DiscardSequence, Engines, Steps
<1> HIDE DEF f
<1>3. BidsInv(f) /\ PlayInv(f)
  BY <1>1, <1>2 DEF BidsInv, PlayInv, PlaySteps
<1>4. TakerInv(f)
  BY <1>1, <1>2 DEF TakerInv, HasTaker
<1>5. CardsInv(f)
  BY <1>1, <1>2 DEF CardsInv, CardsApart
<1>6. QED
  BY <1>2, <1>3, <1>4, <1>5 DEF EngineInv, f

\* SetDiscard gives the dog to the taker and takes the discard from him: no
\* card of another hand is touched.
LEMMA SetDiscardCorrect ==
  ASSUME NEW e \in Engines, EngineInv(e), e.seq = "DISCARD", NEW discard \in Seq(Cards)
  PROVE  LET f == SetDiscard(e, discard)
         IN  f \in Engines /\ ReadyToStart(f) /\ f.seq = "START_DEAL"
<1> DEFINE f     == SetDiscard(e, discard)
           taker == e.ctx.bid.taker
           hand  == (e.hands[taker] \cup CardsOf(e.ctx.dog)) \ CardsOf(discard)
           hands == [e.hands EXCEPT ![taker] = hand]
           new   == [e.ctx EXCEPT !.discard = discard, !.discardOwner = "ATTACK"]
<1>1. /\ HasTaker(e) /\ e.trick = << >> /\ CardsApart(e) /\ taker \in Places
      /\ \A p \in Places : \A i \in DOMAIN e.ctx.dog : e.ctx.dog[i] \notin e.hands[p]
  BY DEF EngineInv, TakerInv, PlayInv, CardsInv, BidSteps, DealSteps, HasTaker
<1>2. e.hands \in [Places -> SUBSET Cards] /\ e.ctx.dog \in Seq(Cards) /\ e.ctx \in Contexts
  BY EngineFields, ContextFields
<1>3. CardsOf(e.ctx.dog) \subseteq Cards
  BY <1>2 DEF CardsOf
<1>4. /\ hands \in [Places -> SUBSET Cards]
      /\ hands[taker] = hand
      /\ \A p \in Places : p # taker => hands[p] = e.hands[p]
  <2>1. hand \in SUBSET Cards
    BY <1>1, <1>2, <1>3
  <2> HIDE DEF hand, taker
  <2>2. QED  BY <1>1, <1>2, <2>1
<1>5. new \in Contexts /\ new.bid = e.ctx.bid
  BY <1>2 DEF Contexts, Teams
<1>6. f = [e EXCEPT !.hands = hands, !.ctx = new, !.seq = "START_DEAL"]
  BY DEF SetDiscard, Engines, Contexts
<1>7. \A p, q \in Places : p # q => hands[p] \cap hands[q] = {}
  <2>1. \A p \in Places : p # taker => hand \cap e.hands[p] = {}
    BY <1>1 DEF CardsApart, CardsOf
  <2> HIDE DEF hands, hand, taker
  <2>2. QED  BY <1>1, <1>4, <2>1 DEF CardsApart
<1> HIDE DEF hands, new
<1>8. /\ f \in Engines /\ f.seq = "START_DEAL" /\ f.ctx = new /\ f.hands = hands
      /\ f.trick = e.trick
  BY <1>4, <1>5, <1>6 DEF Engines, Steps
<1> HIDE DEF f
<1>9. HasTaker(f) /\ f.trick = << >>
  BY <1>1, <1>5, <1>8 DEF HasTaker
<1>10. CardsApart(f)
  <2>1. DOMAIN f.trick = {}
    BY <1>9
  <2>2. QED  BY <1>7, <1>8, <2>1 DEF CardsApart
<1>11. QED
  BY <1>8, <1>9, <1>10 DEF ReadyToStart, f

-----------------------------------------------------------------------------
(* The play of the cards. *)

\* Engine::SetHandle: a handle is shown.
LEMMA SetHandleCorrect ==
  ASSUME NEW e \in Engines, EngineInv(e), e.seq = "HANDLE",
         NEW handle \in Seq(Cards), NEW p
  PROVE  LET f == EngineSetHandle(e, handle, p)
         IN  f \in Engines /\ EngineInv(f) /\ f.seq = "SHOW_HANDLE"
<1> DEFINE f   == EngineSetHandle(e, handle, p)
           new == CtxSetHandle(e.ctx, handle, p)
<1>1. /\ HasTaker(e) /\ InTrick(e) /\ CardsApart(e) /\ e.position < NbPlayers
      /\ e.trickCounter = 0 /\ e.currentPlayer \in e.handleAsked
  BY DEF EngineInv, TakerInv, PlayInv, CardsInv, PlaySteps, BidSteps, DealSteps
<1>2. /\ new \in Contexts /\ new.bid = e.ctx.bid /\ new.firstPlayer = e.ctx.firstPlayer
      /\ new.winner = e.ctx.winner
  BY CtxSetHandleType, EngineFields
<1> HIDE DEF new
<1>3. f = [e EXCEPT !.ctx = new, !.seq = "SHOW_HANDLE"]
  BY DEF EngineSetHandle, new
<1>4. /\ f \in Engines /\ f.seq = "SHOW_HANDLE" /\ f.ctx = new /\ f.position = e.position
      /\ f.trickCounter = e.trickCounter /\ f.currentPlayer = e.currentPlayer
      /\ f.handleAsked = e.handleAsked /\ f.hands = e.hands /\ f.trick = e.trick
  BY <1>2, <1>3 DEF Engines, Steps
<1> HIDE DEF f
<1>5. BidsInv(f) /\ TakerInv(f)
  BY <1>1, <1>2, <1>4 DEF BidsInv, TakerInv, HasTaker
<1>6. PlayInv(f)
  BY <1>1, <1>2, <1>4 DEF PlayInv, InTrick, TrickOpener, BidSteps
<1>7. CardsInv(f)
  BY <1>1, <1>4 DEF CardsInv, CardsApart, BidSteps
<1>8. QED
  BY <1>4, <1>5, <1>6, <1>7 DEF EngineInv, f

\* SetCard moves a card from the hand of the player in turn to the trick, and
\* the turn to the next player.
LEMMA SetCardCorrect ==
  ASSUME NEW e \in Engines, EngineInv(e), e.seq = "PLAYED_CARD",
         NEW c \in e.hands[e.currentPlayer]
  PROVE  LET f == SetCard(e, c, e.currentPlayer)
         IN  f \in Engines /\ EngineInv(f) /\ f.seq = "SHOW_CARD"
<1> DEFINE f      == SetCard(e, c, e.currentPlayer)
           player == e.currentPlayer
           opener == TrickOpener(e.ctx, e.trickCounter)
           trick  == Append(e.trick, c)
           hand   == e.hands[player] \ {c}
           hands  == [e.hands EXCEPT ![player] = hand]
           pos    == e.position + 1
           next   == NextPlace(player)
<1>1. HasTaker(e) /\ InTrick(e) /\ CardsApart(e) /\ e.position < NbPlayers
  BY DEF EngineInv, TakerInv, PlayInv, CardsInv, PlaySteps, BidSteps, DealSteps
<1>2. /\ e.hands \in [Places -> SUBSET Cards] /\ e.trick \in Seq(Cards)
      /\ e.position \in 0..NbPlayers /\ player \in PlaceOrNowhere
  BY EngineFields
<1>3. opener \in Places /\ player = Forward(opener, e.position) /\ player \in Places
  <2>1. opener \in Places /\ player = Forward(opener, e.position)
    BY <1>1 DEF InTrick
  <2>2. e.position \in Places
    BY <1>1, <1>2, TarotAssumption DEF Places
  <2>3. QED  BY <2>1, <2>2, ForwardType
<1>4. c \in Cards
  BY <1>2, <1>3
<1>5. /\ trick \in Seq(Cards) /\ Len(trick) = Len(e.trick) + 1
      /\ DOMAIN trick = 1..(Len(e.trick) + 1)
      /\ \A i \in DOMAIN e.trick : trick[i] = e.trick[i]
      /\ trick[Len(e.trick) + 1] = c
  BY <1>2, <1>4
<1>6. /\ hands \in [Places -> SUBSET Cards] /\ hands[player] = hand
      /\ \A p \in Places : p # player => hands[p] = e.hands[p]
  <2>1. hand \in SUBSET Cards
    BY <1>2, <1>3
  <2> HIDE DEF hand, player
  <2>2. QED  BY <1>2, <1>3, <2>1
<1>7. pos \in 0..NbPlayers /\ next \in PlaceOrNowhere
  BY <1>1, <1>2, NextPlaceType, PlacesFacts, TarotAssumption
<1>8. pos < NbPlayers => next = Forward(opener, pos)
  <2>1. e.position \in Nat /\ (pos < NbPlayers => e.position + 1 < NbPlayers)
    BY <1>2, TarotAssumption
  <2>2. QED  BY <1>3, <2>1, ForwardNext
<1> HIDE DEF opener
<1>9. f = [e EXCEPT !.trick = trick, !.hands = hands, !.position = pos,
                    !.currentPlayer = next, !.seq = "SHOW_CARD"]
  BY DEF SetCard, Engines
<1> HIDE DEF trick, hands, pos, next
<1>10. /\ f \in Engines /\ f.seq = "SHOW_CARD" /\ f.position = pos /\ f.currentPlayer = next
       /\ f.trick = trick /\ f.hands = hands /\ f.ctx = e.ctx
       /\ f.trickCounter = e.trickCounter
  BY <1>5, <1>6, <1>7, <1>9 DEF Engines, Steps
<1> HIDE DEF f
<1>11. BidsInv(f) /\ TakerInv(f)
  BY <1>1, <1>10 DEF BidsInv, TakerInv, HasTaker
<1>12. PlayInv(f)
  <2>1. TrickOpener(f.ctx, f.trickCounter) = opener
    BY <1>10 DEF opener
  <2>2. Len(f.trick) = f.position
    BY <1>1, <1>5, <1>10 DEF InTrick, pos
  <2>3. InTrick(f)
    BY <1>1, <1>3, <1>8, <1>10, <2>1, <2>2 DEF InTrick
  <2>4. QED  BY <1>10, <2>3 DEF PlayInv, BidSteps
<1>13. CardsInv(f)
  <2>1. \A p, q \in Places : p # q => hands[p] \cap hands[q] = {}
    <3>1. \A p \in Places : hands[p] \subseteq e.hands[p]
      BY <1>6
    <3>2. QED  BY <1>1, <3>1 DEF CardsApart
  <2>2. \A p \in Places : c \notin hands[p]
    BY <1>1, <1>3, <1>6 DEF CardsApart
  <2>3. \A i \in DOMAIN e.trick : e.trick[i] # c
    BY <1>1, <1>3 DEF CardsApart
  <2>4. DOMAIN e.trick = 1..Len(e.trick) /\ Len(e.trick) \in Nat
    BY <1>2
  <2>5. \A i \in DOMAIN trick : i \in DOMAIN e.trick \/ (i = Len(e.trick) + 1 /\ trick[i] = c)
    BY <1>5, <2>4
  <2>6. \A i \in DOMAIN trick : \A p \in Places : trick[i] \notin hands[p]
    <3>1. \A i \in DOMAIN e.trick : \A p \in Places : trick[i] \notin hands[p]
      BY <1>1, <1>5, <1>6 DEF CardsApart
    <3>2. QED  BY <2>2, <2>5, <3>1
  <2>7. \A i, j \in DOMAIN trick : trick[i] = trick[j] => i = j
    BY <1>1, <1>5, <2>3, <2>5 DEF CardsApart
  <2>8. QED  BY <1>10, <2>1, <2>6, <2>7 DEF CardsInv, CardsApart, BidSteps
<1>14. QED
  BY <1>10, <1>11, <1>12, <1>13 DEF EngineInv, f

\* A full trick holds a card that is not the fool, so it has a winner.
LEMMA FullTrickHasLeader ==
  ASSUME NEW e \in Engines, CardsApart(e), Len(e.trick) = NbPlayers
  PROVE  \E k \in DOMAIN e.trick : ~IsFool(e.trick[k])
<1>1. e.trick \in Seq(Cards) /\ 1 \in DOMAIN e.trick /\ 2 \in DOMAIN e.trick
  BY EngineFields, TarotAssumption
<1>2. e.trick[1] # e.trick[2]
  BY <1>1 DEF CardsApart
<1>3. \A c, d \in Cards : IsFool(c) /\ IsFool(d) => c = d
  BY TarotAssumption DEF AllCards, IsFool
<1>4. e.trick[1] \in Cards /\ e.trick[2] \in Cards
  BY <1>1
<1>5. QED
  BY <1>1, <1>2, <1>3, <1>4

\* The end of a trick: the winner opens the next one.
LEMMA FinishTrickCorrect ==
  ASSUME NEW e \in Engines, HasTaker(e), InTrick(e), CardsApart(e), IsEndOfTrick(e)
  PROVE  LET f == FinishTrick(e)
         IN  /\ f \in Engines
             /\ f.seq = "END_OF_TRICK"
             /\ f.trickCounter = e.trickCounter + 1
             /\ HasTaker(f) /\ CardsApart(f)
             /\ ~IsLastTrick(f) => EngineInv(f)
<1> DEFINE f   == FinishTrick(e)
           g   == CountTrick(e)
           new == SetTrick(g.ctx, g.trick, g.trickCounter)
           win == TrickWinner(e.ctx, e.trick, e.trickCounter)
           none == << >>
<1>1. /\ e.position = NbPlayers /\ e.trickCounter \in Turns /\ Len(e.trick) = NbPlayers
      /\ TrickOpener(e.ctx, e.trickCounter) \in Places
  BY EngineFields, TarotAssumption, EngineAssumption DEF IsEndOfTrick, InTrick, Turns
<1>2. /\ g \in Engines /\ g.position = 0 /\ g.ctx = e.ctx /\ g.hands = e.hands
      /\ g.trick = e.trick /\ g.handleAsked = e.handleAsked
      /\ g.trickCounter = e.trickCounter + 1
  BY CountTrickCorrect DEF InTrick
<1>3. win \in Places
  BY <1>1, FullTrickHasLeader, TrickWinnerType, EngineFields DEF HasTaker
<1>4. g.trickCounter \in 1..HandSize /\ g.trickCounter - 1 = e.trickCounter
  BY <1>1, <1>2, TarotAssumption DEF Turns
<1>5. /\ new \in Contexts /\ new.bid = e.ctx.bid /\ new.firstPlayer = e.ctx.firstPlayer
      /\ new.winner[e.trickCounter] = win
  <2>1. TrickWinner(e.ctx, e.trick, g.trickCounter - 1) \in Places
    BY <1>3, <1>4
  <2>2. e.ctx \in Contexts /\ e.trick \in Seq(Cards)
    BY EngineFields
  <2> HIDE DEF g
  <2>3. QED  BY <1>2, <1>4, <2>1, <2>2, SetTrickType
<1>6. f = [g EXCEPT !.ctx = new, !.currentPlayer = win, !.trick = none, !.seq = "END_OF_TRICK"]
  <2>1. new.winner[g.trickCounter - 1] = win
    BY <1>4, <1>5
  <2>2. QED  BY <2>1 DEF FinishTrick
<1>7. win \in PlaceOrNowhere /\ none \in Seq(Cards)
  BY <1>3, PlacesFacts
<1> HIDE DEF g, new, win, none
<1>8. /\ f \in Engines /\ f.seq = "END_OF_TRICK" /\ f.ctx = new /\ f.currentPlayer = win
      /\ f.trick = none /\ f.hands = e.hands /\ f.position = 0
      /\ f.trickCounter = e.trickCounter + 1
  BY <1>2, <1>5, <1>6, <1>7 DEF Engines, Steps
<1> HIDE DEF f
<1>9. HasTaker(f)
  BY <1>5, <1>8 DEF HasTaker
<1>10. CardsApart(f)
  <2>1. DOMAIN f.trick = {}
    BY <1>8 DEF none
  <2>2. QED  BY <1>8, <2>1 DEF CardsApart
<1>11. ASSUME ~IsLastTrick(f) PROVE EngineInv(f)
  <2>1. /\ e.trickCounter \in Nat /\ f.trickCounter - 1 = e.trickCounter
        /\ f.trickCounter < HandSize /\ f.trickCounter > 0 /\ f.trickCounter # 0
    BY <1>1, <1>8, <1>11, TarotAssumption DEF IsLastTrick, IsDealFinished, Turns
  <2>2. TrickOpener(f.ctx, f.trickCounter) = win
    BY <1>5, <1>8, <2>1 DEF TrickOpener
  <2>3. Forward(win, 0) = win
    BY <1>3, TarotAssumption DEF Forward, Places
  <2>4. Len(f.trick) = 0
    BY <1>8 DEF none
  <2>5. InTrick(f)
    BY <1>3, <1>8, <2>1, <2>2, <2>3, <2>4 DEF InTrick
  <2>6. BidsInv(f) /\ TakerInv(f)
    BY <1>8, <1>9 DEF BidsInv, TakerInv
  <2>7. PlayInv(f)
    BY <1>8, <2>1, <2>5 DEF PlayInv, BidSteps
  <2>8. CardsInv(f)
    BY <1>8, <1>10 DEF CardsInv, BidSteps
  <2>9. QED  BY <2>6, <2>7, <2>8 DEF EngineInv
<1>12. QED
  BY <1>8, <1>9, <1>10, <1>11 DEF f

\* The other outcomes of GameSequence only move the step.
LEMMA AskPlayerCorrect ==
  ASSUME NEW e \in Engines, HasTaker(e), InTrick(e), CardsApart(e), ~IsEndOfTrick(e)
  PROVE  LET f == EngineGameSequence(e)
         IN  /\ f \in Engines
             /\ EngineInv(f)
             /\ f.seq = IF e.trickCounter = 0 /\ e.currentPlayer \notin e.handleAsked
                        THEN "HANDLE" ELSE "PLAYED_CARD"
             /\ ~IsLastTrick(f)
<1> DEFINE f     == EngineGameSequence(e)
           ask   == e.trickCounter = 0 /\ e.currentPlayer \notin e.handleAsked
           asked == IF ask THEN e.handleAsked \cup {e.currentPlayer} ELSE e.handleAsked
           s     == IF ask THEN "HANDLE" ELSE "PLAYED_CARD"
<1>1. /\ e.position \in 0..NbPlayers /\ e.position < NbPlayers
      /\ e.handleAsked \in SUBSET Places
  BY EngineFields, TarotAssumption DEF IsEndOfTrick
<1>2. e.currentPlayer \in Places
  <2>1. e.position \in Places
    BY <1>1, TarotAssumption DEF Places
  <2>2. QED  BY <1>1, <2>1, ForwardType DEF InTrick
<1>3. asked \in SUBSET Places
  BY <1>1, <1>2
<1>4. f = [e EXCEPT !.handleAsked = asked, !.seq = s]
  <2>1. CASE ask
    BY <2>1 DEF EngineGameSequence
  <2>2. CASE ~ask
    <3>1. f = [e EXCEPT !.seq = "PLAYED_CARD"]
      BY <2>2 DEF EngineGameSequence
    <3>2. QED  BY <2>2, <3>1 DEF Engines
  <2>3. QED  BY <2>1, <2>2
<1>5. /\ s \in {"HANDLE", "PLAYED_CARD"}
      /\ s = "HANDLE" => e.trickCounter = 0 /\ e.currentPlayer \in asked
  OBVIOUS
<1> HIDE DEF asked, s
<1>6. /\ f \in Engines /\ f.seq = s /\ f.ctx = e.ctx /\ f.position = e.position
      /\ f.trickCounter = e.trickCounter /\ f.currentPlayer = e.currentPlayer
      /\ f.handleAsked = asked /\ f.hands = e.hands /\ f.trick = e.trick
  BY <1>3, <1>4, <1>5 DEF Engines, Steps
<1> HIDE DEF f
<1>7. BidsInv(f) /\ TakerInv(f)
  BY <1>5, <1>6 DEF BidsInv, TakerInv, HasTaker
<1>8. PlayInv(f)
  BY <1>1, <1>5, <1>6 DEF PlayInv, InTrick, BidSteps
<1>9. CardsInv(f)
  BY <1>5, <1>6 DEF CardsInv, CardsApart, BidSteps
<1>10. ~IsLastTrick(f)
  BY <1>6, EngineFields, TarotAssumption, EngineAssumption
     DEF IsLastTrick, IsDealFinished, InTrick
<1>11. QED
  BY <1>6, <1>7, <1>8, <1>9, <1>10 DEF EngineInv, f, s

\* GameSequence after each of the steps from which it is called.
LEMMA GameSequenceCorrect ==
  ASSUME NEW e \in Engines, EngineInv(e),
         e.seq \in {"START_DEAL", "HANDLE", "SHOW_HANDLE", "SHOW_CARD", "END_OF_TRICK"}
  PROVE  LET f == EngineGameSequence(e)
         IN  /\ f \in Engines
             /\ IsLastTrick(f) => e.seq = "SHOW_CARD" /\ HasTaker(f) /\ CardsApart(f)
             /\ ~IsLastTrick(f) => EngineInv(f)
             /\ ~IsLastTrick(f) => f.seq \in {"HANDLE", "PLAYED_CARD", "END_OF_TRICK"}
             /\ e.seq = "START_DEAL" => f.seq = "HANDLE"
             /\ e.seq \in {"HANDLE", "SHOW_HANDLE", "END_OF_TRICK"} => f.seq = "PLAYED_CARD"
<1>1. /\ HasTaker(e) /\ InTrick(e) /\ CardsApart(e)
      /\ e.seq = "START_DEAL" => e.position = 0 /\ e.trickCounter = 0 /\ e.handleAsked = {}
      /\ e.seq \in {"HANDLE", "SHOW_HANDLE"} =>
           e.position < NbPlayers /\ e.currentPlayer \in e.handleAsked
      /\ e.seq = "END_OF_TRICK" => e.position = 0 /\ e.trickCounter > 0
  BY DEF EngineInv, TakerInv, PlayInv, CardsInv, PlaySteps, BidSteps, DealSteps
<1>2. CASE IsEndOfTrick(e)
  <2>1. e.seq = "SHOW_CARD"
    BY <1>1, <1>2, EngineFields, TarotAssumption DEF IsEndOfTrick
  <2>2. EngineGameSequence(e) = FinishTrick(e)
    BY <1>2 DEF EngineGameSequence
  <2>3. QED  BY <1>1, <1>2, <2>1, <2>2, FinishTrickCorrect
<1>3. CASE ~IsEndOfTrick(e)
  <2>1. e.seq = "END_OF_TRICK" => e.trickCounter # 0
    BY <1>1, EngineFields, EngineAssumption
  <2>2. QED  BY <1>1, <1>3, <2>1, AskPlayerCorrect
<1>4. QED
  BY <1>2, <1>3

\* Engine::EndOfDeal: the deal is counted.
LEMMA EndOfDealCorrect ==
  ASSUME NEW e \in Engines, HasTaker(e), CardsApart(e)
  PROVE  /\ EngineEndOfDeal(e) \in Engines
         /\ EngineInv(EngineEndOfDeal(e))
         /\ EngineEndOfDeal(e).seq = "END_OF_DEAL"
<1> DEFINE f   == EngineEndOfDeal(e)
           pts == GamePoints(e.ctx)
           new == AnalyzeGame(e.ctx)
<1>1. new \in Contexts /\ new.bid = e.ctx.bid /\ pts \in PointsRecords
  BY EngineFields, AnalyzeGameType, GamePointsType
<1> HIDE DEF pts, new
<1>2. f = [e EXCEPT !.points = pts, !.ctx = new, !.seq = "END_OF_DEAL"]
  BY DEF EngineEndOfDeal, pts, new, Engines
<1>3. /\ f \in Engines /\ f.seq = "END_OF_DEAL" /\ f.ctx = new /\ f.hands = e.hands
      /\ f.trick = e.trick
  BY <1>1, <1>2 DEF Engines, Steps
<1> HIDE DEF f
<1>4. BidsInv(f) /\ TakerInv(f)
  BY <1>1, <1>3 DEF BidsInv, TakerInv, HasTaker
<1>5. PlayInv(f) /\ CardsInv(f)
  BY <1>3 DEF PlayInv, CardsInv, CardsApart, PlaySteps, BidSteps
<1>6. QED
  BY <1>3, <1>4, <1>5 DEF EngineInv, f
=============================================================================
