----------------------------- MODULE TableProofs -----------------------------
(***************************************************************************)
(* The playing table, for every number of players, every deck and every    *)
(* bound: the invariant TypeOK /\ TableInv is inductive, and the table     *)
(* implements the step barrier.                                            *)
(***************************************************************************)
EXTENDS TableProperties, EngineProofs

\* The scores of a game, every row of which sums to zero.
GameScores == {sc \in Scores : \A i \in DOMAIN sc.rows : RowSum(sc.rows[i]) = 0}

Inv == TypeOK /\ TableInv /\ score \in GameScores

\* The successors of each step.
LEMMA StepGraphFacts ==
  /\ StepGraph["PLAYERS"] = IF AdminMode THEN {"PLAYERS"} ELSE {"READY"}
  /\ StepGraph["READY"] = {"CARDS"}
  /\ StepGraph["CARDS"] = {"BID"}
  /\ StepGraph["BID"] = {"SHOW_BID"}
  /\ StepGraph["SHOW_BID"] = {"BID", "ALL_PASSED"} \cup
       IF NbPlayers = 5 THEN {"KING_CALL"} ELSE {"SHOW_DOG", "START_DEAL"}
  /\ StepGraph["ALL_PASSED"] = {"CARDS"}
  /\ StepGraph["KING_CALL"] = {"SHOW_KING_CALL"}
  /\ StepGraph["SHOW_KING_CALL"] = {"SHOW_DOG", "START_DEAL"}
  /\ StepGraph["SHOW_DOG"] = {"DISCARD"}
  /\ StepGraph["DISCARD"] = {"START_DEAL"}
  /\ StepGraph["START_DEAL"] = {"HANDLE"}
  /\ StepGraph["HANDLE"] = {"SHOW_HANDLE", "PLAYED_CARD"}
  /\ StepGraph["SHOW_HANDLE"] = {"PLAYED_CARD"}
  /\ StepGraph["PLAYED_CARD"] = {"SHOW_CARD"}
  /\ StepGraph["SHOW_CARD"] = {"HANDLE", "PLAYED_CARD", "END_OF_TRICK", "END_OF_DEAL"}
  /\ StepGraph["END_OF_TRICK"] = {"PLAYED_CARD"}
  /\ StepGraph["END_OF_DEAL"] = {"CARDS", "READY"}
BY DEF StepGraph, Steps

\* The counters of a score.
LEMMA ScoreFields ==
  ASSUME NEW sc \in GameScores
  PROVE  sc \in Scores /\ sc.counter \in 0..MaxDeals /\ sc.turns \in Nat
BY DEF GameScores, Scores

\* Score::NewGame.
LEMMA NewGameScore ==
  ASSUME NEW n \in Nat
  PROVE  /\ ScoreNewGame(n) \in GameScores
         /\ ScoreNewGame(n).counter = 0
         /\ ScoreNewGame(n).turns = n
<1>1. << >> \in Seq([Places -> Int]) /\ 0 \in 0..MaxDeals
  BY TableAssumption
<1>2. DOMAIN ScoreNewGame(n).rows = {}
  BY DEF ScoreNewGame
<1> QED
  BY <1>1, <1>2 DEF GameScores, Scores, ScoreNewGame

\* Score::AddPoints, for a deal with a taker.
LEMMA AddPointsScore ==
  ASSUME NEW sc \in GameScores, sc.counter < MaxDeals,
         NEW points \in PointsRecords, NEW bid \in Bids, Scorable(bid)
  PROVE  /\ AddPoints(sc, points, bid) \in GameScores
         /\ AddPoints(sc, points, bid).counter = sc.counter + 1
         /\ AddPoints(sc, points, bid).turns = sc.turns
<1> DEFINE row == DealRow(points, bid)
           new == Append(sc.rows, row)
<1>1. row \in [Places -> Int] /\ RowSum(row) = 0
  BY DealRowZeroSum
<1>2. /\ sc.counter \in 0..MaxDeals /\ sc.turns \in Nat
      /\ sc.rows \in Seq([Places -> Int])
      /\ \A i \in DOMAIN sc.rows : RowSum(sc.rows[i]) = 0
  BY DEF GameScores, Scores
<1>3. AddPoints(sc, points, bid)
        = [counter |-> sc.counter + 1, turns |-> sc.turns, rows |-> new]
  <2>1. sc \in [counter : 0..MaxDeals, turns : Nat, rows : Seq([Places -> Int])]
    BY DEF GameScores, Scores
  <2> HIDE DEF row
  <2>2. AddPoints(sc, points, bid) = [sc EXCEPT !.counter = @ + 1, !.rows = Append(@, row)]
    BY DEF AddPoints, row
  <2> QED
    BY <2>1, <2>2
<1> HIDE DEF row
<1>4. new \in Seq([Places -> Int]) /\ \A i \in DOMAIN new : RowSum(new[i]) = 0
  <2>1. /\ new \in Seq([Places -> Int]) /\ Len(new) = Len(sc.rows) + 1
        /\ Len(sc.rows) \in Nat /\ DOMAIN sc.rows = 1..Len(sc.rows)
        /\ DOMAIN new = 1..Len(new)
    BY <1>1, <1>2
  <2>2. ASSUME NEW i \in DOMAIN new PROVE RowSum(new[i]) = 0
    <3>1. CASE i = Len(sc.rows) + 1
      <4>1. new[i] = row
        BY <1>1, <1>2, <3>1
      <4> QED
        BY <1>1, <4>1
    <3>2. CASE i # Len(sc.rows) + 1
      <4>1. i \in DOMAIN sc.rows
        BY <2>1, <3>2
      <4>2. new[i] = sc.rows[i]
        BY <1>1, <1>2, <2>1, <4>1
      <4> QED
        BY <1>2, <4>1, <4>2
    <3> QED
      BY <3>1, <3>2
  <2> QED
    BY <2>1, <2>2
<1> HIDE DEF new
<1>5. sc.counter + 1 \in 0..MaxDeals
  BY <1>2, TableAssumption
<1>6. AddPoints(sc, points, bid) \in Scores
  BY <1>2, <1>3, <1>4, <1>5 DEF Scores
<1> QED
  BY <1>3, <1>4, <1>6 DEF GameScores

-----------------------------------------------------------------------------
(* The steps of a game, as PlayingTable takes them. *)

\* What a step of the game leaves: a correct engine in a step that may follow
\* the current one, and a score that belongs to the game.
StepTaken ==
  /\ engine' \in Engines
  /\ EngineInv(engine')
  /\ engine'.seq \in StepGraph[engine.seq]
  /\ score' \in GameScores
  /\ nbDeals' = nbDeals
  /\ dealt' \in 0..MaxDealt
  /\ engine'.seq # "PLAYERS" => score'.turns = nbDeals
  /\ engine'.seq \in DealSteps => score'.counter < nbDeals

\* A step that leaves the score alone keeps it consistent, if it stays in the
\* deal.
LEMMA SameScore ==
  ASSUME Inv, score' = score, nbDeals' = nbDeals, dealt' = dealt,
         engine.seq \in DealSteps
  PROVE  /\ score' \in GameScores
         /\ dealt' \in 0..MaxDealt
         /\ score'.turns = nbDeals
         /\ score'.counter < nbDeals
BY DEF Inv, TypeOK, TableInv, ScoreInv, DealSteps, BidSteps, PlaySteps

\* PlayingTable::NewDeal: the counter designates a deal of the game, after the
\* rollover if need be.
LEMMA NewDealStep ==
  ASSUME Inv, NEW sc \in GameScores, sc.turns = nbDeals,
         NewDeal(sc), engine.seq \in {"READY", "ALL_PASSED", "END_OF_DEAL"}
  PROVE  StepTaken
<1>1. PICK d \in Deals : engine' = EngineNewDeal(engine, d)
  BY DEF NewDeal
<1>2. d \in Distributions /\ IsDeal(d)
  BY TableAssumption
<1>3. engine' \in Engines /\ EngineInv(engine') /\ engine'.seq = "CARDS"
  BY <1>1, <1>2, NewDealCorrect DEF Inv, TypeOK
<1>4. engine'.seq \in StepGraph[engine.seq]
  BY <1>3, StepGraphFacts
<1>5. nbDeals' = nbDeals /\ nbDeals \in 1..MaxDeals /\ MaxDeals \in Nat
  BY TableAssumption DEF NewDeal, Inv, TypeOK
<1>6. dealt' \in 0..MaxDealt
  <2>1. dealt \in 0..MaxDealt /\ dealt < MaxDealt /\ dealt' = dealt + 1
    BY DEF NewDeal, Inv, TypeOK
  <2>2. QED  BY <2>1, TableAssumption
<1>7. /\ score' \in GameScores
      /\ score'.turns = nbDeals /\ score'.counter < nbDeals
  <2>1. CASE sc.counter >= nbDeals
    <3>1. score' = ScoreNewGame(nbDeals)
      BY <2>1 DEF NewDeal
    <3>2. QED  BY <1>5, <3>1, NewGameScore
  <2>2. CASE ~(sc.counter >= nbDeals)
    <3>1. score' = sc
      BY <2>2 DEF NewDeal
    <3>2. sc.counter \in 0..MaxDeals
      BY ScoreFields
    <3>3. QED  BY <1>5, <2>2, <3>1, <3>2
  <2>3. QED  BY <2>1, <2>2
<1>8. QED
  BY <1>3, <1>4, <1>5, <1>6, <1>7 DEF StepTaken

\* The rest of the bids, with the start of the deal when it comes.
LEMMA NextBidStep ==
  ASSUME Inv, NEW e \in Engines, (e.seq = "START_DEAL" /\ ReadyToStart(e)) \/ EngineInv(e),
         e.seq \in StepGraph[engine.seq], NextBidSequence(e), engine.seq \in DealSteps,
         e.seq = "START_DEAL" => ReadyToStart(e)
  PROVE  StepTaken
<1>1. engine' = AfterBids(e) /\ score' = score /\ nbDeals' = nbDeals /\ dealt' = dealt
  BY DEF NextBidSequence
<1>2. AfterBids(e) \in Engines /\ EngineInv(AfterBids(e)) /\ AfterBids(e).seq = e.seq
  BY StartDealCorrect DEF AfterBids
<1>3. QED
  BY <1>1, <1>2, SameScore DEF StepTaken

\* PlayingTable::GameSequence.
LEMMA GameStep ==
  ASSUME Inv, GameSequence,
         engine.seq \in {"START_DEAL", "HANDLE", "SHOW_HANDLE", "SHOW_CARD", "END_OF_TRICK"}
  PROVE  StepTaken
<1> DEFINE e == EngineGameSequence(engine)
<1>1. /\ engine' = IF IsLastTrick(e) THEN EngineEndOfDeal(e) ELSE e
      /\ score' = score /\ nbDeals' = nbDeals /\ dealt' = dealt
  BY DEF GameSequence
<1>2. /\ e \in Engines
      /\ IsLastTrick(e) => engine.seq = "SHOW_CARD" /\ HasTaker(e) /\ CardsApart(e)
      /\ ~IsLastTrick(e) => EngineInv(e)
      /\ ~IsLastTrick(e) => e.seq \in {"HANDLE", "PLAYED_CARD", "END_OF_TRICK"}
      /\ engine.seq = "START_DEAL" => e.seq = "HANDLE"
      /\ engine.seq \in {"HANDLE", "SHOW_HANDLE", "END_OF_TRICK"} => e.seq = "PLAYED_CARD"
  BY GameSequenceCorrect DEF Inv, TypeOK, TableInv
<1> HIDE DEF e
<1>3. engine' \in Engines /\ EngineInv(engine') /\ engine'.seq \in StepGraph[engine.seq]
  <2>1. CASE IsLastTrick(e)
    BY <1>1, <1>2, <2>1, EndOfDealCorrect, StepGraphFacts
  <2>2. CASE ~IsLastTrick(e)
    BY <1>1, <1>2, <2>2, StepGraphFacts
  <2>3. QED  BY <2>1, <2>2
<1>4. QED
  BY <1>1, <1>3, SameScore DEF StepTaken, DealSteps, PlaySteps

\* The end of a deal: the next deal of the game, or the end of the game.
LEMMA EndOfDealStep ==
  ASSUME Inv, EndOfDeal, engine.seq = "END_OF_DEAL"
  PROVE  StepTaken
<1> DEFINE sc == AddPoints(score, engine.points, engine.ctx.bid)
<1>1. /\ score \in GameScores /\ score.counter \in 0..MaxDeals
      /\ score.turns = nbDeals /\ score.counter < nbDeals
      /\ nbDeals \in 1..MaxDeals /\ MaxDeals \in Nat
  BY TableAssumption, ScoreFields DEF Inv, TypeOK, TableInv, ScoreInv, DealSteps
<1>2. /\ engine.points \in PointsRecords /\ engine.ctx.bid \in Bids
      /\ Scorable(engine.ctx.bid)
  <2>1. engine \in Engines /\ HasTaker(engine)
    BY DEF Inv, TypeOK, TableInv, EngineInv, TakerInv, DealSteps
  <2>2. engine.points \in PointsRecords /\ engine.ctx \in Contexts
    BY <2>1 DEF Engines
  <2>3. engine.ctx.bid \in Bids
    BY <2>2 DEF Contexts
  <2>4. QED  BY <2>1, <2>2, <2>3 DEF HasTaker, Scorable
<1>3. sc \in GameScores /\ sc.turns = nbDeals
  <2>1. score.counter < MaxDeals
    BY <1>1
  <2>2. QED  BY <1>1, <1>2, <2>1, AddPointsScore
<1>4. EndOfDeal <=> IF sc.counter < sc.turns
                    THEN NewDeal(sc)
                    ELSE /\ engine' = EngineNewGame(engine)
                         /\ score' = sc
                         /\ sent' = <<SendToAllPlayers("EndOfGame", GetWinner(sc))>>
                         /\ UNCHANGED <<nbDeals, dealt>>
  BY DEF EndOfDeal
<1> HIDE DEF sc
<1>5. CASE sc.counter < sc.turns
  <2>1. NewDeal(sc)
    BY <1>4, <1>5
  <2>2. QED  BY <1>3, <2>1, NewDealStep
<1>6. CASE ~(sc.counter < sc.turns)
  <2>1. engine' = EngineNewGame(engine) /\ score' = sc /\ nbDeals' = nbDeals /\ dealt' = dealt
    BY <1>4, <1>6
  <2>2. engine' \in Engines /\ EngineInv(engine') /\ engine'.seq = "READY"
    BY <2>1, NewGameCorrect DEF Inv, TypeOK
  <2>3. engine'.seq \notin DealSteps /\ engine'.seq \in StepGraph[engine.seq]
    BY <2>2, StepGraphFacts DEF DealSteps, BidSteps, PlaySteps
  <2>4. dealt' \in 0..MaxDealt
    BY <2>1 DEF Inv, TypeOK
  <2>5. QED  BY <1>3, <2>1, <2>2, <2>3, <2>4 DEF StepTaken
<1>7. QED
  BY <1>5, <1>6

\* Every seat has acknowledged the current step: the game goes on.
LEMMA AllSyncedStep ==
  ASSUME Inv, AllSynced(engine.seq)
  PROVE  StepTaken
<1>1. engine \in Engines /\ EngineInv(engine)
  BY DEF Inv, TypeOK, TableInv
<1>2. CASE engine.seq = "PLAYERS"
  <2>1. /\ score \in GameScores /\ dealt \in 0..MaxDealt
        /\ nbDeals \in 1..MaxDeals /\ MaxDeals \in Nat
    BY TableAssumption DEF Inv, TypeOK
  <2>2. CASE AdminMode
    <3>1. engine' = engine /\ score' = score /\ nbDeals' = nbDeals /\ dealt' = dealt
      BY <1>2, <2>2 DEF AllSynced
    <3>2. engine'.seq \in StepGraph[engine.seq] /\ engine'.seq \notin DealSteps
      BY <1>2, <2>2, <3>1, StepGraphFacts DEF DealSteps, BidSteps, PlaySteps
    <3>3. QED  BY <1>1, <1>2, <2>1, <3>1, <3>2 DEF StepTaken
  <2>3. CASE ~AdminMode
    <3>1. /\ engine' = EngineNewGame(engine) /\ score' = ScoreNewGame(nbDeals)
          /\ nbDeals' = nbDeals /\ dealt' = dealt
      BY <1>2, <2>3 DEF AllSynced, NewGame
    <3>2. engine' \in Engines /\ EngineInv(engine') /\ engine'.seq = "READY"
      BY <1>1, <3>1, NewGameCorrect
    <3>3. engine'.seq \in StepGraph[engine.seq] /\ engine'.seq \notin DealSteps
      BY <1>2, <2>3, <3>2, StepGraphFacts DEF DealSteps, BidSteps, PlaySteps
    <3>4. score' \in GameScores /\ score'.turns = nbDeals
      BY <2>1, <3>1, NewGameScore
    <3>5. QED  BY <2>1, <3>1, <3>2, <3>3, <3>4 DEF StepTaken
  <2>4. QED  BY <2>2, <2>3
<1>3. CASE engine.seq \in {"READY", "ALL_PASSED"}
  <2>1. NewDeal(score)
    BY <1>3 DEF AllSynced
  <2>2. score \in GameScores /\ score.turns = nbDeals
    BY <1>3 DEF Inv, TypeOK, TableInv, ScoreInv
  <2>3. QED  BY <1>3, <2>1, <2>2, NewDealStep
<1>4. CASE engine.seq \in {"CARDS", "SHOW_BID"}
  <2> DEFINE e == BidSequence(engine)
  <2>1. NextBidSequence(e)
    BY <1>4 DEF AllSynced
  <2>2. /\ e \in Engines /\ ((e.seq = "START_DEAL" /\ ReadyToStart(e)) \/ EngineInv(e))
        /\ e.seq \in StepGraph[engine.seq]
    BY <1>1, <1>4, BidSequenceCorrect, StepGraphFacts
  <2> HIDE DEF e
  <2>3. e.seq = "START_DEAL" => ReadyToStart(e)
    BY <2>2 DEF EngineInv, TakerInv, PlayInv, CardsInv, ReadyToStart, DealSteps
  <2>4. engine.seq \in DealSteps
    BY <1>4 DEF DealSteps, BidSteps
  <2>5. QED  BY <2>1, <2>2, <2>3, <2>4, NextBidStep
<1>5. CASE engine.seq = "SHOW_KING_CALL"
  <2> DEFINE e == ManageAfterBidSequence(engine)
  <2>1. NextBidSequence(e)
    BY <1>5 DEF AllSynced
  <2>2. /\ e \in Engines /\ ((e.seq = "START_DEAL" /\ ReadyToStart(e)) \/ EngineInv(e))
        /\ e.seq \in StepGraph[engine.seq]
    BY <1>1, <1>5, AfterKingCallCorrect, StepGraphFacts
  <2> HIDE DEF e
  <2>3. e.seq = "START_DEAL" => ReadyToStart(e)
    BY <2>2 DEF EngineInv, TakerInv, PlayInv, CardsInv, ReadyToStart, DealSteps
  <2>4. engine.seq \in DealSteps
    BY <1>5 DEF DealSteps, BidSteps
  <2>5. QED  BY <2>1, <2>2, <2>3, <2>4, NextBidStep
<1>6. CASE engine.seq = "SHOW_DOG"
  <2>1. /\ engine' = DiscardSequence(engine)
        /\ score' = score /\ nbDeals' = nbDeals /\ dealt' = dealt
    BY <1>6 DEF AllSynced
  <2>2. engine' \in Engines /\ EngineInv(engine') /\ engine'.seq = "DISCARD"
    BY <1>1, <1>6, <2>1, DiscardSequenceCorrect
  <2>3. engine.seq \in DealSteps /\ engine'.seq \in StepGraph[engine.seq]
    BY <1>6, <2>2, StepGraphFacts DEF DealSteps, BidSteps
  <2>4. QED  BY <2>1, <2>2, <2>3, SameScore DEF StepTaken
<1>7. CASE engine.seq \in {"START_DEAL", "SHOW_HANDLE", "SHOW_CARD", "END_OF_TRICK"}
  <2>1. GameSequence
    BY <1>7 DEF AllSynced
  <2>2. QED  BY <1>7, <2>1, GameStep
<1>8. CASE engine.seq = "END_OF_DEAL"
  <2>1. EndOfDeal
    BY <1>8 DEF AllSynced
  <2>2. QED  BY <1>8, <2>1, EndOfDealStep
<1>9. QED
  BY <1>2, <1>3, <1>4, <1>5, <1>6, <1>7, <1>8 DEF AllSynced

-----------------------------------------------------------------------------
(* Acknowledgements. *)

\* A user has at most one seat, and Sync records the acknowledgement of that
\* seat for the current step only.
LEMMA SyncFacts ==
  ASSUME Inv, NEW u \in Users, NEW step \in AckSteps, Seated(u)
  PROVE  \E p \in Places :
           /\ uuid[p] = u
           /\ engine.seq = step => Sync(u, step) = [ack EXCEPT ![p] = TRUE]
           /\ engine.seq # step => Sync(u, step) = ack
<1>1. PICK p \in Places : uuid[p] = u
  BY DEF Seated
<1>2. u # INVALID_UID
  BY TableAssumption
<1>3. \A q \in Places : uuid[q] = u => q = p
  BY <1>1, <1>2 DEF Inv, TableInv, AckInv
<1>4. ack \in [Places -> BOOLEAN]
  BY DEF Inv, TypeOK
<1>5. engine.seq = step => Sync(u, step) = [ack EXCEPT ![p] = TRUE]
  BY <1>1, <1>3, <1>4 DEF Sync
<1>6. engine.seq # step => Sync(u, step) = ack
  BY <1>4 DEF Sync
<1>7. QED
  BY <1>1, <1>5, <1>6

\* The step on which the table goes on is the step it is in: a late or early
\* acknowledgement never completes the barrier.
LEMMA AckCases ==
  ASSUME Inv, NEW u \in Users, NEW step \in AckSteps, Ack(u, step)
  PROVE  \E p \in Places :
           \/ /\ engine.seq = step
              /\ \A q \in Places : q # p => ack[q]
              /\ ack' = NoAck
              /\ StepTaken
           \/ /\ engine.seq = step
              /\ ack' = [ack EXCEPT ![p] = TRUE]
              /\ \E q \in Places : ~ack'[q]
              /\ UNCHANGED <<engine, score, nbDeals, dealt>>
           \/ /\ engine.seq # step
              /\ ack' = ack
              /\ UNCHANGED <<engine, score, nbDeals, dealt>>
<1>1. PICK p \in Places :
        /\ uuid[p] = u
        /\ engine.seq = step => Sync(u, step) = [ack EXCEPT ![p] = TRUE]
        /\ engine.seq # step => Sync(u, step) = ack
  BY SyncFacts DEF Ack
<1>2. ack \in [Places -> BOOLEAN] /\ \E q \in Places : ~ack[q]
  BY DEF Inv, TypeOK, TableInv, AckInv
<1>3. CASE \A q \in Places : Sync(u, step)[q]
  <2>1. engine.seq = step
    BY <1>1, <1>2, <1>3
  <2>2. \A q \in Places : q # p => ack[q]
    BY <1>1, <1>2, <1>3, <2>1
  <2>3. ack' = NoAck /\ AllSynced(step)
    BY <1>3 DEF Ack
  <2>4. StepTaken
    BY <2>1, <2>3, AllSyncedStep
  <2>5. QED  BY <2>1, <2>2, <2>3, <2>4
<1>4. CASE ~ \A q \in Places : Sync(u, step)[q]
  <2>1. ack' = Sync(u, step) /\ UNCHANGED <<engine, score, nbDeals, dealt>>
    BY <1>4 DEF Ack
  <2>2. QED  BY <1>1, <1>4, <2>1
<1>5. QED
  BY <1>3, <1>4

-----------------------------------------------------------------------------
(* Answers: the requests at the steps that wait for one player. *)

AnswerTaken ==
  /\ StepTaken
  /\ engine.seq \in DealSteps \ AckSteps
  /\ ack' = ack \/ ack' = NoAck
  /\ UNCHANGED <<uuid, admin, leaves>>

\* A step of the deal that leaves the score alone and the engine correct.
LEMMA AnswerStep ==
  ASSUME Inv, engine' \in Engines, EngineInv(engine'), engine'.seq \in StepGraph[engine.seq],
         engine.seq \in {"BID", "KING_CALL", "DISCARD", "HANDLE", "PLAYED_CARD"},
         ack' = ack \/ ack' = NoAck,
         UNCHANGED <<uuid, admin, score, nbDeals, dealt, leaves>>
  PROVE  AnswerTaken
<1>1. engine.seq \in DealSteps \ AckSteps
  BY DEF DealSteps, BidSteps, PlaySteps, AckSteps
<1>2. QED
  BY <1>1, SameScore DEF AnswerTaken, StepTaken

\* "ReplyBid" is an answer at the step BID.
LEMMA ReplyBidStep ==
  ASSUME Inv, NEW u \in Users, SomeBid(u)
  PROVE  AnswerTaken
<1>1. PICK b \in BidChoices : ReplyBid(u, b.contract, b.slam)
  BY DEF SomeBid
<1>2. b.contract \in PASS..GUARD_AGAINST /\ b.slam \in BOOLEAN
  BY TableAssumption
<1>3. /\ engine.seq = "BID" /\ Answered
      /\ engine' = EngineSetBid(engine, b.contract, b.slam, engine.currentPlayer)
  BY <1>1 DEF ReplyBid, Answers
<1>4. engine' \in Engines /\ EngineInv(engine') /\ engine'.seq = "SHOW_BID"
  BY <1>2, <1>3, SetBidCorrect DEF Inv, TypeOK, TableInv
<1>5. QED
  BY <1>3, <1>4, StepGraphFacts, AnswerStep DEF Answered

\* "Discard" is an answer at the step DISCARD.
LEMMA DiscardStep ==
  ASSUME Inv, NEW u \in Users, SomeDiscard(u)
  PROVE  AnswerTaken
<1>1. PICK d \in Discards : Discard(u, d)
  BY DEF SomeDiscard
<1>2. d \in Seq(Cards)
  BY TableAssumption
<1>3. /\ engine.seq = "DISCARD" /\ Answered
      /\ engine' = EngineStartDeal(SetDiscard(engine, d))
  BY <1>1 DEF Discard, Answers
<1>4. /\ SetDiscard(engine, d) \in Engines /\ ReadyToStart(SetDiscard(engine, d))
      /\ SetDiscard(engine, d).seq = "START_DEAL"
  BY <1>2, <1>3, SetDiscardCorrect DEF Inv, TypeOK, TableInv
<1>5. engine' \in Engines /\ EngineInv(engine') /\ engine'.seq = "START_DEAL"
  BY <1>3, <1>4, StartDealCorrect
<1>6. QED
  BY <1>3, <1>5, StepGraphFacts, AnswerStep DEF Answered

\* "ReplyKingCall" is an answer at the step KING_CALL.
LEMMA KingCallStep ==
  ASSUME Inv, NEW u \in Users, SomeKingCall(u)
  PROVE  AnswerTaken
<1>1. PICK c \in KingCalls : ReplyKingCall(u, c)
  BY DEF SomeKingCall
<1>2. /\ engine.seq = "KING_CALL" /\ engine' = SetKingCalled(engine, c)
      /\ ack' = ack \/ ack' = NoAck
      /\ UNCHANGED <<uuid, admin, score, nbDeals, dealt, leaves>>
  BY <1>1 DEF ReplyKingCall, Answers
<1>3. engine' \in Engines /\ EngineInv(engine') /\ engine'.seq = "SHOW_KING_CALL"
  BY <1>2, SetKingCalledCorrect DEF Inv, TypeOK, TableInv
<1>4. QED
  BY <1>2, <1>3, StepGraphFacts, AnswerStep

\* "Handle" is an answer at the step HANDLE, accepted or not.
LEMMA HandleStep ==
  ASSUME Inv, NEW u \in Users, SomeHandle(u)
  PROVE  AnswerTaken
<1>1. CASE NoHandle(u)
  <2>1. engine.seq = "HANDLE" /\ GameSequence /\ UNCHANGED <<uuid, ack, admin, leaves>>
    BY <1>1 DEF NoHandle, Answers
  <2>2. StepTaken
    BY <2>1, GameStep
  <2>3. engine.seq \in DealSteps \ AckSteps
    BY <2>1 DEF DealSteps, PlaySteps, AckSteps
  <2>4. QED  BY <2>1, <2>2, <2>3 DEF AnswerTaken
<1>2. CASE \E h \in Handles : ShowHandle(u, h)
  <2>1. PICK h \in Handles : ShowHandle(u, h)
    BY <1>2
  <2>2. h \in Seq(Cards)
    BY TableAssumption
  <2>3. /\ engine.seq = "HANDLE" /\ Answered
        /\ engine' = EngineSetHandle(engine, h, engine.currentPlayer)
    BY <2>1 DEF ShowHandle, Answers
  <2>4. engine' \in Engines /\ EngineInv(engine') /\ engine'.seq = "SHOW_HANDLE"
    BY <2>2, <2>3, SetHandleCorrect DEF Inv, TypeOK, TableInv
  <2>5. QED  BY <2>3, <2>4, StepGraphFacts, AnswerStep DEF Answered
<1>3. QED
  BY <1>1, <1>2 DEF SomeHandle

\* "Card" is an answer at the step PLAYED_CARD.
LEMMA PlayCardStep ==
  ASSUME Inv, NEW u \in Users, SomeCard(u)
  PROVE  AnswerTaken
<1>1. PICK c \in Cards : PlayCard(u, c)
  BY DEF SomeCard
<1>2. /\ engine.seq = "PLAYED_CARD" /\ Answered
      /\ c \in engine.hands[engine.currentPlayer]
      /\ engine' = SetCard(engine, c, engine.currentPlayer)
  BY <1>1 DEF PlayCard, Answers, CanPlayCard
<1>3. engine' \in Engines /\ EngineInv(engine') /\ engine'.seq = "SHOW_CARD"
  BY <1>2, SetCardCorrect DEF Inv, TypeOK, TableInv
<1>4. QED
  BY <1>2, <1>3, StepGraphFacts, AnswerStep DEF Answered

-----------------------------------------------------------------------------
(* The seats. *)

\* "RequestNewGame" keeps the invariant at any step.
LEMMA RequestNewGameStep ==
  ASSUME Inv, NEW u \in Users, SomeNewGame(u)
  PROVE  Inv' /\ engine'.seq = "READY" /\ ack' = NoAck
<1>1. PICK n \in 1..MaxDeals : RequestNewGame(u, n)
  BY DEF SomeNewGame
<1>2. /\ engine' = EngineNewGame(engine) /\ ack' = NoAck /\ nbDeals' = n
      /\ score' = ScoreNewGame(n)
      /\ UNCHANGED <<uuid, admin, leaves, dealt>>
  BY <1>1 DEF RequestNewGame, NewGame
<1>3. engine' \in Engines /\ EngineInv(engine') /\ engine'.seq = "READY"
  BY <1>2, NewGameCorrect DEF Inv, TypeOK
<1>4. /\ n \in Nat /\ score' \in GameScores /\ score' \in Scores
      /\ score'.counter = 0 /\ score'.turns = n
  BY <1>2, TableAssumption, NewGameScore, ScoreFields
<1>5. TypeOK'
  BY <1>2, <1>3, <1>4 DEF Inv, TypeOK, NoAck
<1>6. AckInv'
  <2>1. \E p \in Places : ~ack'[p]
    BY <1>2, PlacesFacts DEF NoAck
  <2>2. QED  BY <1>2, <2>1 DEF Inv, TableInv, AckInv, NoAck
<1>7. ScoreInv'
  BY <1>2, <1>3, <1>4 DEF ScoreInv, DealSteps, BidSteps, PlaySteps
<1>8. QED
  BY <1>2, <1>3, <1>4, <1>5, <1>6, <1>7 DEF Inv, TableInv

\* PlayingTable::AddPlayer seats a user once, and disturbs nothing else.
LEMMA AddPlayerStep ==
  ASSUME Inv, NEW u \in Users, AddPlayer(u)
  PROVE  Inv' /\ engine' = engine /\ ack' = ack
<1>1. PICK p \in FreeSeats : uuid' = [uuid EXCEPT ![p] = u]
  BY DEF AddPlayer
<1>2. /\ admin' \in Users \cup {INVALID_UID}
      /\ UNCHANGED <<engine, ack, score, nbDeals, dealt, leaves>>
      /\ \A q \in Places : uuid[q] # u
  BY DEF AddPlayer, Seated, Inv, TypeOK
<1>3. p \in Places /\ uuid \in [Places -> Users \cup {INVALID_UID}]
  BY DEF FreeSeats, Inv, TypeOK
<1>4. TypeOK'
  BY <1>1, <1>2, <1>3 DEF Inv, TypeOK
<1>5. AckInv'
  BY <1>1, <1>2, <1>3 DEF Inv, TableInv, AckInv
<1>6. QED
  BY <1>2, <1>4, <1>5 DEF Inv, TableInv, ScoreInv

\* PlayingTable::RemovePlayer withdraws one seat's acknowledgement.
LEMMA RemovePlayerStep ==
  ASSUME Inv, NEW u \in Users, RemovePlayer(u)
  PROVE  /\ Inv' /\ engine' = engine
         /\ \E p \in Places : ack' = [ack EXCEPT ![p] = FALSE]
<1>1. /\ uuid' = [p \in Places |-> IF uuid[p] = u THEN INVALID_UID ELSE uuid[p]]
      /\ ack' = [p \in Places |-> ack[p] /\ uuid[p] # u]
      /\ leaves < MaxLeaves /\ leaves' = leaves + 1
      /\ UNCHANGED <<engine, score, nbDeals, dealt>>
  BY DEF RemovePlayer
<1>2. /\ uuid \in [Places -> Users \cup {INVALID_UID}] /\ ack \in [Places -> BOOLEAN]
      /\ admin \in Users \cup {INVALID_UID}
  BY DEF Inv, TypeOK
<1>3. admin' \in Users \cup {INVALID_UID}
  <2>1. NextAdmin(u) \in Users \cup {INVALID_UID}
    <3> DEFINE others == {p \in Places : uuid[p] # u}
    <3>1. CASE others = {}
      BY <3>1 DEF NextAdmin
    <3>2. CASE others # {}
      <4>1. \E p \in others : \A q \in others : p <= q
        <5>1. others \subseteq 0..4
          BY TarotAssumption DEF Places
        <5> HIDE DEF others
        <5>2. CASE 0 \in others  BY <5>1, <5>2
        <5>3. CASE 0 \notin others /\ 1 \in others  BY <5>1, <5>3
        <5>4. CASE 0 \notin others /\ 1 \notin others /\ 2 \in others  BY <5>1, <5>4
        <5>5. CASE 0 \notin others /\ 1 \notin others /\ 2 \notin others /\ 3 \in others
          BY <5>1, <5>5
        <5>6. CASE \A p \in 0..3 : p \notin others
          <6>1. \A p \in others : p = 4
            BY <5>1, <5>6
          <6>2. QED  BY <3>2, <6>1
        <5>7. QED  BY <5>2, <5>3, <5>4, <5>5, <5>6
      <4>2. (CHOOSE p \in others : \A q \in others : p <= q) \in others
        BY <4>1
      <4>3. QED  BY <1>2, <3>2, <4>2 DEF NextAdmin
    <3>3. QED  BY <3>1, <3>2
  <2>2. QED  BY <1>2, <2>1 DEF RemovePlayer
<1>4. leaves' \in 0..MaxLeaves
  <2>1. leaves \in 0..MaxLeaves
    BY DEF Inv, TypeOK
  <2>2. QED  BY <1>1, <2>1, TableAssumption
<1>5. TypeOK'
  BY <1>1, <1>2, <1>3, <1>4 DEF Inv, TypeOK
<1>6. AckInv'
  BY <1>1, <1>2 DEF Inv, TableInv, AckInv
<1>7. \E p \in Places : ack' = [ack EXCEPT ![p] = FALSE]
  <2>1. PICK p \in Places : uuid[p] = u
    BY DEF RemovePlayer, Seated
  <2>2. u # INVALID_UID
    BY TableAssumption
  <2>3. \A q \in Places : uuid[q] = u => q = p
    BY <2>1, <2>2 DEF Inv, TableInv, AckInv
  <2>4. ack' = [ack EXCEPT ![p] = FALSE]
    BY <1>1, <1>2, <2>1, <2>3
  <2>5. QED  BY <2>4
<1>8. QED
  BY <1>1, <1>5, <1>6, <1>7 DEF Inv, TableInv, ScoreInv

-----------------------------------------------------------------------------
(* The invariant. *)

\* A new table satisfies the invariant.
LEMMA InitInv == Init => Inv
<1> SUFFICES ASSUME Init PROVE Inv
  OBVIOUS
<1>1. PICK d \in Places : engine = EngineCreateTable(d)
  BY DEF Init
<1>2. engine \in Engines /\ EngineInv(engine) /\ engine.seq = "PLAYERS"
  BY <1>1, CreateTableCorrect
<1>0. score \in GameScores /\ score \in Scores
  BY NewGameScore, ScoreFields DEF Init
<1>3. TypeOK
  BY <1>0, <1>2, TableAssumption DEF Init, TypeOK, NoAck
<1>4. AckInv
  BY PlacesFacts DEF Init, AckInv, NoAck
<1>5. ScoreInv
  BY <1>2 DEF ScoreInv, DealSteps, BidSteps, PlaySteps
<1>6. QED
  BY <1>0, <1>2, <1>3, <1>4, <1>5 DEF Inv, TableInv

\* A step of the game that resets the acknowledgements keeps the invariant.
LEMMA StepTakenInv ==
  ASSUME Inv, StepTaken, ack' = NoAck, UNCHANGED <<uuid, admin, leaves>>
  PROVE  Inv'
<1>1. TypeOK'
  BY ScoreFields DEF Inv, TypeOK, StepTaken, NoAck
<1>2. AckInv'
  BY PlacesFacts DEF Inv, TableInv, AckInv, NoAck
<1>3. ScoreInv'
  BY DEF StepTaken, ScoreInv
<1>4. QED
  BY <1>1, <1>2, <1>3 DEF StepTaken, Inv, TableInv

\* An answer keeps the invariant, and nobody has acknowledged before or after.
LEMMA AnswerInv ==
  ASSUME Inv, AnswerTaken
  PROVE  Inv' /\ ack = NoAck /\ ack' = NoAck
<1>1. ack = NoAck
  BY DEF AnswerTaken, Inv, TypeOK, TableInv, AckInv, NoAck
<1>2. ack' = NoAck
  BY <1>1 DEF AnswerTaken
<1>3. QED
  BY <1>1, <1>2, StepTakenInv DEF AnswerTaken

\* "Ack", on time or late, keeps the invariant.
LEMMA AckStep ==
  ASSUME Inv, NEW u \in Users, SomeAck(u)
  PROVE  Inv'
<1>1. PICK step \in AckSteps : Ack(u, step)
  BY DEF SomeAck
<1>2. UNCHANGED <<uuid, admin, leaves>>
  BY <1>1 DEF Ack
<1>3. PICK p \in Places :
           \/ /\ engine.seq = step
              /\ \A q \in Places : q # p => ack[q]
              /\ ack' = NoAck
              /\ StepTaken
           \/ /\ engine.seq = step
              /\ ack' = [ack EXCEPT ![p] = TRUE]
              /\ \E q \in Places : ~ack'[q]
              /\ UNCHANGED <<engine, score, nbDeals, dealt>>
           \/ /\ engine.seq # step
              /\ ack' = ack
              /\ UNCHANGED <<engine, score, nbDeals, dealt>>
  BY <1>1, AckCases
<1>4. CASE ack' = NoAck /\ StepTaken
  BY <1>2, <1>4, StepTakenInv
<1>5. CASE /\ engine.seq = step
           /\ ack' = [ack EXCEPT ![p] = TRUE]
           /\ \E q \in Places : ~ack'[q]
           /\ UNCHANGED <<engine, score, nbDeals, dealt>>
  <2>1. TypeOK'
    BY <1>2, <1>5 DEF Inv, TypeOK
  <2>2. AckInv'
    BY <1>2, <1>5 DEF Inv, TableInv, AckInv
  <2>3. QED  BY <1>5, <2>1, <2>2 DEF Inv, TableInv, ScoreInv
<1>6. CASE ack' = ack /\ UNCHANGED <<engine, score, nbDeals, dealt>>
  BY <1>2, <1>6 DEF Inv, TypeOK, TableInv, AckInv, ScoreInv
<1>7. QED
  BY <1>3, <1>4, <1>5, <1>6

\* Every request keeps the invariant.
LEMMA NextInv == Inv /\ [Next]_vars => Inv'
<1> SUFFICES ASSUME Inv, [Next]_vars PROVE Inv'
  OBVIOUS
<1>1. CASE UNCHANGED vars
  BY <1>1 DEF vars, Inv, TypeOK, TableInv, AckInv, ScoreInv
<1>2. ASSUME NEW u \in Users, SomeAck(u) PROVE Inv'
  BY <1>2, AckStep
<1>3. ASSUME NEW u \in Users, SomeNewGame(u) PROVE Inv'
  BY <1>3, RequestNewGameStep
<1>4. ASSUME NEW u \in Users, SomeBid(u) PROVE Inv'
  BY <1>4, ReplyBidStep, AnswerInv
<1>5. ASSUME NEW u \in Users, SomeDiscard(u) PROVE Inv'
  BY <1>5, DiscardStep, AnswerInv
<1>6. ASSUME NEW u \in Users, SomeKingCall(u) PROVE Inv'
  BY <1>6, KingCallStep, AnswerInv
<1>7. ASSUME NEW u \in Users, SomeHandle(u) PROVE Inv'
  BY <1>7, HandleStep, AnswerInv
<1>8. ASSUME NEW u \in Users, SomeCard(u) PROVE Inv'
  BY <1>8, PlayCardStep, AnswerInv
<1>9. ASSUME NEW u \in Users, AddPlayer(u) PROVE Inv'
  BY <1>9, AddPlayerStep
<1>10. ASSUME NEW u \in Users, RemovePlayer(u) PROVE Inv'
  BY <1>10, RemovePlayerStep
<1>11. QED
  BY <1>1, <1>2, <1>3, <1>4, <1>5, <1>6, <1>7, <1>8, <1>9, <1>10 DEF Next

\* The inductive invariant holds in every game: types, and the consistency of
\* the engine, the acknowledgements and the score.
THEOREM InvCorrect == Spec => []Inv
<1>1. Init => Inv
  BY InitInv
<1>2. Inv /\ [Next]_vars => Inv'
  BY NextInv
<1>3. QED
  BY <1>1, <1>2, PTL DEF Spec

\* Every variable of the table and of its engine keeps its type, whatever the
\* players, late clients and the administrator do: no place, position or
\* counter leaves its range.
THEOREM TypeCorrect == Spec => []TypeOK
<1>1. Inv => TypeOK
  BY DEF Inv
<1>2. QED
  BY <1>1, InvCorrect, PTL

\* The invariant of the table holds in every game: it relates the step of the
\* engine to the bids, the trick on the table, the acknowledgements and the
\* score.
THEOREM TableInvCorrect == Spec => []TableInv
<1>1. Inv => TableInv
  BY DEF Inv
<1>2. QED
  BY <1>1, InvCorrect, PTL

\* Once the bids are over there is a taker with a real contract, and a partner
\* exactly in a game of five, in every game.
THEOREM TakerCorrect == Spec => []TakerKnown
<1>1. Inv => TakerKnown
  BY DEF Inv, TableInv, EngineInv, TakerInv, HasTaker, TakerKnown, ctx
<1>2. QED
  BY <1>1, InvCorrect, PTL

\* NewDeal and StartDeal never index mGame.deals outside the game, whatever
\* games the administrator requests in the middle of others.
THEOREM DealInGameCorrect == Spec => []DealInGame
<1>1. Inv => DealInGame
  BY DEF Inv, TableInv, ScoreInv, DealInGame, DealSteps, BidSteps, PlaySteps
<1>2. QED
  BY <1>1, InvCorrect, PTL

\* Score::AddPoints keeps the scores of every deal of every game in balance: what
\* the players of a deal win and lose sums to zero, for 3, 4 and 5 players, with
\* or without a partner, whatever the contract, the bonuses and the rounding of
\* the taker's part.
THEOREM ZeroSumCorrect == Spec => []ZeroSum
<1>1. Inv => ZeroSum
  BY DEF Inv, GameScores, ZeroSum
<1>2. QED
  BY <1>1, InvCorrect, PTL

-----------------------------------------------------------------------------
(* The table implements the step barrier. *)

\* A new table is an initial state of the barrier.
LEMMA BarrierInitCorrect == Init => Barrier!BarrierInit
<1> SUFFICES ASSUME Init PROVE Barrier!BarrierInit
  OBVIOUS
<1>1. engine.seq = "PLAYERS"
  BY CreateTableCorrect DEF Init
<1>2. {p \in Places : ack[p]} = {}
  BY DEF Init, NoAck
<1>3. QED
  BY <1>1, <1>2 DEF Barrier!BarrierInit

\* Each request is a step of the barrier or leaves it alone: an acknowledgement
\* is recorded or opens the barrier, an answer moves a step that nobody
\* acknowledges, a leaver withdraws, a new game restarts.
LEMMA BarrierStep == Inv /\ [Next]_vars => [Barrier!BarrierNext]_(Barrier!barrierVars)
<1> DEFINE acked  == {p \in Places : ack[p]}
           ackedN == {p \in Places : ack'[p]}
<1> SUFFICES ASSUME Inv, [Next]_vars
             PROVE  \/ Barrier!BarrierNext
                    \/ engine'.seq = engine.seq /\ ackedN = acked
  BY DEF Barrier!barrierVars
<1>1. ack \in [Places -> BOOLEAN] /\ engine.seq \in Steps
  BY DEF Inv, TypeOK, Engines
<1>2. CASE UNCHANGED vars
  BY <1>2 DEF vars
<1>3. ASSUME NEW u \in Users, SomeAck(u)
      PROVE  Barrier!BarrierNext \/ (engine'.seq = engine.seq /\ ackedN = acked)
  <2>1. PICK st \in AckSteps : Ack(u, st)
    BY <1>3 DEF SomeAck
  <2>2. PICK p \in Places :
           \/ /\ engine.seq = st
              /\ \A q \in Places : q # p => ack[q]
              /\ ack' = NoAck
              /\ StepTaken
           \/ /\ engine.seq = st
              /\ ack' = [ack EXCEPT ![p] = TRUE]
              /\ \E q \in Places : ~ack'[q]
              /\ UNCHANGED <<engine, score, nbDeals, dealt>>
           \/ /\ engine.seq # st
              /\ ack' = ack
              /\ UNCHANGED <<engine, score, nbDeals, dealt>>
    BY <2>1, AckCases
  <2>3. CASE /\ engine.seq = st
             /\ \A q \in Places : q # p => ack[q]
             /\ ack' = NoAck
             /\ StepTaken
    <3>1. acked \cup {p} = Places /\ ackedN = {}
      BY <2>3 DEF NoAck
    <3>2. Barrier!PassBarrier(p)
      BY <2>1, <2>3, <3>1 DEF Barrier!PassBarrier, StepTaken
    <3>3. QED  BY <3>2 DEF Barrier!BarrierNext
  <2>4. CASE /\ engine.seq = st
             /\ ack' = [ack EXCEPT ![p] = TRUE]
             /\ \E q \in Places : ~ack'[q]
             /\ UNCHANGED <<engine, score, nbDeals, dealt>>
    <3>1. ackedN = acked \cup {p} /\ ackedN # Places
      BY <1>1, <2>4
    <3>2. Barrier!Acknowledge(p)
      BY <2>1, <2>4, <3>1 DEF Barrier!Acknowledge
    <3>3. QED  BY <3>2 DEF Barrier!BarrierNext
  <2>5. CASE ack' = ack /\ UNCHANGED engine
    BY <2>5
  <2>6. QED  BY <2>2, <2>3, <2>4, <2>5
<1>4. ASSUME AnswerTaken PROVE Barrier!BarrierNext
  <2>1. ack = NoAck /\ ack' = NoAck
    BY <1>4, AnswerInv
  <2>2. acked = {} /\ ackedN = {}
    BY <2>1 DEF NoAck
  <2>3. Barrier!Answer
    BY <1>4, <2>2 DEF Barrier!Answer, AnswerTaken, StepTaken
  <2>4. QED  BY <2>3 DEF Barrier!BarrierNext
<1>5. ASSUME NEW u \in Users, SomeNewGame(u) PROVE Barrier!BarrierNext
  <2>1. engine'.seq = "READY" /\ ack' = NoAck
    BY <1>5, RequestNewGameStep
  <2>2. ackedN = {}
    BY <2>1 DEF NoAck
  <2>3. Barrier!Restart
    BY <2>1, <2>2 DEF Barrier!Restart
  <2>4. QED  BY <2>3 DEF Barrier!BarrierNext
<1>6. ASSUME NEW u \in Users, AddPlayer(u)
      PROVE  engine'.seq = engine.seq /\ ackedN = acked
  BY <1>6, AddPlayerStep
<1>7. ASSUME NEW u \in Users, RemovePlayer(u) PROVE Barrier!BarrierNext
  <2>1. engine' = engine
    BY <1>7, RemovePlayerStep
  <2>2. PICK p \in Places : ack' = [ack EXCEPT ![p] = FALSE]
    BY <1>7, RemovePlayerStep
  <2>3. ackedN = acked \ {p}
    BY <1>1, <2>2
  <2>4. Barrier!Withdraw(p)
    BY <2>1, <2>3 DEF Barrier!Withdraw
  <2>5. QED  BY <2>4 DEF Barrier!BarrierNext
<1>8. ASSUME NEW u \in Users,
             SomeBid(u) \/ SomeDiscard(u) \/ SomeKingCall(u) \/ SomeHandle(u) \/ SomeCard(u)
      PROVE  AnswerTaken
  BY <1>8, ReplyBidStep, DiscardStep, KingCallStep, HandleStep, PlayCardStep
<1>9. QED
  BY <1>2, <1>3, <1>4, <1>5, <1>6, <1>7, <1>8 DEF Next

\* The table implements the abstract barrier: steps in the order of the game,
\* and an acknowledged step is left only when every seat has acknowledged that
\* very step, whatever late acknowledgements arrive and whoever leaves.
THEOREM BarrierCorrect == Spec => ImplementsBarrier
<1>1. Init => Barrier!BarrierInit
  BY BarrierInitCorrect
<1>2. Inv /\ [Next]_vars => [Barrier!BarrierNext]_(Barrier!barrierVars)
  BY BarrierStep
<1>3. QED
  BY <1>1, <1>2, InvCorrect, PTL DEF Spec, ImplementsBarrier, Barrier!BarrierSpec
=============================================================================
