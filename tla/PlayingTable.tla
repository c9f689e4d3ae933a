---------------------------- MODULE PlayingTable ----------------------------
(***************************************************************************)
(* PlayingTable.cpp: one table.  It seats the players, drives the engine   *)
(* from their requests, and waits for the acknowledgement of every seat    *)
(* before each step.  ExecuteRequest is one action per command; the Lobby  *)
(* holds its mutex around each of them, so each request is atomic.         *)
(*                                                                         *)
(* A request that the code only logs (wrong player, wrong sequence,        *)
(* invalid card) changes nothing and is not an action.                     *)
(***************************************************************************)
EXTENDS Engine, Score

CONSTANTS
  Users,         \* uuids of the users that the lobby may seat at this table
  INVALID_UID,   \* Protocol::INVALID_UID
  AdminMode,     \* mAdminMode: the administrator starts the games
  Deals,         \* the distributions that Engine::CreateDeal may obtain
  LateSteps,     \* steps that a client may still acknowledge when they are over
  BidChoices,    \* bids the clients send: [contract, slam]
  KingCalls,     \* cards the clients call; a deal may lack the card
  Discards,      \* discards the clients send
  Handles,       \* handles the clients send
  MaxDeals,      \* bound: deals in a game
  MaxDealt,      \* bound: deals dealt at the table, over all games
  MaxLeaves      \* bound: players who leave the table

\* gAckList of Network.cpp: the steps a client can acknowledge.  The name of
\* any other step is sent as "BadSeq" and ignored.
AckSteps ==
  {"PLAYERS", "READY", "CARDS", "SHOW_BID", "ALL_PASSED", "SHOW_KING_CALL", "SHOW_DOG",
   "START_DEAL", "SHOW_HANDLE", "SHOW_CARD", "END_OF_TRICK", "END_OF_DEAL"}

ASSUME TableAssumption ==
  /\ INVALID_UID \notin Users
  /\ AdminMode \in BOOLEAN
  /\ Deals \subseteq Distributions
  /\ \A d \in Deals : IsDeal(d)
  /\ LateSteps \subseteq AckSteps
  /\ BidChoices \subseteq [contract : PASS..GUARD_AGAINST, slam : BOOLEAN]
  /\ KingCalls \subseteq AllCards
  /\ Discards \subseteq Seq(Cards)
  /\ Handles \subseteq Seq(Cards)
  /\ MaxDeals \in Nat \ {0}
  /\ MaxDealt \in Nat
  /\ MaxLeaves \in Nat

VARIABLES
  engine,   \* mEngine
  uuid,     \* mPlayers[i].uuid
  ack,      \* mPlayers[i].ack
  admin,    \* mAdmin
  score,    \* mScore: dealCounter, mNumberOfTurns, scores
  nbDeals,  \* mGame.deals.size()
  sent,     \* the replies of the last request
  dealt,    \* deals dealt so far, for the bound MaxDealt
  leaves    \* players who have left so far, for the bound MaxLeaves

vars  == <<engine, uuid, ack, admin, score, nbDeals, sent, dealt, leaves>>

\* PlayingTable::GetPlayerPlace, for a user who is seated.
Seated(u)  == \E p \in Places : uuid[p] = u
PlaceOf(u) == CHOOSE p \in Places : uuid[p] = u

\* PlayingTable::ResetAck.
NoAck == [p \in Places |-> FALSE]

-----------------------------------------------------------------------------
(* Replies. *)

Reply(to, cmd, arg) == [to |-> to, cmd |-> cmd, arg |-> arg]

\* PlayingTable::SendToAllPlayers.
SendToAllPlayers(cmd, arg) ==
  Reply({uuid[p] : p \in Places} \ {INVALID_UID}, cmd, arg)

\* PlayingTable::NewDeal sends each seat its own cards, even an empty seat.
SendCards(e) == [i \in 1..NbPlayers |-> Reply({uuid[i - 1]}, "NewDeal", e.hands[i - 1])]

-----------------------------------------------------------------------------
(* The steps of a game, with the replies that announce them. *)

\* PlayingTable::NewGame, for a game of n deals.
NewGame(n) ==
  /\ score' = ScoreNewGame(n)
  /\ engine' = EngineNewGame(engine)
  /\ sent' = <<SendToAllPlayers("NewGame", n)>>
  /\ UNCHANGED dealt

\* Faulty variant of NewDeal: a game that is over is not started again.
NewDealNoRollover(sc) ==
  /\ dealt < MaxDealt
  /\ dealt' = dealt + 1
  /\ score' = sc
  /\ \E d \in Deals :
       /\ engine' = EngineNewDeal(engine, d)
       /\ sent' = SendCards(engine')
  /\ UNCHANGED nbDeals

\* PlayingTable::NewDeal.  A game that is over starts again.
NewDeal(sc) ==
  /\ dealt < MaxDealt
  /\ dealt' = dealt + 1
  /\ score' = IF sc.counter >= nbDeals THEN ScoreNewGame(nbDeals) ELSE sc
  /\ \E d \in Deals :
       /\ engine' = EngineNewDeal(engine, d)
       /\ sent' = SendCards(engine')
  /\ UNCHANGED nbDeals

\* PlayingTable::StartDeal.
SendStartDeal(e) == SendToAllPlayers("StartDeal", <<e.currentPlayer, e.ctx.bid>>)

\* PlayingTable::SendNextBidSequence: the engine it leaves, and the reply.
AfterBids(e) == IF e.seq = "START_DEAL" THEN EngineStartDeal(e) ELSE e

SendNextBidSequence(e) ==
  CASE e.seq = "BID"        -> SendToAllPlayers("RequestBid", <<e.currentPlayer, e.ctx.bid.contract>>)
    [] e.seq = "KING_CALL"  -> SendToAllPlayers("RequestKingCall", << >>)
    [] e.seq = "ALL_PASSED" -> SendToAllPlayers("AllPassed", << >>)
    [] e.seq = "START_DEAL" -> SendStartDeal(e)
    [] e.seq = "SHOW_DOG"   -> SendToAllPlayers("ShowDog", e.ctx.dog)

NextBidSequence(e) ==
  /\ engine' = AfterBids(e)
  /\ sent' = <<SendNextBidSequence(engine')>>
  /\ UNCHANGED <<score, nbDeals, dealt>>

\* PlayingTable::GameSequence.  The points sent at the end of a deal are read
\* before Engine::EndOfDeal computes them.
GameSequence ==
  \E e \in {EngineGameSequence(engine)} :
      /\ engine' = IF IsLastTrick(e) THEN EngineEndOfDeal(e) ELSE e
      /\ sent' = << IF IsLastTrick(e) THEN SendToAllPlayers("EndOfDeal", e.points)
                    ELSE CASE e.seq = "END_OF_TRICK" -> SendToAllPlayers("EndOfTrick", e.currentPlayer)
                           [] e.seq = "PLAYED_CARD"  -> SendToAllPlayers("PlayCard", e.currentPlayer)
                           [] e.seq = "HANDLE"       -> Reply({uuid[e.currentPlayer]}, "AskForHandle", << >>) >>
      /\ UNCHANGED <<score, nbDeals, dealt>>

\* PlayingTable::EndOfDeal.
EndOfDeal ==
  LET sc == AddPoints(score, engine.points, engine.ctx.bid)
  IN  IF sc.counter < sc.turns
      THEN NewDeal(sc)
      ELSE /\ engine' = EngineNewGame(engine)
           /\ score' = sc
           /\ sent' = <<SendToAllPlayers("EndOfGame", GetWinner(sc))>>
           /\ UNCHANGED <<nbDeals, dealt>>

\* The switch of ExecuteRequest on the acknowledged step, when every seat has
\* acknowledged.
AllSynced(step) ==
  \/ /\ step = "PLAYERS"
     /\ IF AdminMode
        THEN sent' = << >> /\ UNCHANGED <<engine, score, nbDeals, dealt>>
        ELSE NewGame(nbDeals) /\ UNCHANGED nbDeals
  \/ step \in {"READY", "ALL_PASSED"} /\ NewDeal(score)
  \/ step \in {"CARDS", "SHOW_BID"} /\ NextBidSequence(BidSequence(engine))
  \/ step = "SHOW_KING_CALL" /\ NextBidSequence(ManageAfterBidSequence(engine))
  \/ /\ step = "SHOW_DOG"
     /\ engine' = DiscardSequence(engine)
     /\ sent' = <<Reply({uuid[engine.ctx.bid.taker]}, "BuildDiscard", << >>)>>
     /\ UNCHANGED <<score, nbDeals, dealt>>
  \/ step \in {"START_DEAL", "SHOW_HANDLE", "SHOW_CARD", "END_OF_TRICK"} /\ GameSequence
  \/ step = "END_OF_DEAL" /\ EndOfDeal

-----------------------------------------------------------------------------
(* Requests of the players, PlayingTable::ExecuteRequest. *)

\* Faulty variant of Sync: the step that is acknowledged is not compared.
SyncAnyStep(u, step) == [p \in Places |-> ack[p] \/ uuid[p] = u]

\* PlayingTable::Sync: the acknowledgements once user u has acknowledged step.
\* A step that is not the current one is not recorded.
Sync(u, step) ==
  [p \in Places |-> ack[p] \/ (uuid[p] = u /\ engine.seq = step)]

\* "Ack".  When every seat has acknowledged, the table goes on with the step
\* that the client named.
Ack(u, step) ==
  /\ Seated(u)
  /\ LET synced == Sync(u, step)
     IN  \/ /\ \A p \in Places : synced[p]
            /\ ack' = NoAck
            /\ AllSynced(step)
         \/ /\ ~ \A p \in Places : synced[p]
            /\ ack' = synced
            /\ sent' = << >>
            /\ UNCHANGED <<engine, score, nbDeals, dealt>>
  /\ UNCHANGED <<uuid, admin, leaves>>

\* "RequestNewGame": the administrator starts a game of n deals, at any time.
RequestNewGame(u, n) ==
  /\ u = admin
  /\ nbDeals' = n
  /\ NewGame(n)
  /\ ack' = NoAck
  /\ UNCHANGED <<uuid, admin, leaves>>

\* A request of the player the table waits for at this step.
Answers(u, step, p) == Seated(u) /\ PlaceOf(u) = p /\ engine.seq = step

Answered == UNCHANGED <<uuid, ack, admin, score, nbDeals, dealt, leaves>>

\* "ReplyBid".
ReplyBid(u, c, slam) ==
  /\ Answers(u, "BID", engine.currentPlayer)
  /\ engine' = EngineSetBid(engine, c, slam, engine.currentPlayer)
  /\ sent' = <<SendToAllPlayers("ShowBid",
                <<engine.currentPlayer, AnnouncedContract(engine.ctx, c), slam, engine'.ctx.bid>>)>>
  /\ Answered

\* "Discard".
Discard(u, discard) ==
  /\ Answers(u, "DISCARD", engine.ctx.bid.taker)
  /\ TestDiscard(engine.hands[engine.ctx.bid.taker], discard, engine.ctx.dog)
  /\ engine' = EngineStartDeal(SetDiscard(engine, discard))
  /\ sent' = <<SendStartDeal(engine')>>
  /\ Answered

\* "ReplyKingCall".  ShowKingCall also resets the acknowledgements.
ReplyKingCall(u, c) ==
  /\ Answers(u, "KING_CALL", engine.ctx.bid.taker)
  /\ CheckKingCall(engine.hands[engine.ctx.bid.taker], c)
  /\ engine' = SetKingCalled(engine, c)
  /\ IF KingFound(engine, c)
     THEN ack' = NoAck /\ sent' = <<SendToAllPlayers("ShowKingCall", c)>>
     ELSE UNCHANGED ack /\ sent' = << >>
  /\ UNCHANGED <<uuid, admin, score, nbDeals, dealt, leaves>>

\* "Handle" with a handle that is accepted.
ShowHandle(u, handle) ==
  /\ Answers(u, "HANDLE", engine.currentPlayer)
  /\ TestHandle(engine.hands[engine.currentPlayer], handle)
  /\ engine' = EngineSetHandle(engine, handle, engine.currentPlayer)
  /\ sent' = <<SendToAllPlayers("ShowHandle", <<engine.currentPlayer, handle>>)>>
  /\ Answered

\* "Handle" with no handle, or one that is refused: the player plays on.
NoHandle(u) ==
  /\ Answers(u, "HANDLE", engine.currentPlayer)
  /\ GameSequence
  /\ UNCHANGED <<uuid, ack, admin, leaves>>

\* "Card".
PlayCard(u, c) ==
  /\ Answers(u, "PLAYED_CARD", engine.currentPlayer)
  /\ CanPlayCard(engine.hands[engine.currentPlayer], c, engine.trick) = TRUE
  /\ engine' = SetCard(engine, c, engine.currentPlayer)
  /\ sent' = <<SendToAllPlayers("ShowCard", <<engine.currentPlayer, c>>)>>
  /\ Answered

-----------------------------------------------------------------------------
(* Requests of the lobby. *)

\* PlayingTable::AddPlayer: the first free seat; the first player of a table
\* without an administrator becomes the administrator.
FreeSeats == {p \in Places : uuid[p] = INVALID_UID}

AddPlayer(u) ==
  /\ ~Seated(u)
  /\ \E p \in FreeSeats :
       /\ \A q \in FreeSeats : p <= q
       /\ uuid' = [uuid EXCEPT ![p] = u]
  /\ admin' = IF admin = INVALID_UID THEN u ELSE admin
  /\ sent' = << >>
  /\ UNCHANGED <<engine, ack, score, nbDeals, dealt, leaves>>

\* PlayingTable::RemovePlayer.  The next administrator is the occupant of the
\* first other seat, even if that seat is free.  The engine is not told.
NextAdmin(u) ==
  LET others == {p \in Places : uuid[p] # u}
  IN  IF others = {} THEN INVALID_UID
      ELSE uuid[CHOOSE p \in others : \A q \in others : p <= q]

RemovePlayer(u) ==
  /\ leaves < MaxLeaves
  /\ Seated(u)
  /\ admin' = IF u = admin THEN NextAdmin(u) ELSE admin
  /\ uuid' = [p \in Places |-> IF uuid[p] = u THEN INVALID_UID ELSE uuid[p]]
  /\ ack' = [p \in Places |-> ack[p] /\ uuid[p] # u]
  /\ sent' = << >>
  /\ leaves' = leaves + 1
  /\ UNCHANGED <<engine, score, nbDeals, dealt>>

-----------------------------------------------------------------------------
\* PlayingTable::CreateTable, called by Lobby::CreateTable.
Init ==
  /\ \E dealer \in Places : engine = EngineCreateTable(dealer)
  /\ uuid = [p \in Places |-> INVALID_UID]
  /\ ack = NoAck
  /\ admin = INVALID_UID
  /\ nbDeals \in 1..MaxDeals
  /\ score = ScoreNewGame(5)      \* DEFAULT_NUMBER_OF_TURNS
  /\ sent = << >>
  /\ dealt = 0
  /\ leaves = 0

\* A client acknowledges what it has been shown, perhaps late.
SomeAck(u)      == \E step \in AckSteps \cap (LateSteps \cup {engine.seq}) : Ack(u, step)
SomeNewGame(u)  == \E n \in 1..MaxDeals : RequestNewGame(u, n)
SomeBid(u)      == \E b \in BidChoices : ReplyBid(u, b.contract, b.slam)
SomeDiscard(u)  == \E d \in Discards : Discard(u, d)
SomeKingCall(u) == \E c \in KingCalls : ReplyKingCall(u, c)
SomeHandle(u)   == NoHandle(u) \/ \E h \in Handles : ShowHandle(u, h)
SomeCard(u)     == \E c \in Cards : PlayCard(u, c)

Next ==
  \E u \in Users :
    \/ SomeAck(u)
    \/ SomeNewGame(u)
    \/ SomeBid(u)
    \/ SomeDiscard(u)
    \/ SomeKingCall(u)
    \/ SomeHandle(u)
    \/ SomeCard(u)
    \/ AddPlayer(u)
    \/ RemovePlayer(u)

Spec == Init /\ [][Next]_vars

-----------------------------------------------------------------------------
(* The order of the steps, and the barrier that the table implements. *)

\* Which step may come after which, read off Engine.cpp and PlayingTable.cpp.
StepGraph ==
  [ s \in Steps |->
      CASE s = "PLAYERS"        -> IF AdminMode THEN {"PLAYERS"} ELSE {"READY"}
        [] s = "READY"          -> {"CARDS"}
        [] s = "CARDS"          -> {"BID"}
        [] s = "BID"            -> {"SHOW_BID"}
        [] s = "SHOW_BID"       -> {"BID", "ALL_PASSED"} \cup
                                   IF NbPlayers = 5 THEN {"KING_CALL"}
                                                    ELSE {"SHOW_DOG", "START_DEAL"}
        [] s = "ALL_PASSED"     -> {"CARDS"}
        [] s = "KING_CALL"      -> {"SHOW_KING_CALL"}
        [] s = "SHOW_KING_CALL" -> {"SHOW_DOG", "START_DEAL"}
        [] s = "SHOW_DOG"       -> {"DISCARD"}
        [] s = "DISCARD"        -> {"START_DEAL"}
        [] s = "START_DEAL"     -> {"HANDLE"}
        [] s = "HANDLE"         -> {"SHOW_HANDLE", "PLAYED_CARD"}
        [] s = "SHOW_HANDLE"    -> {"PLAYED_CARD"}
        [] s = "PLAYED_CARD"    -> {"SHOW_CARD"}
        [] s = "SHOW_CARD"      -> {"HANDLE", "PLAYED_CARD", "END_OF_TRICK", "END_OF_DEAL"}
        [] s = "END_OF_TRICK"   -> {"PLAYED_CARD"}
        [] s = "END_OF_DEAL"    -> {"CARDS", "READY"} ]

Barrier == INSTANCE StepBarrier
  WITH Seats <- Places, Follows <- StepGraph, Barriers <- AckSteps,
       step <- engine.seq, acked <- {p \in Places : ack[p]}

\* Every behaviour of the table is one of the abstract barrier: each step
\* follows the game's order, and an acknowledged step is left only when every
\* seat has acknowledged that step, or the administrator starts a new game.
\* ExecuteRequest goes on with the step that the last client NAMED, so this
\* also says that this step is always the one the engine is in.
ImplementsBarrier == Barrier!BarrierSpec
=============================================================================
