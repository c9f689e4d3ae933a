------------------------------ MODULE Clients ------------------------------
(***************************************************************************)
(* A table whose seats are taken by the bots of the repository.  Bot.cpp   *)
(* reacts to one message at a time; what it remembers of the table is its  *)
(* PlayerContext.  Messages travel in both directions over connections     *)
(* that keep their order, each at its own pace, so a bot may answer from   *)
(* what it knew several messages ago.                                      *)
(*                                                                         *)
(* The bot's script decides freely what it would bid and discard; the      *)
(* order of the cards in a hand, from which the first valid card is taken, *)
(* is left open too.  A connection also carries what the lobby tells all   *)
(* users and what people chat, which a bot reads and ignores.  Left out    *)
(* are the fields that only a display reads (mMode, mSits, the taker,      *)
(* mCurrentBid) and what an event or a chat message says.                  *)
(***************************************************************************)
EXTENDS PlayingTable, SequencesExt

CONSTANTS
  ClientDogCards,  \* Tarot::NumberOfDogCards(4): the mNbPlayers of a client stays 4
  ChatTargets,     \* whom a chat message may be for: one user or all who are connected
  MaxNews          \* bound: events and chat of the other users of the lobby

\* One bot for each seat.  The bids and discards that the clients send include
\* a wish that was lowered to a pass and every choice of as many cards as the
\* dog has.  The dog of 3 and of 4 players has the same size, that of 5 not.
ASSUME ClientsAssumption ==
  /\ IsFiniteSet(Users) /\ Cardinality(Users) = NbPlayers
  /\ \A wish \in BidChoices : [wish EXCEPT !.contract = PASS] \in BidChoices
  /\ \A d \in SUBSET Cards : Cardinality(d) = NumberOfDogCards => SetToSeq(d) \in Discards
  /\ ClientDogCards \in Nat
  /\ ChatTargets \subseteq {Users} \cup {{u} : u \in Users}
  /\ MaxNews \in Nat
  /\ NbPlayers # 5 => ClientDogCards = NumberOfDogCards

VARIABLES
  bot,      \* what each bot knows: mCtx
  inbox,    \* messages on their way to each bot
  outbox,   \* requests on their way from each bot to the server
  listed,   \* the bots among the users that the lobby lists: mUsers
  news      \* events and chat of the other users so far

clientVars == <<vars, bot, inbox, outbox, listed, news>>

Bots ==
  [ connected     : BOOLEAN,           \* mMyself.IsConnected()
    place         : PlaceOrNowhere,    \* mMyself.place
    deck          : SUBSET Cards,      \* mDeck
    dog           : Seq(Cards),        \* mDog
    trick         : Seq(Cards),        \* mCurrentTrick
    currentPlayer : PlaceOrNowhere,    \* mCurrentPlayer
    bid           : Contracts ]        \* mBid.contract

NewBot ==
  [ connected |-> FALSE, place |-> NOWHERE, deck |-> {}, dog |-> << >>,
    trick |-> << >>, currentPlayer |-> NOWHERE, bid |-> NO_ANY ]

Message(cmd, arg) == [cmd |-> cmd, arg |-> arg]

\* The messages that no table sends and no bot answers.
Asides == {"LobbyEvent", "ChatMessage"}

-----------------------------------------------------------------------------
(* PlayerContext *)

\* Faulty variant of Decode: the end of a trick leaves the cards on the table.
DecodeKeepsTrick(b, m) ==
  CASE m.cmd = "ReplyJoinTable" -> [b EXCEPT !.place = m.arg[1], !.deck = m.arg[2]]
    [] m.cmd = "NewDeal"        -> [b EXCEPT !.deck = m.arg]
    [] m.cmd = "RequestBid"     -> [b EXCEPT !.currentPlayer = m.arg[1]]
    [] m.cmd = "ShowBid"        -> [b EXCEPT !.bid = m.arg[4].contract]
    [] m.cmd = "ShowDog"        -> [b EXCEPT !.dog = m.arg]
    [] m.cmd = "StartDeal"      -> [b EXCEPT !.bid = m.arg[2].contract, !.trick = << >>]
    [] m.cmd = "ShowCard"       -> [b EXCEPT !.currentPlayer = m.arg[1],
                                             !.trick = Append(@, m.arg[2])]
    [] m.cmd \in {"PlayCard", "EndOfTrick", "EndOfGame"} -> [b EXCEPT !.currentPlayer = m.arg]
    [] OTHER                    -> b

\* What a message changes in the context: the Decode operations, and the trick
\* that the bot clears at the end of a trick.
Decode(b, m) ==
  CASE m.cmd = "ReplyJoinTable" -> [b EXCEPT !.place = m.arg[1], !.deck = m.arg[2]]
    [] m.cmd = "NewDeal"        -> [b EXCEPT !.deck = m.arg]
    [] m.cmd = "RequestBid"     -> [b EXCEPT !.currentPlayer = m.arg[1]]
    [] m.cmd = "ShowBid"        -> [b EXCEPT !.bid = m.arg[4].contract]
    [] m.cmd = "ShowDog"        -> [b EXCEPT !.dog = m.arg]
    [] m.cmd = "StartDeal"      -> [b EXCEPT !.bid = m.arg[2].contract, !.trick = << >>]
    [] m.cmd = "ShowCard"       -> [b EXCEPT !.currentPlayer = m.arg[1],
                                             !.trick = Append(@, m.arg[2])]
    [] m.cmd = "EndOfTrick"     -> [b EXCEPT !.currentPlayer = m.arg, !.trick = << >>]
    [] m.cmd \in {"PlayCard", "EndOfGame"} -> [b EXCEPT !.currentPlayer = m.arg]
    [] OTHER                    -> b

\* PlayerContext::IsMyTurn.
IsMyTurn(b) == b.currentPlayer = b.place

\* What is discarded is chosen among these cards, by the script or by
\* Deck::AutoDiscard, which stops short when there are too few.
Discardable(b) == {c \in b.deck \cup CardsOf(b.dog) : MayDiscard(c)}

BotDiscards(b) ==
  LET size == IF Cardinality(Discardable(b)) < ClientDogCards
              THEN Cardinality(Discardable(b)) ELSE ClientDogCards
  IN  {d \in SUBSET Discardable(b) : Cardinality(d) = size}

-----------------------------------------------------------------------------
(* Bot::HandleRequest *)

Received(u, cmd) == inbox[u] # << >> /\ Head(inbox[u]).cmd = cmd

\* The bot has handled the first message: it knows b and sends these requests.
Handled(u, b, requests) ==
  /\ inbox' = [inbox EXCEPT ![u] = Tail(@)]
  /\ bot' = [bot EXCEPT ![u] = b]
  /\ outbox' = [outbox EXCEPT ![u] = @ \o requests]
  /\ UNCHANGED <<vars, listed, news>>

BotLogin(u) ==
  /\ Received(u, "RequestLogin")
  /\ ~bot[u].connected
  /\ Handled(u, [bot[u] EXCEPT !.connected = TRUE], <<Message("ReplyLogin", << >>)>>)

BotEnter(u) ==
  /\ Received(u, "AccessGranted")
  /\ Handled(u, bot[u], <<Message("RequestJoinTable", << >>)>>)

\* The messages that a bot acknowledges, with the step that it names.
AckedStep ==
  [ ReplyJoinTable |-> "PLAYERS",    NewGame    |-> "READY",
    NewDeal        |-> "CARDS",      ShowBid    |-> "SHOW_BID",
    AllPassed      |-> "ALL_PASSED", ShowDog    |-> "SHOW_DOG",
    StartDeal      |-> "START_DEAL", ShowHandle |-> "SHOW_HANDLE",
    ShowCard       |-> "SHOW_CARD",  EndOfTrick |-> "END_OF_TRICK",
    EndOfDeal      |-> "END_OF_DEAL", EndOfGame |-> "READY",
    ShowKingCall   |-> "SHOW_KING_CALL", RequestKingCall |-> "BadSeq" ]

\* Faulty variant of BotAcks: the cards of a new game are not acknowledged.
BotAcksOnce(u) ==
  /\ \E cmd \in DOMAIN AckedStep \ {"EndOfGame"} : Received(u, cmd)
  /\ LET m == Head(inbox[u])
     IN  Handled(u, Decode(bot[u], m), <<Message("Ack", AckedStep[m.cmd])>>)

BotAcks(u) ==
  /\ \E cmd \in DOMAIN AckedStep : Received(u, cmd)
  /\ LET m == Head(inbox[u])
     IN  Handled(u, Decode(bot[u], m), <<Message("Ack", AckedStep[m.cmd])>>)

\* "RequestBid" or "PlayCard" for somebody else.
BotWaits(u) ==
  /\ Received(u, "RequestBid") \/ Received(u, "PlayCard")
  /\ LET b == Decode(bot[u], Head(inbox[u]))
     IN  ~IsMyTurn(b) /\ Handled(u, b, << >>)

\* "RequestBid", Bot::RequestBid: the script or CalculateBid wants a contract,
\* which becomes a pass when it is not above the highest bid the bot knows.
\* The slam is not withdrawn with it.
BotBids(u) ==
  /\ Received(u, "RequestBid")
  /\ LET b == Decode(bot[u], Head(inbox[u]))
     IN  /\ IsMyTurn(b)
         /\ \E wish \in BidChoices :
              LET contract == IF wish.contract <= b.bid THEN PASS ELSE wish.contract
              IN  Handled(u, b, <<Message("ReplyBid", <<contract, wish.slam>>)>>)

\* Faulty variant of BotDiscard: the dog does not go to the hand.
BotLeavesDog(u) ==
  /\ Received(u, "BuildDiscard")
  /\ \E d \in BotDiscards(bot[u]) :
       Handled(u, [bot[u] EXCEPT !.deck = @ \ d],
               <<Message("Discard", SetToSeq(d)), Message("Ack", "BadSeq")>>)

\* "BuildDiscard".  The step DISCARD has no name among the acknowledgements.
BotDiscard(u) ==
  /\ Received(u, "BuildDiscard")
  /\ \E d \in BotDiscards(bot[u]) :
       Handled(u, [bot[u] EXCEPT !.deck = (@ \cup CardsOf(bot[u].dog)) \ d],
               <<Message("Discard", SetToSeq(d)), Message("Ack", "BadSeq")>>)

\* "AskForHandle": an empty handle.
BotHandle(u) ==
  /\ Received(u, "AskForHandle")
  /\ Handled(u, bot[u], <<Message("Handle", << >>)>>)

\* Faulty variant of BotPlays: any card of the hand.
BotPlaysAny(u) ==
  /\ Received(u, "PlayCard")
  /\ LET b == Decode(bot[u], Head(inbox[u]))
     IN  /\ IsMyTurn(b)
         /\ \E c \in b.deck : Handled(u, [b EXCEPT !.deck = @ \ {c}], <<Message("Card", c)>>)

\* "PlayCard": a card that is valid for what the bot knows of its hand and of
\* the trick.
BotPlays(u) ==
  /\ Received(u, "PlayCard")
  /\ LET b == Decode(bot[u], Head(inbox[u]))
     IN  /\ IsMyTurn(b)
         /\ \E c \in b.deck :
              /\ CanPlayCard(b.deck, c, b.trick)
              /\ Handled(u, [b EXCEPT !.deck = @ \ {c}], <<Message("Card", c)>>)

\* "ChatMessage" or "LobbyEvent".
BotIgnores(u) ==
  /\ \E cmd \in Asides : Received(u, cmd)
  /\ Handled(u, bot[u], << >>)

BotReceives(u) ==
  \/ BotLogin(u) \/ BotEnter(u) \/ BotAcks(u) \/ BotWaits(u) \/ BotBids(u)
  \/ BotDiscard(u) \/ BotHandle(u) \/ BotPlays(u) \/ BotIgnores(u)

-----------------------------------------------------------------------------
(* The server: Lobby::Deliver, and PlayingTable::ExecuteRequest. *)

\* Lobby::Send: each user gets the replies that name him, in their order.
Letters(u, replies) == {i \in DOMAIN replies : u \in replies[i].to}

NthOf(S, k) == CHOOSE i \in S : Cardinality({j \in S : j <= i}) = k

Mail(u, replies) ==
  LET mine == Letters(u, replies)
  IN  [k \in 1..Cardinality(mine) |->
         Message(replies[NthOf(mine, k)].cmd, replies[NthOf(mine, k)].arg)]

Deliver(replies) == inbox' = [u \in Users |-> inbox[u] \o Mail(u, replies)]

\* PeerSession::ReadBody: the packet has been read and handled, the next one is
\* read only then.
Served(u) ==
  /\ outbox' = [outbox EXCEPT ![u] = Tail(@)]
  /\ UNCHANGED <<bot, news>>

\* The request is not an answer that the table waits for: it is only logged.
Refuses(u, m) ==
  CASE m.cmd = "ReplyBid" -> ~Answers(u, "BID", engine.currentPlayer)
    [] m.cmd = "Handle"   -> ~Answers(u, "HANDLE", engine.currentPlayer)
    [] m.cmd = "Discard"  -> ~ /\ Answers(u, "DISCARD", engine.ctx.bid.taker)
                               /\ TestDiscard(engine.hands[engine.ctx.bid.taker], m.arg,
                                              engine.ctx.dog)
    [] m.cmd = "Card"     -> ~ /\ Answers(u, "PLAYED_CARD", engine.currentPlayer)
                               /\ CanPlayCard(engine.hands[engine.currentPlayer], m.arg,
                                              engine.trick)
    [] OTHER              -> FALSE

\* Lobby::SendPlayerEvent: everybody on the list, the user himself included.
PlayerEvent(to) == Reply(to, "LobbyEvent", << >>)

LobbyLogin(u) ==
  /\ Head(outbox[u]).cmd = "ReplyLogin"
  /\ listed' = listed \cup {u}
  /\ Deliver(<<Reply({u}, "AccessGranted", << >>), PlayerEvent(listed')>>)
  /\ UNCHANGED vars

LobbyJoin(u) ==
  /\ Head(outbox[u]).cmd = "RequestJoinTable"
  /\ AddPlayer(u)
  /\ \E p \in Places : uuid'[p] = u
       /\ Deliver(<<Reply({u}, "ReplyJoinTable", <<p, engine.hands[p]>>), PlayerEvent(listed)>>)
  /\ UNCHANGED listed

TableAnswers(u) ==
  LET m == Head(outbox[u])
  IN  /\ ~Refuses(u, m)
      /\ \/ m.cmd = "Ack" /\ Ack(u, m.arg)
         \/ m.cmd = "ReplyBid" /\ ReplyBid(u, m.arg[1], m.arg[2])
         \/ m.cmd = "Discard" /\ Discard(u, m.arg)
         \/ m.cmd = "Handle" /\ NoHandle(u)
         \/ m.cmd = "Card" /\ PlayCard(u, m.arg)
      /\ Deliver(sent')
      /\ UNCHANGED listed

TableRefuses(u) ==
  /\ Refuses(u, Head(outbox[u]))
  /\ UNCHANGED <<vars, inbox, listed>>

ServerReceives(u) ==
  /\ outbox[u] # << >>
  /\ Served(u)
  /\ LobbyLogin(u) \/ LobbyJoin(u) \/ TableAnswers(u) \/ TableRefuses(u)

\* The other users of the lobby, at any time: one of them logs in, takes or
\* leaves a seat of another table or changes his name, which is an event, or
\* chats with everybody who is connected or with one user.
LobbyNews ==
  /\ news < MaxNews
  /\ news' = news + 1
  /\ \/ Deliver(<<PlayerEvent(listed)>>)
     \/ \E to \in ChatTargets : Deliver(<<Reply(to, "ChatMessage", << >>)>>)
  /\ UNCHANGED <<vars, bot, outbox, listed>>

-----------------------------------------------------------------------------

\* The server has accepted the connections and asked each bot to log in.
ClientsInit ==
  /\ Init
  /\ bot = [u \in Users |-> NewBot]
  /\ inbox = [u \in Users |-> <<Message("RequestLogin", << >>)>>]
  /\ outbox = [u \in Users |-> << >>]
  /\ listed = {}
  /\ news = 0

PacketRead == \E u \in Users : BotReceives(u) \/ ServerReceives(u)

ClientsNext == PacketRead \/ LobbyNews

\* Session and PeerSession always read the next packet: while a message is on
\* its way some end handles one.  Nothing is assumed of any single connection,
\* nor of the other users, who may have no news.
Delivery == WF_clientVars(PacketRead)

ClientsSpec == ClientsInit /\ [][ClientsNext]_clientVars /\ Delivery
=============================================================================
