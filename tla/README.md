# A TLA+ verification of tarotclub-core

tarotclub-core is the game server and the client library of a French tarot
game: players connect to a server, meet in a lobby, sit at tables, and play
deals that the server referees.  This directory holds TLA+ modules of the
referee, of the scores, of the clients that play by themselves (bots) and of the
lobby, the runs that model-check them with TLC, and theorems checked by TLAPS.

## 1. The system

| Part | State | Operations | Interacts with |
|---|---|---|---|
| `Engine` | step (`mSequence`), position in the trick, dealer, trick counter, player in turn, handles asked, hands, current trick, points | `CreateTable NewGame NewDeal SetBid BidSequence SetKingCalled ManageAfterBidSequence DiscardSequence SetDiscard StartDeal SetHandle SetCard GameSequence EndOfDeal` | called by `PlayingTable`, owns a `TarotContext` |
| `TarotContext` | bid, dog, discard, handles, first player, tricks, winners, the attack's count | `Initialize SetBid SetHandle ManageDogAfterBid CheckKingCall SetTrick AnalyzeGame` | `Deck`, rule tables of `Common` |
| `Deck`, `Card`, `Common` | cards | `CanPlayCard TestHandle TestDiscard HighestTrump HighestSuit AnalyzeTrumps ...` | pure rules |
| `PlayingTable` | seats (uuid, ack), administrator, game, score, engine | `AddPlayer RemovePlayer ExecuteRequest` (`Ack RequestNewGame ReplyBid Discard ReplyKingCall Handle Card`) | called by `Lobby`, replies go to the clients |
| `Score`, `Points` | deal counter, number of turns, scores per deal | `NewGame AddPoints GetPodium` | called by `PlayingTable` |
| `DealGenerator` | a distribution | `CreateRandomDeal LoadFile IsValid` | called by `Engine::CreateDeal` |
| `Lobby`, `Users`, `UniqueId` | users, tables, peers, identifier pools | login, join, quit, nickname, table creation | server side of every message |
| `Bot`, `BotManager`, `PlayerContext` | what a client knows of the table | one reaction per message | send requests, acknowledge |
| `Server`, `PeerSession`, `Session`, `websocket-client` | connections | accept, read, write, close | feed the lobby and the clients |
| `Protocol` | a frame being read | build, parse, encrypt | connections |
| configuration, JSON, utilities, jsengine, zip, mbedtls | files, text | I/O and formatting | everywhere |

What is hard here.  The game is a conversation: the table shows a step to all
players, waits until every seat has acknowledged it, and then goes on; at other
steps it waits for the answer of one player.  Clients are separate processes, so
acknowledgements come in any order and perhaps late; the administrator may start
a new game at any moment; players leave in the middle of a deal; nothing times
out.  The engine is reused from deal to deal and only part of its state is reset
at each beginning.  Counters serve two purposes (the trick counter also counts
the rounds of bids).  The rules themselves (which card may be played, who keeps
the fool) are nested conditions with exceptions.  Clients keep their own copy of
the cards and of the trick and answer from it, and an answer that the table
refuses is only logged: a copy that is wrong once stops the game.  In the lobby,
identifiers of users are released and given again while old sessions may still be
open, a request counts as sent by whomever its header names, and a user is recorded
in four places (session, list of users, pool of identifiers, seats of a table) that
every path has to keep in agreement.  The list `hazards` in
`PROJECT.json` gives each of these at its line.

The lobby holds one mutex around `Deliver`, `AddUser` and `RemoveUser`, so each
request is processed as a whole: an action of the model is one request.  What
makes each part correct: the table never leaves a step before all have seen it
and always asks the right player; the engine conserves and counts the cards; the
rules always leave a playable card; the scores of a deal sum to zero; a client
knows what it needs when it is asked; the lobby sends mail to the owner of an
identifier, lists a user once, and seats exactly the users it lists at a table.

## 2. The modules

| Module | Models | How |
|---|---|---|
| `Tarot` | `Common.cpp`, `Card.cpp` | places, contracts, cards, rule tables; the deck and the sizes are constants |
| `Deck` | `Deck.cpp` | the card rules as operators on sets (hands) and sequences (tricks, dog, discard, handles) |
| `TarotContext` | `TarotContext.cpp` | a context is a record, a method an operator from a context to the next one; points are counted in half points |
| `Engine` | `Engine.cpp`, `DealGenerator.cpp` | likewise; `PlayingTable` calls several methods in one request |
| `Score` | `Score.cpp` | the points of a deal, the row of each player and the winner, as operators |
| `PlayingTable` | `PlayingTable.cpp`, `Network.cpp` | the state machine: one action per command; `sent` holds the replies of the last request |
| `StepBarrier` | the promise of a table | abstract specification: steps in order, a shown step is left when all seats have acknowledged it |
| `TableProperties` | | invariants and refinement of a table |
| `MCTable3`, `MCTable5` | | instances for TLC |
| `Clients` | `Bot.cpp`, `PlayerContext.cpp`, delivery in `Lobby.cpp` | composition: the table, one bot per seat, a queue in each direction for each of them, and the other users of the lobby |
| `ClientProperties`, `MCClients` | | what holds of table and bots together, instance for TLC |
| `Lobby` | `Lobby.cpp`, `Users.cpp`, `UniqueId.cpp`, sessions of `Server.cpp` | one action per packet or end of a connection; of the tables only the seats |
| `LobbyProperties`, `MCLobby` | | invariants of the lobby, instance for TLC |
| `RuleProofs`, `EngineProofs`, `TableProofs`, `HandProofs`, `ConservationProofs`, `FoolProofs`, `ClientProofs`, `LobbyProofs` | | theorems |

Correspondence.  `engine.seq` is `mSequence` without `WAIT_FOR_`.  The seats
`mPlayers[i]` are the functions `uuid` and `ack`.  `score` keeps `dealCounter`,
`mNumberOfTurns` and the rows of the array `scores` that have been written (the
others are zero), `nbDeals` is `mGame.deals.size()`.  A request that the code
only logs (not his turn, wrong step, refused card) changes nothing and has no
action.  `Ack` is the whole branch of `ExecuteRequest`: it records the
acknowledgement, resets all of them when they are complete, runs the case of the
switch on the step the client NAMED, and everything that case calls
(`SendNextBidSequence`, `StartDeal`, `NewDeal`, `GameSequence` with
`Engine::EndOfDeal`).  `mTrickCounter` is a counter modulo `CounterMod` (256 in
the code).  The arrays that `Initialize` does not clear (winners, owners of the
tricks and of the discard, the trick counter, handles asked) keep their old
values in the model too.  Names that collide with another module get a prefix
(`EngineNewDeal`, `CtxSetBid`); `TAKE` is a keyword of TLA+ and is `TAKE_BID`.

In `Clients` a bot is a record of the fields of `PlayerContext` that decide what it
answers.  `BotReceives` is `Bot::HandleRequest` on the first message of its inbox,
`ServerReceives` the lobby and the table on the first request of its outbox; the
actions of `PlayingTable` are used as they are, and `Deliver` hands out the replies
they leave in `sent`.  The script of a bot is free: it may wish any bid of
`BidChoices` and any discard that `TestDiscard` accepts, and the valid card it plays
first is any, because the order of the cards in a hand is left out.  A request that
the table refuses is consumed without an answer (`TableRefuses`), as in the code.
The seats of `Lobby` and those of `PlayingTable` are the same array, seen from two
sides: `Clients` takes from the lobby a login that succeeds and a join.

A connection carries more than the table's messages.  A login and a join are
announced to everybody on the list (`PlayerEvent`, that is `Lobby::SendPlayerEvent`;
`listed` are the bots on the list), the bot itself included, and the other users of
the lobby may at any time cause an event or chat with one user or with all
(`LobbyNews`, at most `MaxNews` times in a run; whom a chat message may be for is the
constant `ChatTargets`).  These messages, `Asides`, take their place in the same queue;
nobody acknowledges them and a bot ignores them (`BotIgnores`).

In `Lobby`, `mUsers` is a set of entries, `mPeers` the function `peers`, `userIds`
the identifiers of the pool in use, and `session` the state of each `PeerSession`.
`mPeers` holds the only lasting reference to a session, so a session that is
replaced there is destroyed; when its next read was under way the model calls it
"destroyed" and lets it do nothing (the code then runs a handler on freed memory,
which is not followed further; section 6).  The sender of a request is what the header
of its packet says, which `PeerSession::HandleBody` does not compare with the identifier of
the session: the requests have a parameter `u` for it, and `Sends(p, u)` says whom the
session of `p` may name.  `ClientFaults` says what clients do against the protocol: name
another sender, any of `Uids` (`OtherSender`), ask for a table before access is granted
(`EarlyJoin`), send a packet that cannot be decrypted after the login (`BadPacket`),
quit the lobby as if it were a table (`QuitLobby`).  Wrong pass phrases, ends of
connections at any moment and failures inside a packet are always possible.
`LobbyProperties` adds two history variables: `strayed` records that a user who is not
listed was given a seat, and `borrowed` the listed identifiers whose login came from
another session while their own had not shown the pass phrase.  The event counter and
the texts of the messages are left out.

Definitions called "Faulty variant of X" are not part of the model: each is a
plausible mistake in X, used to see that a property notices it.

Inputs.  Clients send well-formed bids, discards, handles, calls and cards, from
the constants `BidChoices`, `Discards`, `Handles`, `KingCalls` and `Cards`; a
late client may acknowledge the steps in `LateSteps` when they are over.  A handle is
a sequence: `TestHandle` does not ask whether its cards differ, so a handle that shows
one card twice is among the inputs.  A game
has at least one deal and a deal file deals each card once (section 6).

## 3. The runs

All instances use two tricks and a dog of one card: two tricks are the fewest
with a first trick (handles), a last trick (fool, 1 of trumps) and a trick whose
opener is the winner of another one.  `CounterMod = 3` lets the trick counter
wrap within the bounds.  `dealt` and `leaves` only implement the bounds
`MaxDealt` and `MaxLeaves`.

| Run | Instance | Checks | Shows |
|---|---|---|---|
| `deal` | 3 players, 6 distributions, all contracts, a slam, all handles and discards, one deal | `CardsConserved TurnOrder SomeCardPlayable HandleAskedFirst TakerKnown FoolAccounting ZeroSum` | one deal is refereed correctly in every order of play |
| `game` | 3 players who join in any order, leave and come back; games of 1 or 2 deals; administrator mode; late acknowledgements of `CARDS` and `SHOW_BID` | `TypeOK DealInGame HandleAskedFirst HandleAskedOnce TableInv ImplementsBarrier` | a new game in the middle of a deal, a late acknowledgement or a departure never corrupts the next deal, and nobody is asked twice for a handle in one |
| `five` | 5 players, 2 distributions, king calls (also for a card in the dog and for one that nobody has), slam | `TurnOrder TakerKnown ImplementsBarrier ZeroSum` | the five-player branch, and the shares of taker and partner |
| `clients` | 3 bots over queues of any speed, the third logs in and joins; two games of one deal; a guard or a pass; a hand without a discard; one event or chat message of the other users, besides those of the third bot | `BotKnowsTable BotIsNeverRefused BotFindsCard BotKeepsUp DealFollowsDeal` | bots that answer late from their own copy are never refused, never without a card and at most two messages of the table behind, and the game goes on, except for a taker who cannot discard |
| `admin` | players may leave | `AdminIsSeated` is violated | finding 1 |
| `points` | two deals | `PointsOfThisDeal` is violated | finding 2 |
| `partner` | 5 players | `FoolAccounting` is violated | finding 3 |
| `lobby` | 3 peers, 2 identifiers, 2 nicknames, 2 tables of 2 seats, all client faults; a sender is one of the two identifiers, the invalid one or one outside the pool | `LobbyTypeOK SessionOwner MailToOwner UsersAuthenticated UniqueEntries EntrySeat SeatedAreListed` | released, exhausted and borrowed identifiers never mix up sessions, mail, entries, nicknames or seats |
| `rejoin` | 3 peers, 2 identifiers | `UnseatedMayJoin` is violated | finding 4 |
| `shares` | 5 players | `TakerTwoThirds` is violated | finding 5 |
| `winner` | 3 players, a game of two deals | `WinnerHasMost` is violated | finding 6 |
| `bid` | 3 bots, two deals | `BotRemembersBid` is violated | finding 7 |

`deal` starts from a table the players have joined (`SeatedInit`, a state that
`AddPlayer` reaches), `clients` from one where two bots have joined and the third
has just connected (`JoinedInit`); `game` starts from an empty one.  In `game` the
users are symmetric: no constant and no property distinguishes them.  The lobby
creates tables of four players; the engine also has the branches for three and
five, and the instances take three (fewest states) and five (king call).  The
theorems cover four as well.

In the runs of the lobby each peer connects once; one peer more than identifiers
is enough for an identifier to change hands and for a peer to find the pool
empty, and two accepted peers for one to speak in the name of the other.  Peers and nicknames are symmetric.  Deadlock is not checked there: when
every peer has gone the lobby has nothing to do.

In `clients` the distribution gives one player two trumps and the fool in the dog,
so that he has no legal discard when he takes, while the other
two players have one and play their tricks; the bot of place 0 may find a chat message
or an event between any two messages of the table.  More of them would only repeat
what one does, since the bot drops them one by one; `ClientProofs` covers any number.

Fairness.  `Delivery`, the only fairness in the project, is weak fairness of
`PacketRead`, the bots and the server together: while a message is on its way, some end
reads one.  The other users owe nothing.  The read
loops of `PeerSession` and `Session` give that much: each handler asks for the next
packet before it returns.  Nothing is assumed of any single connection, bot or step,
so `DealFollowsDeal` shows that the table, the acknowledgements and the bots' answers
by themselves lead to as many deals as the bound admits in every order of delivery
(`<>(dealt = MaxDealt \/ NoDiscard)`).  `clients` has
no departures: a player who leaves in the middle of a deal does stop the table
until a new game is requested (see the hazards).  Deadlock is not checked there: the
bound on the deals, or the missing discard, ends a behaviour.

Findings.  (1) `RemovePlayer` gives the table to the occupant of the first other
seat, even when that seat is empty.  (2) The `EndOfDeal` message carries the
points read before they are computed.  (3) With five players, a fool played by
the partner is treated as the defense's in `SetTrick`.  (4) A user who quits a
table is recorded at table 0 and not in the lobby, and can never join again.
(5) With five players the part of the taker in a lost deal is rounded towards zero:
he pays a point less than two thirds and the partner a point more than a third.
(6) The winner announced at the end of a game is the best of the last deal.  (7) A bot
compares its bid with the contract of the previous deal until somebody has bid, and
passes where it would bid anything up to that contract.

## 4. The proofs

`TableProofs` proves, for 3 to 5 players, any hand size from 2 to 24, any deck
and any bounds (assumptions `TarotAssumption`, `EngineAssumption`,
`TableAssumption`, which TLC evaluates in every run):

* `TypeCorrect`, `TableInvCorrect`: `Spec => []TypeOK` and `Spec => []TableInv`;
* `TakerCorrect`, `DealInGameCorrect`: the properties of the runs, from `TableInv`;
* `ZeroSumCorrect`: `Spec => []ZeroSum`, the scores of every deal;
* `BarrierCorrect`: `Spec => ImplementsBarrier`, the refinement of `StepBarrier`.

`HandProofs` and `ConservationProofs` add, from the same assumptions:

* `TurnOrderCorrect`, `SomeCardPlayableCorrect`, `HandleAskedCorrect`:
  `Spec => []TurnOrder`, `[]SomeCardPlayable`, `[]HandleAskedFirst`;
* `HandleAskedOnceCorrect`: `Spec => HandleAskedOnce`, an action property: a question
  goes to a player who was not among those asked, and these stay so during the deal;
* `CardsConservedCorrect`: `Spec => []CardsConserved`.

`FoolProofs` adds, for three and four players, `FoolCorrect`: `Spec => []FoolAccounting`.
With five players the property is false (finding 3).

`ClientProofs` proves of the table with its bots (from `ClientsAssumption` too, with no
assumption on the pace of a connection, for any number of events and chat messages,
and without using the fairness):

* `ClientInvCorrect`: `ClientsSpec => [](Inv /\ ClientInv)`, and from it
  `BotKnowsTableCorrect`, `BotIsNeverRefusedCorrect` and `BotKeepsUpCorrect` for the
  properties of the run `clients`;
* `BotFindsCardCorrect`: `ClientsSpec => []BotFindsCard`;
* `ClientsBarrierCorrect`: `ClientsSpec => ImplementsBarrier`, the refinement again, for
  the acknowledgements that bots really send.

`RuleProofs` proves `PlayableCardExists`: a non-empty hand always holds a card
that `CanPlayCard` accepts.

The argument.  The inductive invariant `Inv` is `TypeOK`, `TableInv` and that the
score belongs to `GameScores`: one row per deal counted, each of sum zero.  That a
new row sums to zero is `DealRowZeroSum` in `RuleProofs`: the attack's points are the
defense's times the number of defenders with the opposite sign, the taker and the
partner divide them without rest whatever the rounding, and with three or four
players nobody but the taker attacks, because `TableInv` says that there is no
partner then.  `TableInv` is the main part: for each step of the engine
it says what the bids (`BidsInv`), the taker (`TakerInv`), the trick (`PlayInv`)
and the cards (`CardsInv`) look like, that a step without acknowledgement has
none recorded and that they are never complete (`AckInv`), and that the counter
of the score is inside the game (`ScoreInv`).  Neither `TakerKnown` nor
`DealInGame` is inductive: that a real contract has a taker at the end of the
bids needs what is known in the middle of them, and that the winner of a trick is
a player (so that he can open the next one) needs a trick of different cards,
one per player, with a leader (`LeaderExists`), hence `CardsInv` and `PlayInv`.
`AckInv` is what makes the switch on the step named by the client sound: since
the acknowledgements are never complete between two requests, the request that
completes them has just been recorded by `Sync`, which only happens when the
named step is the current one (`AckCases`).  Each method of the engine has a lemma
of its own in `EngineProofs` (type, invariant and next step), and `TableProofs`
combines them, one lemma per request.

`HandProofs` strengthens `Inv` by `HandInv`, which counts cards: full hands from the
deal to the first trick, and after that one card less for each trick finished and one
less for whoever has played in the current one (`Played`).  The step that needs care is the
discard: the taker takes the dog and puts as many cards aside, so his hand is full again
only because `TestDiscard` refuses a card named twice (`SetDiscardHands`, `PileSize`),
and the dog of a deal has no card twice because it has as many places as cards
(`DealtCards`).  A player in turn has not played in the current trick, so he still has a
card, and `PlayableCardExists` gives one that the rules accept.

`ConservationProofs` strengthens `Inv` by `ShareInv`: hands, trick, cards aside and
tricks won are apart and make up the deck (`Shared`), and the turns not yet played have no
trick (`Unplayed`), without which `SetTrick` could overwrite one.  The deal is a lemma
(`DealShares`) and so is each move: a card to the trick (`MoveCard`), a trick to its
turn (`MoveTrick`), the exchange with the dog (`MoveDiscard`).  `SharedOnce` turns piles
that are apart into the count of `CardsConserved`.

`FoolProofs` strengthens `Inv` by `FoolInv`: nothing is counted during the bids, and in every
step of the play the counters of the attack are the sums of what the tricks so far brought
it (`SumTo` of `PointsWon`, `OudlersWon` and `FoolMoves`, up to the current turn).  The
argument is that `SetTrick` adds exactly one term of each sum, whoever won the trick and
whoever played the fool in it; that the terms of earlier turns do not change any more,
because their cards, winners and openers do not; and that only the last trick asks
whether the attack won all of them.  Adding one term to a sum is the only induction over
data in the project: since the provers cannot use the library's induction theorems, it is
a descent on the least turn for which the sums do not exist (`LeastNumber`, from
`WFMin`, which has no operator parameter).

`ClientInv` says for each seat that the copy of its bot, the messages on their way to it
and the requests on their way from it add up to the state of the table (`View`).  Of the
messages only those of the table matter, `wanted`: the inbox is those, two at most, in
their order, with any number of events and chat messages before, between and after them
(`Carries`), which survives both ends of a queue (`CarriesJoin`, `CarriesTail`).  Which
combinations exist depends on the step: at a step that all acknowledge (`AtBarrier`) the
bot has been told and has acknowledged, or its acknowledgement is on its way, or the news
is, perhaps behind a question to somebody else that it has not read yet; when the table
waits for one player (`AtQuestion`) the question or the answer of that player is on its
way and the others have at most that question to read; at a king call all bots answer
nothing (`AtKingCall`).  `Knows` is required of the copy as it will be once everything
has been read (`After`).  A bot without a seat is logging in or joining (`Joining`).  None
of the three properties is inductive: that a card sent is accepted needs that the copy
was right when the question was read, which needs that nothing else was on its way, which
needs the barrier, that is that everybody had acknowledged.  `SeatInv` also says that with
five players the table never gets past the king call, since no bot calls a king: this is
why the dog size that a client always computes for four players does no harm in the
proof.  There is one lemma per reaction of `Bot::HandleRequest`
(`BotAcksView`, `BotBidsView`, ...), which are local to one seat, and one per answer of
the table (`BidAnswered`, `SyncedStep`, ...), which have to be told to all seats; what a
reply adds to each inbox is `MailToAll`, `MailToOne` and `MailOfCards`.
`ClientsTableStep` shows that every step of the composition is a step of `PlayingTable`
or leaves engine and acknowledgements alone (a nameless acknowledgement), so `BarrierStep`
and `NextHands` apply to the table of bots unchanged, and the card that `CardsToPlay`
finds in the engine's hand is in the bot's copy.

`LobbyProofs` proves, for any numbers of peers, identifiers, nicknames, tables and
seats (`LobbyAssumption`):

* `LobbyCorrect`: `LobbySpec => []LobbyInv`, whatever the clients do and whomever they
  name as the sender, and from it `LobbyTypeCorrect`, `SessionOwnerCorrect`,
  `MailCorrect`, `EntriesCorrect` and `EntrySeatCorrect` for the properties of the run
  `lobby`;
* `SeatsCorrect`: `RecordedSpec => []SeatedAreListed`;
* `AuthenticatedCorrect`: `RecordedSpec => []UsersAuthenticated`.

`LobbyInv` is the conjunction of the properties of `lobby` that need no history, and
that an entry has an identifier in use (`EntriesInUse`).  `MailToOwner` alone is not
inductive: that `AddUser` does not destroy the session of a user needs that `mPeers`
records a session under its own identifier only, and that a removal ends the session
that holds the identifier needs that a session that reads is the recorded one; both
are `SessionOwner`.  With a sender that is taken from the header, a listed user need not
have shown the pass phrase; `UsersAuthenticated` says that a login in his name by
somebody else is the only way there, and its proof follows the session of an identifier
from the login on (`OwnerKeeps`, `NewlyListed`).  `EntrySeat` needs `UniqueEntries`.  `SeatedAreListed` is
inductive together with `LobbyInv`: a step either seats a listed user, or it sets
`strayed`, or it removes seat and entry together.

Only model-checked: `DealFollowsDeal`, because liveness under fairness is out of the
provers' reach, and, for five players, nothing beyond what `Inv`, `HandInv` and `ShareInv`
say of the count of a deal.  The claims that findings refute are violated in the model, so
there is nothing to prove.

## 5. Further work

The frames of `Protocol` and overlapping writes of `PeerSession` would need what the
network library does with them.  Bots that join in the middle of a deal, or at a
table of five, are known to stop the table (hazards at `PlayingTable.cpp:215` and
`Bot.cpp:113`); with a rule for them in the code, `Clients` could state it.

## 6. Not modelled

* JSON, configuration, logging, shuffling, sorting, timers, sockets, TLS and the
  vendored libraries: I/O, formatting or external code.
* Ill-formed requests: unknown commands, names that do not parse, deal files that
  deal a card twice, games without deals or with more than 255.  They are hazards
  with a note in `PROJECT.json`.
* `Engine::Stop`, `Engine::LoadGameDeal` and `Engine::LoadGameDealLog`: nothing in
  the repository calls them.
* In the lobby: `DestroyTable`, `RemoveAllUsers`, `UniqueId::FindId` and `AddId` (no
  caller), `Users::UpdateLocation` (called by clients only), and tables created
  while peers are connected.
* `Session`, `Protocol`, `websocket-client`: one frame at a time between a socket and a
  handler.  `Clients` uses them as queues that keep their order.
* `BotManager`: a list of bots; `Bot::PlayCard`, `Bot::AskForHandle`, `Bot::StartDeal`,
  `Bot::NewGame`, `PlayerContext::PlayRandom`: `Bot::HandleRequest` does not call them.
* Known and not followed further: a peer refused after a bad packet goes on reading
  while its identifier is given to the next peer, whose session replaces, that is
  destroys, the first one in `mPeers` with a read under way; so do two peers that
  share identifier 0.  A request to join for somebody who is not listed gets a seat
  that nothing frees (`Strays`).
* Most of the source files are the vendored mbedtls, duktape and miniz, which this
  program only calls; of the program's own code (about 14,700 lines) the map names a quarter,
  and most of the rest is the input and output listed above.
