-------------------------- MODULE TableProperties --------------------------
(***************************************************************************)
(* The safety and progress properties of a playing table.                  *)
(***************************************************************************)
EXTENDS PlayingTable, FiniteSetsExt

ctx == engine.ctx

Scores == [counter : 0..MaxDeals, turns : Nat, rows : Seq([Places -> Int])]

\* Types: every variable of PlayingTable and of the engine stays in its range:
\* seats, players in turn, positions and counters.
TypeOK ==
  /\ engine \in Engines
  /\ uuid \in [Places -> Users \cup {INVALID_UID}]
  /\ ack \in [Places -> BOOLEAN]
  /\ admin \in Users \cup {INVALID_UID}
  /\ nbDeals \in 1..MaxDeals
  /\ score \in Scores
  /\ dealt \in 0..MaxDealt
  /\ leaves \in 0..MaxLeaves

-----------------------------------------------------------------------------
(* Cards. *)

\* What lies aside: the dog, then what was discarded.
Aside == IF engine.seq \in BidSteps THEN ctx.dog ELSE ctx.discard

Occurrences(c) ==
    Cardinality({p \in Places : c \in engine.hands[p]})
  + Cardinality({i \in DOMAIN engine.trick : engine.trick[i] = c})
  + Cardinality({i \in DOMAIN Aside : Aside[i] = c})
  + Cardinality({t \in Turns : c \in CardsOf(ctx.tricks[t])})

\* No card is lost or duplicated from the moment the cards are dealt to the
\* end of the deal: SetDiscard, SetCard and SetTrick only move cards, also
\* when the dog is not shown (the discard is then the dog itself).
CardsConserved ==
  engine.seq \in DealSteps => \A c \in Cards : Occurrences(c) = 1

\* While cards are played the player asked is the one whose turn it is: as many
\* places after the opener of the trick (the first player, then the winner of
\* the previous trick) as cards lie on the table, and each player has played
\* as many cards as the tricks say.
TurnOrder ==
  engine.seq \in PlaySteps =>
    LET opener == TrickOpener(ctx, engine.trickCounter)
        played == {Forward(opener, k) : k \in 0..(engine.position - 1)}
    IN  /\ engine.trickCounter \in Turns
        /\ Len(engine.trick) = engine.position
        /\ engine.position < NbPlayers => engine.currentPlayer = Forward(opener, engine.position)
        /\ \A p \in Places :
             Cardinality(engine.hands[p])
               = HandSize - engine.trickCounter - (IF p \in played THEN 1 ELSE 0)

\* The table never waits for a card that the rules forbid: whoever is asked to
\* play has a card that Deck::CanPlayCard accepts.
SomeCardPlayable ==
  engine.seq = "PLAYED_CARD" =>
    \E c \in Cards : CanPlayCard(engine.hands[engine.currentPlayer], c, engine.trick)

\* Every player is asked for a handle before he plays his first card, in a deal
\* that follows an abandoned one too (mHandleAsked is reset by StartDeal and
\* never by NewDeal).
HandleAskedFirst ==
  engine.seq \in PlaySteps \cup {"START_DEAL"} =>
    /\ engine.seq = "START_DEAL" => engine.handleAsked = {}
    /\ \A p \in Places : Cardinality(engine.hands[p]) < HandSize => p \in engine.handleAsked
    /\ engine.seq = "PLAYED_CARD" => engine.currentPlayer \in engine.handleAsked

\* The step asks a player for a handle only if it was not asked of him yet, and
\* remembers that it was; while the cards of a deal are played nobody is
\* forgotten.
AsksOnce ==
  /\ \A i \in DOMAIN sent' :
       sent'[i].cmd = "AskForHandle" =>
         engine'.currentPlayer \in engine'.handleAsked \ engine.handleAsked
  /\ {engine.seq, engine'.seq} \subseteq PlaySteps \cup {"START_DEAL", "END_OF_TRICK"} =>
       engine.handleAsked \subseteq engine'.handleAsked

\* Nobody is asked for a handle a second time in the same deal, whoever leaves
\* or joins, shows a handle or declines: Engine::GameSequence, which runs again
\* after each answer, relies on mHandleAsked alone.
HandleAskedOnce == [][AsksOnce]_vars

-----------------------------------------------------------------------------
(* Bids and teams. *)

\* Once the bids are over there is a taker with a real contract; the partner is
\* a player in a game of five and nobody otherwise.  SetBid records the first
\* player who passes as a taker, so this rests on BidSequence.
TakerKnown ==
  engine.seq \in DealSteps \ {"CARDS", "BID", "SHOW_BID", "ALL_PASSED"} =>
    /\ ctx.bid.taker \in Places
    /\ ctx.bid.contract >= TAKE_BID
    /\ IF NbPlayers = 5 THEN ctx.bid.partner \in Places ELSE ctx.bid.partner = NOWHERE

-----------------------------------------------------------------------------
(* The count of a deal. *)

\* The sum of f over the first k turns.
SumTo(f, k) ==
  LET sum[n \in 0..HandSize] == IF n = 0 THEN 0 ELSE sum[n - 1] + f[n - 1]
  IN  sum[k]

\* What the attack has won with context c, turn by turn: points and oudlers.
PointsWon(c)  == [t \in Turns |-> IF c.owner[t] = "ATTACK" THEN PilePoints(c.tricks[t]) ELSE 0]
OudlersWon(c) == [t \in Turns |-> IF c.owner[t] = "ATTACK" THEN PileOudlers(c.tricks[t]) ELSE 0]

\* Who played the fool, and the camp that keeps it: its owner's, but the other
\* one in the last trick, unless the taker ends a slam with it.
FoolPlayer(c, t) == GetOwner(TrickOpener(c, t), FoolIndex(c.tricks[t]))

FoolKeptByAttack(c, t) ==
  LET mine == IsAttack(c.bid, FoolPlayer(c, t))
      slam == c.tricksWon = HandSize /\ FoolPlayer(c, t) = c.bid.taker
  IN  IF t = HandSize - 1 THEN slam \/ ~mine ELSE mine

\* What the fool brings to the attack beyond the tricks that it won: the fool
\* (9 half points) is exchanged for a card of 1.
FoolMove(c, t) ==
  IF ~HasFool(c.tricks[t]) THEN 0
  ELSE CASE FoolKeptByAttack(c, t) /\ c.owner[t] = "DEFENSE" -> 1
         [] ~FoolKeptByAttack(c, t) /\ c.owner[t] = "ATTACK" -> -1
         [] OTHER                                            -> 0

FoolMoves(c) == [t \in Turns |-> FoolMove(c, t)]

\* At the end of a deal the attack has the cards of the tricks it won and of
\* its discard, with the fool in the camp that the rules quoted in SetTrick
\* give it to: "the fool is kept by the owner", and "the fool is _always_ lost
\* if played at the last trick" (TarotContext.cpp:440-453).  SetTrick counts
\* trick by trick; this counts once, at the end.
FoolAccounting ==
  engine.seq = "END_OF_DEAL" =>
    LET mine    == ctx.discardOwner = "ATTACK"
        moves   == SumTo(FoolMoves(ctx), HandSize)
        oudlers == SumTo(OudlersWon(ctx), HandSize)
                     + (IF mine THEN PileOudlers(ctx.discard) ELSE 0) + moves
        half    == SumTo(PointsWon(ctx), HandSize)
                     + (IF mine THEN PilePoints(ctx.discard) ELSE 0) + 8 * moves
    IN  /\ engine.points.oudlers = oudlers
        /\ 2 * engine.points.pointsAttack - half \in (IF half % 2 = 0 THEN {0} ELSE {-1, 1})

-----------------------------------------------------------------------------
(* Games. *)

\* mGame.deals is indexed by the deal counter in NewDeal and StartDeal: through
\* a whole deal the counter designates a deal of the game, whatever the games
\* requested before, and the score counts as many turns as there are deals.
DealInGame ==
  engine.seq \in DealSteps => score.counter < nbDeals /\ score.turns = nbDeals

\* What a player wins the others lose: the scores that AddPoints records for a
\* deal sum to zero, whoever won, by whatever bonuses, with or without a
\* partner, and however the attack's points are divided.
ZeroSum == \A i \in DOMAIN score.rows : RowSum(score.rows[i]) = 0

-----------------------------------------------------------------------------
(* The invariant of the whole table. *)

\* A user has one seat, and the seats that have acknowledged the current step
\* are never all of them; a step that waits for an answer has no
\* acknowledgement (an ack is recorded by Sync only for the current step).
AckInv ==
  /\ \A p, q \in Places : uuid[p] = uuid[q] /\ uuid[p] # INVALID_UID => p = q
  /\ \E p \in Places : ~ack[p]
  /\ engine.seq \notin AckSteps => \A p \in Places : ~ack[p]

\* The score follows the game: as many turns as the game has deals, and while a
\* deal is played the counter designates one of them.
ScoreInv ==
  /\ engine.seq # "PLAYERS" => score.turns = nbDeals
  /\ engine.seq \in DealSteps => score.counter < nbDeals

\* The inductive invariant: the engine is consistent with the step it is in,
\* and the acknowledgements and the score with the engine.
TableInv == EngineInv(engine) /\ AckInv /\ ScoreInv

-----------------------------------------------------------------------------
(* Claims of the repository that the code does not keep. *)

\* RemovePlayer is to "Choose another admin" (PlayingTable.cpp:199): while somebody
\* is seated, the administrator is one of the seated players.
AdminIsSeated ==
  (\E p \in Places : uuid[p] # INVALID_UID) =>
    admin # INVALID_UID /\ \E p \in Places : uuid[p] = admin

\* "2/3 pour le preneur et 1/3 pour le partenaire" (Score.cpp:246): of the last
\* deal's points the taker gets or pays twice what his partner does.
TakerTwoThirds ==
  engine.seq = "READY" /\ score.rows # << >> /\ HasPartner(ctx.bid) =>
    LET row == score.rows[Len(score.rows)]
    IN  row[ctx.bid.taker] = 2 * row[ctx.bid.partner]

\* Score::GetTotalPoints, at the end of a game.
GetTotalPoints(p) == MapThenSumSet(LAMBDA i : score.rows[i][p], DOMAIN score.rows)

\* "The first player has the highest number of points" (Score.cpp:308): nobody
\* has more points in the game than the winner announced with its end.
WinnerHasMost ==
  \A i \in DOMAIN sent : sent[i].cmd = "EndOfGame" =>
    /\ sent[i].arg \in Places
    /\ \A p \in Places : GetTotalPoints(p) <= GetTotalPoints(sent[i].arg)

\* The points announced with the end of a deal are the points of that deal.
PointsOfThisDeal ==
  \A i \in DOMAIN sent : sent[i].cmd = "EndOfDeal" => sent[i].arg = engine.points
=============================================================================
