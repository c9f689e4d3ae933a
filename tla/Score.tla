------------------------------- MODULE Score -------------------------------
(***************************************************************************)
(* Score.cpp: what a deal is worth (Points), how it is shared between the  *)
(* players, and the scores of a game.                                      *)
(*                                                                         *)
(* Of the array scores only the rows of the deals played are kept: the     *)
(* others are zero since NewGame.  GetHistory has no part in the game.     *)
(***************************************************************************)
EXTENDS TarotContext

\* Tarot::GetMultiplier.
GetMultiplier(contract) ==
  CASE contract = TAKE_BID      -> 1
    [] contract = GUARD         -> 2
    [] contract = GUARD_WITHOUT -> 4
    [] contract = GUARD_AGAINST -> 6
    [] OTHER                    -> 0

\* Tarot::Bid::HasPartner.
HasPartner(bid) ==
  bid.taker # NOWHERE /\ bid.partner # NOWHERE /\ bid.partner # bid.taker

-----------------------------------------------------------------------------
(* Points *)

\* Points::Difference, Points::Winner.
Difference(points) == points.pointsAttack - PointsToDo(points.oudlers)

Winner(points) == IF Difference(points) >= 0 THEN "ATTACK" ELSE "DEFENSE"

\* Points::GetSlamPoints, for the camp that wins the deal.
GetSlamPoints(points, bid) ==
  CASE points.slamDone              -> IF bid.slam /\ Winner(points) = "ATTACK" THEN 400 ELSE 200
    [] ~points.slamDone /\ bid.slam -> IF Winner(points) = "ATTACK" THEN -200 ELSE 200
    [] OTHER                        -> 0

\* Points::GetLittleEndianPoints, for the camp that wins the deal.
GetLittleEndianPoints(points) ==
  CASE points.littleEndianOwner = "NO_TEAM"      -> 0
    [] points.littleEndianOwner = Winner(points) -> 10
    [] OTHER                                     -> -10

\* The score of the deal in Points::GetPoints.
DealScore(points, bid) ==
  LET diff == Difference(points)
      abs  == IF diff < 0 THEN -diff ELSE diff
  IN  (25 + abs + GetLittleEndianPoints(points)) * GetMultiplier(bid.contract)
        + points.handlePoints + GetSlamPoints(points, bid)

\* Faulty variants of AttackShares: everybody pays the taker, himself too; the
\* partner pays the taker.
AttackSharesAll(bid)       == NbPlayers
AttackSharesNoPartner(bid) == NbPlayers - 1

\* The defenders that the attack wins from or pays, in Points::GetPoints.
AttackShares(bid) == IF HasPartner(bid) THEN NbPlayers - 2 ELSE NbPlayers - 1

\* Points::GetPoints.
GetPoints(team, points, bid) ==
  (IF team = Winner(points) THEN DealScore(points, bid) ELSE -DealScore(points, bid))
    * (IF team = "ATTACK" THEN AttackShares(bid) ELSE 1)

-----------------------------------------------------------------------------
(* Score *)

\* Score::Score, Score::NewGame.
ScoreNewGame(turns) == [counter |-> 0, turns |-> turns, rows |-> << >>]

\* The taker's part of the attack's points when he has a partner: the float
\* attack * 2 / 3 + 0.4, converted to an integer, that is cut towards zero.
TakerPart(attack) ==
  LET fifteenths == 10 * attack + 6
  IN  IF fifteenths >= 0 THEN fifteenths \div 15 ELSE -((-fifteenths) \div 15)

\* The row of the deal in Score::AddPoints.
DealRow(points, bid) ==
  LET attack    == GetPoints("ATTACK", points, bid)
      partnered == NbPlayers = 5 /\ HasPartner(bid)
  IN  [p \in Places |->
         CASE p = bid.taker -> IF partnered THEN TakerPart(attack) ELSE attack
           [] p # bid.taker /\ partnered /\ p = bid.partner -> attack - TakerPart(attack)
           [] OTHER -> GetPoints("DEFENSE", points, bid)]

\* Score::AddPoints.
AddPoints(sc, points, bid) ==
  [sc EXCEPT !.counter = @ + 1, !.rows = Append(@, DealRow(points, bid))]

\* Score::GetPodium reads the last row, with five places whatever the number of
\* players; among equal points the last place remains.
PodiumPoints(sc, i) == IF i \in Places THEN sc.rows[Len(sc.rows)][i] ELSE 0

\* Score::GetWinner.
GetWinner(sc) ==
  CHOOSE i \in 0..4 : \A j \in 0..4 :
    \/ PodiumPoints(sc, j) < PodiumPoints(sc, i)
    \/ PodiumPoints(sc, j) = PodiumPoints(sc, i) /\ j <= i

\* The sum of the scores of a deal, over the players of the table.
RowSum(row) ==
  row[0] + row[1] + row[2] + (IF NbPlayers > 3 THEN row[3] ELSE 0)
                           + (IF NbPlayers > 4 THEN row[4] ELSE 0)
=============================================================================
