------------------------------ MODULE MCTable3 ------------------------------
(***************************************************************************)
(* A table of three players, hands of two cards and a dog of one card, so  *)
(* that the fool, the 1 and the 21 of trumps fall in every position.       *)
(***************************************************************************)
EXTENDS TableProperties, TLC

CONSTANTS u0, u1, u2, u3

Card(v, s) == [suit |-> s, value |-> v]
Fool == Card(0, TRUMPS)
T1   == Card(1, TRUMPS)
T21  == Card(21, TRUMPS)
S2   == Card(2, 0)
S14  == Card(14, 0)
H2   == Card(2, 1)
H13  == Card(13, 1)

MCCards    == {Fool, T1, T21, S2, S14, H2, H13}
MCPlayers  == {u0, u1, u2}
MCUsers    == {u0, u1, u2, u3}
MCDiscards == {<<c>> : c \in MCCards}
MCHandles  == {<<Fool>>, <<T1>>, <<T21>>, <<T1, T1>>}
MCSymmetry == Permutations(MCPlayers)

Deal(a, b, c, d, first) ==
  [hands |-> [p \in 0..2 |-> <<a, b, c>>[p + 1]], dog |-> <<d>>, first |-> first]

\* The fool with a plain suit; a slam that ends with the fool; the fool behind
\* the two other oudlers; trumps that have to overtrump; the fool in the dog;
\* a random deal.
MCDeals ==
  { Deal({Fool, S2}, {T21, S14}, {T1, H13}, H2, 0),
    Deal({Fool, T21}, {S2, S14}, {H2, H13}, T1, 0),
    Deal({T21, T1}, {Fool, S14}, {H2, S2}, H13, 0),
    Deal({T1, S2}, {T21, H2}, {Fool, S14}, H13, 2),
    Deal({S14, S2}, {T21, H2}, {T1, H13}, Fool, 1),
    Deal({T1, T21}, {H2, S14}, {Fool, H13}, S2, NOWHERE) }

MCOneDeal  == {Deal({T1, T21}, {H2, S14}, {Fool, H13}, S2, NOWHERE)}
MCGameDeal == {Deal({T1, T21}, {H2, S14}, {Fool, H13}, S2, 0)}

Bid(c, slam) == [contract |-> c, slam |-> slam]
MCBids     == {Bid(PASS, FALSE), Bid(TAKE_BID, FALSE), Bid(GUARD, TRUE),
               Bid(GUARD_WITHOUT, FALSE), Bid(GUARD_AGAINST, FALSE)}
MCFewBids  == {Bid(PASS, FALSE), Bid(GUARD_AGAINST, FALSE)}

\* A table that the first three users have joined, in this order.
SeatedInit ==
  /\ \E dealer \in Places : engine = EngineCreateTable(dealer)
  /\ uuid = [p \in Places |-> <<u0, u1, u2>>[p + 1]]
  /\ ack = NoAck
  /\ admin = u0
  /\ nbDeals \in 1..MaxDeals
  /\ score = ScoreNewGame(5)
  /\ sent = << >>
  /\ dealt = 0
  /\ leaves = 0

SeatedSpec == SeatedInit /\ [][Next]_vars
=============================================================================
