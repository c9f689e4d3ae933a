------------------------------ MODULE MCTable5 ------------------------------
(***************************************************************************)
(* A table of five players, hands of two cards and a dog of one card: the  *)
(* taker calls a king, which another player, the taker himself or the dog  *)
(* holds.                                                                  *)
(***************************************************************************)
EXTENDS TableProperties

CONSTANTS u0, u1, u2, u3, u4

Card(v, s) == [suit |-> s, value |-> v]
Fool == Card(0, TRUMPS)
T1   == Card(1, TRUMPS)
T5   == Card(5, TRUMPS)
T21  == Card(21, TRUMPS)
S2   == Card(2, 0)
S13  == Card(13, 0)
S14  == Card(14, 0)
H2   == Card(2, 1)
H13  == Card(13, 1)
H14  == Card(14, 1)
D2   == Card(2, 2)

MCCards    == {Fool, T1, T5, T21, S2, S13, S14, H2, H13, H14, D2}
MCUsers    == {u0, u1, u2, u3, u4}
MCDiscards == {<<c>> : c \in {S2, H2, D2}}

\* A spade and a heart, a card that only a full hand of kings allows, and a
\* king that nobody has.
MCKingCalls == {S14, H14, H13, Card(14, 2)}

Bid(c, slam) == [contract |-> c, slam |-> slam]
MCBids     == {Bid(PASS, FALSE), Bid(GUARD, FALSE), Bid(GUARD_AGAINST, TRUE)}

Deal(hands, dog, first) ==
  [hands |-> [p \in 0..4 |-> hands[p + 1]], dog |-> <<dog>>, first |-> first]

\* The called king beside the fool; a king in the dog and one with a trump.
MCPartnerDeal == Deal(<<{T21, S2}, {Fool, S14}, {T1, H2}, {H14, S13}, {H13, T5}>>, D2, 0)
MCDogDeal     == Deal(<<{T21, S14}, {Fool, S2}, {T1, T5}, {H2, S13}, {H13, D2}>>, H14, NOWHERE)
MCDeals       == {MCPartnerDeal, MCDogDeal}
MCOneDeal     == {MCPartnerDeal}

\* A table that the five users have joined, in this order.
SeatedInit ==
  /\ engine = EngineCreateTable(0)
  /\ uuid = [p \in Places |-> <<u0, u1, u2, u3, u4>>[p + 1]]
  /\ ack = NoAck
  /\ admin = u0
  /\ nbDeals \in 1..MaxDeals
  /\ score = ScoreNewGame(5)
  /\ sent = << >>
  /\ dealt = 0
  /\ leaves = 0

SeatedSpec == SeatedInit /\ [][Next]_vars
=============================================================================
