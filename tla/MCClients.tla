----------------------------- MODULE MCClients -----------------------------
(***************************************************************************)
(* A table of three bots.                                                  *)
(***************************************************************************)
EXTENDS MCTable3, ClientProperties

\* A taker who has no card to discard, with the fool in the dog.
MCBotDeal == {Deal({T1, T21}, {H2, S2}, {S14, H13}, Fool, 1)}

MCBotBids == {Bid(PASS, FALSE), Bid(GUARD, FALSE)}

\* Chat with one bot; the events of the lobby are for all of them.
MCChatTargets == {{u0}}

\* Two bots have joined and are about to read it; the third has just connected.
JoinedInit ==
  /\ engine = EngineCreateTable(0)
  /\ uuid = [p \in Places |-> <<u0, u1, INVALID_UID>>[p + 1]]
  /\ ack = NoAck
  /\ admin = u0
  /\ nbDeals \in 1..MaxDeals
  /\ score = ScoreNewGame(5)
  /\ sent = << >>
  /\ dealt = 0
  /\ leaves = 0
  /\ bot = [u \in Users |-> [NewBot EXCEPT !.connected = (u # u2)]]
  /\ inbox = [u \in Users |-> IF u = u2 THEN <<Message("RequestLogin", << >>)>>
                              ELSE <<Message("ReplyJoinTable", <<PlaceOf(u), {}>>)>>]
  /\ outbox = [u \in Users |-> << >>]
  /\ listed = {u0, u1}
  /\ news = 0

JoinedSpec == JoinedInit /\ [][ClientsNext]_clientVars /\ Delivery
=============================================================================
