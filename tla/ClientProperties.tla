-------------------------- MODULE ClientProperties --------------------------
(***************************************************************************)
(* What holds of a table and its bots together.                            *)
(***************************************************************************)
EXTENDS Clients

\* The taker holds too few cards that may be discarded.
NoDiscard ==
  /\ engine.seq = "DISCARD"
  /\ LET taker == engine.ctx.bid.taker
     IN  Cardinality({c \in engine.hands[taker] \cup CardsOf(engine.ctx.dog) : MayDiscard(c)})
           < NumberOfDogCards

\* The messages of the table, or of the login, among those that wait for a bot.
TableMail(u) == {i \in DOMAIN inbox[u] : inbox[u][i].cmd \notin Asides}

\* A bot that has nothing of the table to read and nothing on its way to it
\* knows the table: its hand is the one the engine has for its place, and
\* while cards are played its trick is the engine's.
BotKnowsTable ==
  \A u \in Users :
    LET b == bot[u]
    IN  TableMail(u) = {} /\ outbox[u] = << >> /\ b.place # NOWHERE =>
          /\ uuid[b.place] = u
          /\ engine.seq \in DealSteps /\ ~NoDiscard => b.deck = engine.hands[b.place]
          /\ engine.seq \in PlaySteps \cup {"START_DEAL", "END_OF_TRICK"} => b.trick = engine.trick

\* The table never refuses what a bot sends, although the bot decides from its
\* own copy of the hand, the dog and the trick, and other messages may be on
\* their way: the only exception is a taker who has no legal discard.
BotIsNeverRefused ==
  \A u \in Users :
    outbox[u] # << >> /\ Refuses(u, Head(outbox[u])) => NoDiscard

\* A bot that is asked for a card finds a valid one in its copy of the hand:
\* PlayerContext::ChooseRandomCard, which would otherwise send no card at all,
\* never comes to the end of the hand.
BotFindsCard ==
  \A u \in Users :
    Received(u, "PlayCard") /\ Head(inbox[u]).arg = bot[u].place =>
      \E c \in bot[u].deck : CanPlayCard(bot[u].deck, c, bot[u].trick)

\* The barrier keeps everybody together: a bot is at most two messages of the
\* table behind.  The events of the lobby and the chat, which share its
\* connection and which nobody acknowledges, may delay it by any number of
\* messages; they never let the table run further ahead.
BotKeepsUp == \A u \in Users : Cardinality(TableMail(u)) <= 2

\* With connections that deliver, bots that log in get their cards, and every
\* deal is played to its end and followed by another one, as many as the bound
\* on their number lets through; only a taker without a legal discard stops the
\* table.  Nothing else is assumed of the bots.
DealFollowsDeal == <>(dealt = MaxDealt \/ NoDiscard)

\* "Send the highest bid as argument: FIXME: not necessary, the Bot can remember
\* it" (Bot.cpp:359): a bot that is asked for a bid finds the same contracts too
\* low for what it remembers as for the highest bid that the table sends.
BotRemembersBid ==
  \A u \in Users :
    Received(u, "RequestBid") /\ Head(inbox[u]).arg[1] = bot[u].place =>
      \A c \in TAKE_BID..GUARD_AGAINST :
        c <= bot[u].bid <=> c <= Head(inbox[u]).arg[2]
=============================================================================
