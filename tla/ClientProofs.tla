---------------------------- MODULE ClientProofs ----------------------------
(***************************************************************************)
(* A table and its bots: what a bot knows, what is on its way to it and    *)
(* from it, and the step of the engine, for every deck, number of players  *)
(* and pace of the connections.                                            *)
(***************************************************************************)
EXTENDS ClientProperties, HandProofs

\* The fields of PlayerContext.
IsBot(b) ==
  DOMAIN b = {"connected", "place", "deck", "dog", "trick", "currentPlayer", "bid"}

\* Bot b at place p knows what it needs of engine e.
Knows(e, p, b) ==
  /\ b.place = p
  /\ e.seq \in DealSteps => b.deck = e.hands[p]
  /\ e.seq \in InPlay => b.trick = e.trick
  /\ e.seq \in {"SHOW_DOG", "DISCARD"} => b.dog = e.ctx.dog

\* Sequences of one and of two messages.
IsOne(q) == q # << >> /\ q = <<q[1]>>
IsTwo(q) == q # << >> /\ ~IsOne(q) /\ q = <<q[1], q[2]>>

\* The messages on their way to a bot: s are all of them, and q those that are
\* no asides, two at most, in the same order.
Carries(s, q) ==
  /\ \E S : s \in Seq(S)
  /\ \/ q = << >> /\ \A k \in DOMAIN s : s[k].cmd \in Asides
     \/ \E i \in DOMAIN s :
          /\ q = <<s[i]>> /\ s[i].cmd \notin Asides
          /\ \A k \in DOMAIN s : k # i => s[k].cmd \in Asides
     \/ \E i, j \in DOMAIN s :
          /\ i < j /\ q = <<s[i], s[j]>> /\ s[i].cmd \notin Asides /\ s[j].cmd \notin Asides
          /\ \A k \in DOMAIN s : k # i /\ k # j => s[k].cmd \in Asides

Wanted(s) == CHOOSE q : Carries(s, q)

\* What each bot has yet to read of the table.
wanted == [u \in Users |-> Wanted(inbox[u])]

BadAck == Message("Ack", "BadSeq")

\* A request for a bid or a card that is not for the player at p.
ForOthers(w, p) ==
  \/ w.cmd = "RequestBid" /\ w.arg[1] # p
  \/ w.cmd = "PlayCard" /\ w.arg # p

\* The news that a bot acknowledges at step s.
News(m, s) == m.cmd \in DOMAIN AckedStep /\ AckedStep[m.cmd] = s

\* What is on its way to the bot ends with the news of step s.
Reading(s, p, b, q) ==
  \/ IsOne(q) /\ News(q[1], s)
  \/ IsTwo(q) /\ ForOthers(q[1], p) /\ b.place = p /\ News(q[2], s)

\* What the bot knows once it has read all of it.
After(b, q) ==
  IF q = << >> THEN b
  ELSE IF IsOne(q) THEN Decode(b, q[1])
  ELSE Decode(Decode(b, q[1]), q[2])

\* A step that all acknowledge: the bot has done so, or its acknowledgement is
\* on its way, or the news is.
AtBarrier(e, a, p, b, q, o) ==
  \/ /\ q = << >> /\ o = << >> /\ Knows(e, p, b)
     /\ a \/ (e.seq = "PLAYERS" /\ AdminMode)
  \/ /\ ~a /\ q = << >> /\ Knows(e, p, b)
     /\ o \in {<<Message("Ack", e.seq)>>, <<BadAck, Message("Ack", e.seq)>>}
  \/ /\ ~a /\ Reading(e.seq, p, b, q) /\ Knows(e, p, After(b, q))
     /\ o \in {<< >>, <<BadAck>>}

\* The player that the table waits for, and what it asks him.
Waited(e) == IF e.seq = "DISCARD" THEN e.ctx.bid.taker ELSE e.currentPlayer

Question(e, m) ==
  CASE e.seq = "BID"         -> m.cmd = "RequestBid" /\ m.arg[1] = e.currentPlayer
    [] e.seq = "DISCARD"     -> m.cmd = "BuildDiscard"
    [] e.seq = "HANDLE"      -> m.cmd = "AskForHandle"
    [] e.seq = "PLAYED_CARD" -> m.cmd = "PlayCard" /\ m.arg = e.currentPlayer
    [] OTHER                 -> FALSE

\* The taker has no legal discard.
NoLegalDiscard(e) ==
  Cardinality({c \in e.hands[e.ctx.bid.taker] \cup CardsOf(e.ctx.dog) : MayDiscard(c)})
    < NumberOfDogCards

\* The discard of a bot: accepted, and gone from its hand, or impossible.
DiscardSent(e, p, b, o) ==
  /\ b.place = p
  /\ \/ \E d \in Discards :
          /\ o = <<Message("Discard", d), BadAck>>
          /\ TestDiscard(e.hands[p], d, e.ctx.dog)
          /\ b.deck = (e.hands[p] \cup CardsOf(e.ctx.dog)) \ CardsOf(d)
     \/ /\ NoLegalDiscard(e)
        /\ \/ /\ IsTwo(o) /\ o[2] = BadAck /\ o[1].cmd = "Discard"
              /\ ~TestDiscard(e.hands[p], o[1].arg, e.ctx.dog)
           \/ o \in {<<BadAck>>, << >>}

\* The card of a bot: valid, and gone from its hand.
CardSent(e, p, b, o) ==
  \E c \in Cards :
    /\ o = <<Message("Card", c)>>
    /\ CanPlayCard(e.hands[p], c, e.trick) = TRUE
    /\ b.place = p /\ b.deck = e.hands[p] \ {c} /\ b.trick = e.trick

BidSent(o) ==
  \E wish \in BidChoices : o = <<Message("ReplyBid", <<wish.contract, wish.slam>>)>>

Answer(e, p, b, o) ==
  \/ e.seq = "BID" /\ Knows(e, p, b) /\ BidSent(o)
  \/ e.seq = "DISCARD" /\ DiscardSent(e, p, b, o)
  \/ e.seq = "HANDLE" /\ Knows(e, p, b) /\ o = <<Message("Handle", << >>)>>
  \/ e.seq = "PLAYED_CARD" /\ CardSent(e, p, b, o)

\* A step in which the table waits for one player.
AtQuestion(e, p, b, q, o) ==
  \/ /\ p # Waited(e) /\ o = << >> /\ Knows(e, p, b)
     /\ q = << >> \/ (e.seq \in {"BID", "PLAYED_CARD"} /\ IsOne(q) /\ ForOthers(q[1], p))
  \/ /\ p = Waited(e) /\ o = << >> /\ Knows(e, p, b)
     /\ IsOne(q) /\ Question(e, q[1])
  \/ p = Waited(e) /\ q = << >> /\ Answer(e, p, b, o)

\* A king is called: a bot acknowledges the request and does nothing.
AtKingCall(e, p, b, q, o) ==
  /\ Knows(e, p, b)
  /\ \/ IsOne(q) /\ q[1].cmd = "RequestKingCall" /\ o = << >>
     \/ q = << >> /\ o \in {<<BadAck>>, << >>}

\* The bot at place p, the messages to it and from it, and the acknowledgement
\* a of its seat, are in keeping with engine e.
View(e, a, p, b, q, o) ==
  \/ e.seq \in AckSteps /\ AtBarrier(e, a, p, b, q, o)
  \/ e.seq \in {"BID", "DISCARD", "HANDLE", "PLAYED_CARD"} /\ AtQuestion(e, p, b, q, o)
  \/ e.seq = "KING_CALL" /\ AtKingCall(e, p, b, q, o)

\* A bot that has no seat is about to log in or to join.
Joining(b, q, o) ==
  /\ b.place = NOWHERE
  /\ \/ q = <<Message("RequestLogin", << >>)>> /\ o = << >>
     \/ q = << >> /\ o = <<Message("ReplyLogin", << >>)>>
     \/ q = <<Message("AccessGranted", << >>)>> /\ o = << >>
     \/ q = << >> /\ o = <<Message("RequestJoinTable", << >>)>>

\* With five players no bot calls a king, and the deal goes no further.
FiveSteps == {"PLAYERS", "READY", "CARDS", "BID", "SHOW_BID", "ALL_PASSED", "KING_CALL"}

\* The seats: a seat that has acknowledged is taken, and all are once the
\* players have been waited for.
SeatInv ==
  /\ \A p \in Places : ack[p] => uuid[p] # INVALID_UID
  /\ engine.seq # "PLAYERS" => \A p \in Places : uuid[p] # INVALID_UID
  /\ NbPlayers = 5 => engine.seq \in FiveSteps

BoxInv ==
  /\ DOMAIN bot = Users /\ DOMAIN inbox = Users /\ DOMAIN outbox = Users
  /\ \A u \in Users : IsBot(bot[u]) /\ Carries(inbox[u], wanted[u])
  /\ \A u \in Users : ~Seated(u) => Joining(bot[u], wanted[u], outbox[u])

ViewInv ==
  \A p \in Places : uuid[p] # INVALID_UID =>
    View(engine, ack[p], p, bot[uuid[p]], wanted[uuid[p]], outbox[uuid[p]])

ClientInv == SeatInv /\ BoxInv /\ ViewInv

-----------------------------------------------------------------------------
(* Short sequences. *)

\* What a queue of one or two messages is made of.
LEMMA ShortFacts ==
  ASSUME NEW x, NEW y
  PROVE  /\ IsOne(<<x>>) /\ IsTwo(<<x, y>>) /\ ~IsOne(<< >>) /\ ~IsTwo(<< >>)
         /\ ~IsOne(<<x, y>>) /\ ~IsTwo(<<x>>)
         /\ <<x>>[1] = x /\ <<x, y>>[1] = x /\ <<x, y>>[2] = y
         /\ <<x>> # << >> /\ <<x, y>> # << >> /\ <<x>> # <<x, y>>
         /\ Head(<<x>>) = x /\ Tail(<<x>>) = << >>
         /\ Head(<<x, y>>) = x /\ Tail(<<x, y>>) = <<y>>
         /\ Len(<<x>>) = 1 /\ Len(<<x, y>>) = 2 /\ Len(<< >>) = 0
<1>1. <<x>> \in Seq({x, y}) /\ <<x, y>> \in Seq({x, y}) /\ <<y>> \in Seq({x, y})
  OBVIOUS
<1>2. Len(<<x>>) = 1 /\ Len(<<x, y>>) = 2 /\ Len(<< >>) = 0
  OBVIOUS
<1>3. <<x>>[1] = x /\ <<x, y>>[1] = x /\ <<x, y>>[2] = y
  OBVIOUS
<1>4. <<x>> # << >> /\ <<x, y>> # << >> /\ <<x>> # <<x, y>>
  BY <1>2
<1>5. Head(<<x>>) = x /\ Tail(<<x>>) = << >>
  BY <1>1, <1>2
<1>6. Head(<<x, y>>) = x /\ Tail(<<x, y>>) = <<y>>
  BY <1>1, <1>2
<1>7. IsOne(<<x>>) /\ IsTwo(<<x, y>>) /\ ~IsOne(<< >>) /\ ~IsTwo(<< >>)
      /\ ~IsOne(<<x, y>>) /\ ~IsTwo(<<x>>)
  BY <1>3, <1>4 DEF IsOne, IsTwo
<1> QED
  BY <1>2, <1>3, <1>4, <1>5, <1>6, <1>7

\* The first message of a short queue, and the rest.
LEMMA QueueFacts ==
  ASSUME NEW q
  PROVE  /\ IsOne(q) => q # << >> /\ ~IsTwo(q) /\ Head(q) = q[1] /\ Tail(q) = << >>
         /\ IsTwo(q) => /\ q # << >> /\ ~IsOne(q) /\ Head(q) = q[1] /\ Tail(q) = <<q[2]>>
                        /\ IsOne(Tail(q)) /\ Tail(q)[1] = q[2] /\ Tail(q) # << >>
<1>1. CASE IsOne(q)
  <2>1. PICK x : q = <<x>>
    BY <1>1 DEF IsOne
  <2>2. Head(<<x>>) = x /\ Tail(<<x>>) = << >> /\ <<x>>[1] = x /\ <<x>> # << >> /\ ~IsTwo(<<x>>)
    BY ShortFacts
  <2>3. IsOne(<<x>>)
    BY ShortFacts
  <2> QED
    BY <2>1, <2>2, <2>3 DEF IsTwo
<1>2. CASE IsTwo(q)
  <2>1. PICK x, y : q = <<x, y>>
    BY <1>2 DEF IsTwo
  <2>2. /\ Head(<<x, y>>) = x /\ Tail(<<x, y>>) = <<y>> /\ <<x, y>>[1] = x /\ <<x, y>>[2] = y
        /\ <<x, y>> # << >> /\ ~IsOne(<<x, y>>)
    BY ShortFacts
  <2>3. IsOne(<<y>>) /\ <<y>>[1] = y /\ <<y>> # << >>
    BY ShortFacts
  <2> QED
    BY <2>1, <2>2, <2>3
<1> QED
  BY <1>1, <1>2

\* Putting short sequences together.
LEMMA JoinFacts ==
  ASSUME NEW x, NEW y
  PROVE  /\ << >> \o << >> = << >> /\ << >> \o <<x>> = <<x>> /\ <<x>> \o << >> = <<x>>
         /\ <<x>> \o <<y>> = <<x, y>> /\ << >> \o <<x, y>> = <<x, y>>
<1>1. <<x>> \in Seq({x, y}) /\ <<x, y>> \in Seq({x, y}) /\ <<y>> \in Seq({x, y})
      /\ << >> \in Seq({x, y})
  OBVIOUS
<1>2. << >> \o << >> = << >> /\ << >> \o <<x>> = <<x>> /\ <<x>> \o << >> = <<x>>
  BY <1>1
<1>3. <<x>> \o <<y>> = <<x, y>>
  <2> DEFINE t == <<x>> \o <<y>>
  <2>1. t \in Seq({x, y}) /\ Len(t) = 2 /\ t[1] = x /\ t[2] = y
    BY <1>1
  <2> HIDE DEF t
  <2>2. t = <<x, y>>
    BY <1>1, <2>1
  <2> QED
    BY <2>2 DEF t
<1>4. << >> \o <<x, y>> = <<x, y>>
  BY <1>1
<1> QED
  BY <1>2, <1>3, <1>4

-----------------------------------------------------------------------------
(* PlayerContext. *)

\* The same hand, dog, trick and place.
SameBot(b, c) ==
  c.place = b.place /\ c.deck = b.deck /\ c.dog = b.dog /\ c.trick = b.trick

\* Decode changes fields of a bot.
LEMMA DecodeIsBot == ASSUME NEW b, IsBot(b), NEW m PROVE IsBot(Decode(b, m))
BY DEF Decode, IsBot

\* Most messages leave what a bot knows of the table.
LEMMA DecodeQuiet ==
  ASSUME NEW b, IsBot(b), NEW m,
         m.cmd \notin {"ReplyJoinTable", "NewDeal", "ShowDog", "StartDeal", "ShowCard",
                       "EndOfTrick"}
  PROVE  SameBot(b, Decode(b, m))
BY DEF Decode, IsBot, SameBot

\* What the other messages tell.
LEMMA DecodeTells ==
  ASSUME NEW b, IsBot(b), NEW m
  PROVE  LET c == Decode(b, m)
         IN  /\ m.cmd = "ReplyJoinTable" =>
                  c.place = m.arg[1] /\ c.deck = m.arg[2] /\ c.dog = b.dog /\ c.trick = b.trick
             /\ m.cmd = "NewDeal" =>
                  c.place = b.place /\ c.deck = m.arg /\ c.dog = b.dog /\ c.trick = b.trick
             /\ m.cmd = "ShowDog" =>
                  c.place = b.place /\ c.deck = b.deck /\ c.dog = m.arg /\ c.trick = b.trick
             /\ m.cmd \in {"StartDeal", "EndOfTrick"} =>
                  c.place = b.place /\ c.deck = b.deck /\ c.dog = b.dog /\ c.trick = << >>
             /\ m.cmd = "ShowCard" =>
                  /\ c.place = b.place /\ c.deck = b.deck /\ c.dog = b.dog
                  /\ c.trick = Append(b.trick, m.arg[2])
BY DEF Decode, IsBot

\* Whose turn a request tells.
LEMMA DecodeTurn ==
  ASSUME NEW b, IsBot(b), NEW m
  PROVE  /\ m.cmd = "RequestBid" => Decode(b, m).currentPlayer = m.arg[1]
         /\ m.cmd = "PlayCard" => Decode(b, m).currentPlayer = m.arg
BY DEF Decode, IsBot

\* What a bot knows does not depend on the rest.
LEMMA SameKnows ==
  ASSUME NEW b, NEW c, SameBot(b, c), NEW e, NEW p
  PROVE  Knows(e, p, b) <=> Knows(e, p, c)
BY DEF SameBot, Knows

-----------------------------------------------------------------------------
(* Mail. *)

\* A queue that holds at most two messages.
Short(q) == q = << >> \/ IsOne(q) \/ IsTwo(q)

\* Nothing is added to a short queue by an empty mail.
LEMMA ShortKept == ASSUME NEW q, Short(q) PROVE q \o << >> = q
<1>1. ASSUME NEW x, NEW y PROVE <<x, y>> \o << >> = <<x, y>>
  <2>1. <<x, y>> \in Seq({x, y})
    OBVIOUS
  <2> QED
    BY <2>1
<1>2. CASE q = << >>
  BY <1>2, JoinFacts
<1>3. CASE IsOne(q)
  BY <1>3, JoinFacts DEF IsOne
<1>4. CASE IsTwo(q)
  BY <1>4, <1>1 DEF IsTwo
<1> QED
  BY <1>2, <1>3, <1>4 DEF Short

\* Two indices at most carry a message that is no aside.
LEMMA CarriesCount ==
  ASSUME NEW s, NEW q, Carries(s, q)
  PROVE  LET T == {i \in DOMAIN s : s[i].cmd \notin Asides}
         IN  /\ IsFiniteSet(T) /\ Cardinality(T) <= 2
             /\ T = {} => q = << >>
<1> DEFINE T == {i \in DOMAIN s : s[i].cmd \notin Asides}
<1> SUFFICES IsFiniteSet(T) /\ Cardinality(T) <= 2 /\ (T = {} => q = << >>)
  OBVIOUS
<1>1. CASE q = << >> /\ \A k \in DOMAIN s : s[k].cmd \in Asides
  <2>1. T = {}
    BY <1>1
  <2> HIDE DEF T
  <2> QED
    BY <1>1, <2>1, FS_EmptySet
<1>2. CASE \E i \in DOMAIN s : /\ q = <<s[i]>> /\ s[i].cmd \notin Asides
                              /\ \A k \in DOMAIN s : k # i => s[k].cmd \in Asides
  <2>1. PICK i \in DOMAIN s : /\ s[i].cmd \notin Asides
                              /\ \A k \in DOMAIN s : k # i => s[k].cmd \in Asides
    BY <1>2
  <2>2. T = {i}
    BY <2>1
  <2> HIDE DEF T
  <2>3. IsFiniteSet({i}) /\ Cardinality({i}) = 1
    BY FS_Singleton
  <2> QED
    BY <2>2, <2>3
<1>3. CASE \E i, j \in DOMAIN s :
             /\ i < j /\ q = <<s[i], s[j]>> /\ s[i].cmd \notin Asides /\ s[j].cmd \notin Asides
             /\ \A k \in DOMAIN s : k # i /\ k # j => s[k].cmd \in Asides
  <2>1. PICK i, j \in DOMAIN s :
          /\ s[i].cmd \notin Asides /\ s[j].cmd \notin Asides
          /\ \A k \in DOMAIN s : k # i /\ k # j => s[k].cmd \in Asides
    BY <1>3
  <2>2. T = {i} \cup {j}
    BY <2>1
  <2> HIDE DEF T
  <2>3. IsFiniteSet({i}) /\ Cardinality({i}) = 1 /\ IsFiniteSet({j}) /\ Cardinality({j}) = 1
    BY FS_Singleton
  <2>4. IsFiniteSet({i} \cap {j}) /\ Cardinality({i} \cap {j}) \in Nat
    BY <2>3, FS_Subset, FS_CardinalityType
  <2>5. /\ IsFiniteSet({i} \cup {j})
        /\ Cardinality({i} \cup {j})
             = Cardinality({i}) + Cardinality({j}) - Cardinality({i} \cap {j})
    BY <2>3, FS_Union
  <2>6. T # {}
    BY <2>2
  <2>7. Cardinality({i} \cup {j}) <= 2
    BY <2>3, <2>4, <2>5
  <2> QED
    BY <2>2, <2>5, <2>6, <2>7
<1> HIDE DEF T
<1> QED
  BY <1>1, <1>2, <1>3 DEF Carries

\* There is no doubt about them.
LEMMA WantedIs == ASSUME NEW s, NEW q, Carries(s, q) PROVE Wanted(s) = q
<1> SUFFICES ASSUME NEW r, Carries(s, r) PROVE q = r
  BY DEF Wanted
<1>1. PICK S : s \in Seq(S)
  BY DEF Carries
<1>2. DOMAIN s \subseteq Nat
  BY <1>1
<1> QED
  BY <1>2 DEF Carries

\* Few messages.
LEMMA CarriesFew ==
  /\ Carries(<< >>, << >>)
  /\ \A m : m.cmd \notin Asides => Carries(<<m>>, <<m>>)
  /\ \A m : m.cmd \in Asides => Carries(<<m>>, << >>)
  /\ \A m, n : m.cmd \notin Asides /\ n.cmd \in Asides => Carries(<<m, n>>, <<m>>)
<1>1. Carries(<< >>, << >>)
  BY DEF Carries
<1>2. ASSUME NEW m PROVE /\ DOMAIN <<m>> = {1} /\ <<m>>[1] = m /\ <<m>> \in Seq({m})
  OBVIOUS
<1>3. ASSUME NEW m, NEW n
      PROVE  /\ DOMAIN <<m, n>> = {1, 2} /\ <<m, n>>[1] = m /\ <<m, n>>[2] = n
             /\ <<m, n>> \in Seq({m, n})
  OBVIOUS
<1>4. ASSUME NEW m, m.cmd \notin Asides PROVE Carries(<<m>>, <<m>>)
  <2> DEFINE s == <<m>>
  <2>1. DOMAIN s = {1} /\ s[1] = m /\ s \in Seq({m}) /\ <<m>> = <<s[1]>>
    BY <1>2
  <2> HIDE DEF s
  <2> QED
    BY <1>4, <2>1 DEF Carries, s
<1>5. ASSUME NEW m, m.cmd \in Asides PROVE Carries(<<m>>, << >>)
  <2> DEFINE s == <<m>>
  <2>1. DOMAIN s = {1} /\ s[1] = m /\ s \in Seq({m})
    BY <1>2
  <2> HIDE DEF s
  <2>2. Carries(s, << >>)
    BY <1>5, <2>1 DEF Carries
  <2> QED
    BY <2>2 DEF s
<1>6. ASSUME NEW m, NEW n, m.cmd \notin Asides, n.cmd \in Asides PROVE Carries(<<m, n>>, <<m>>)
  <2> DEFINE s == <<m, n>>
  <2>1. DOMAIN s = {1, 2} /\ s[1] = m /\ s[2] = n /\ s \in Seq({m, n}) /\ <<m>> = <<s[1]>>
    BY <1>3
  <2> HIDE DEF s
  <2>2. Carries(s, <<m>>)
    BY <1>6, <2>1 DEF Carries
  <2> QED
    BY <2>2 DEF s
<1> QED
  BY <1>1, <1>4, <1>5, <1>6

\* A queue that carries the messages of two queues, in their order.
LEMMA CarriesJoin ==
  ASSUME NEW s, NEW q, Carries(s, q), NEW t, NEW r, Carries(t, r), Short(q \o r)
  PROVE  Carries(s \o t, q \o r)
<1> DEFINE w == s \o t
           n == Len(s)
           l == Len(t)
<1>1. PICK S : s \in Seq(S)
  BY DEF Carries
<1>2. PICK T : t \in Seq(T)
  BY DEF Carries
<1>3. s \in Seq(S \cup T) /\ t \in Seq(S \cup T)
  BY <1>1, <1>2
<1>4. /\ w \in Seq(S \cup T) /\ n \in Nat /\ l \in Nat
      /\ DOMAIN s = 1..n /\ DOMAIN t = 1..l /\ DOMAIN w = 1..(n + l)
      /\ \A k \in 1..n : w[k] = s[k]
      /\ \A k \in 1..l : w[n + k] = t[k]
  BY <1>3
<1> HIDE DEF w, n, l
<1>5. \E V : w \in Seq(V)
  BY <1>4
<1>6. \A k \in DOMAIN s : k \in DOMAIN w /\ w[k] = s[k]
  BY <1>4
<1>7. \A k \in DOMAIN t : n + k \in DOMAIN w /\ w[n + k] = t[k]
  BY <1>4
<1>8. \A k \in DOMAIN w : k \in DOMAIN s \/ (\E c \in DOMAIN t : k = n + c)
  <2> SUFFICES ASSUME NEW k \in DOMAIN w, k \notin DOMAIN s PROVE k - n \in DOMAIN t /\ k = n + (k - n)
    OBVIOUS
  <2> QED
    BY <1>4
<1>9. /\ \A i \in DOMAIN s, j \in DOMAIN t : i < n + j
      /\ \A i, j \in DOMAIN t : i < j => n + i < n + j
      /\ \A i, j \in DOMAIN t : n + i = n + j => i = j
  BY <1>4
<1>10. ASSUME NEW v, Short(v) PROVE Len(v) \in {0, 1, 2}
  <2>1. \A x, y : Len(<<x>>) = 1 /\ Len(<<x, y>>) = 2 /\ Len(<< >>) = 0
    BY ShortFacts
  <2>2. CASE v = << >>
    BY <2>1, <2>2
  <2>3. CASE IsOne(v)
    BY <2>1, <2>3 DEF IsOne
  <2>4. CASE IsTwo(v)
    BY <2>1, <2>4 DEF IsTwo
  <2> QED
    BY <1>10, <2>2, <2>3, <2>4 DEF Short
<1>11. ASSUME NEW x, NEW y, NEW z, NEW v
       PROVE  /\ Len(<<x>> \o <<y, z>>) = 3 /\ Len(<<x, y>> \o <<z>>) = 3
              /\ Len(<<x, y>> \o <<z, v>>) = 4
  OBVIOUS
<1>12. CASE q = << >> /\ \A k \in DOMAIN s : s[k].cmd \in Asides
  <2>1. q \o r = r
    <3>1. r = << >> \/ (\E x : r = <<x>>) \/ (\E x, y : r = <<x, y>>)
      BY DEF Carries
    <3> QED
      BY <1>12, <3>1, JoinFacts
  <2>2. CASE r = << >> /\ \A k \in DOMAIN t : t[k].cmd \in Asides
    <3>1. \A k \in DOMAIN w : w[k].cmd \in Asides
      BY <1>6, <1>7, <1>8, <1>12, <2>2
    <3> QED
      BY <1>5, <2>1, <2>2, <3>1 DEF Carries, w
  <2>3. ASSUME NEW i \in DOMAIN t, r = <<t[i]>>, t[i].cmd \notin Asides,
               \A k \in DOMAIN t : k # i => t[k].cmd \in Asides
        PROVE  Carries(w, r)
    <3>1. n + i \in DOMAIN w /\ w[n + i] = t[i]
      BY <1>7, <2>3
    <3>2. \A k \in DOMAIN w : k # n + i => w[k].cmd \in Asides
      BY <1>6, <1>7, <1>8, <1>12, <2>3
    <3> QED
      BY <1>5, <2>3, <3>1, <3>2 DEF Carries
  <2>4. ASSUME NEW i \in DOMAIN t, NEW j \in DOMAIN t, i < j, r = <<t[i], t[j]>>,
               t[i].cmd \notin Asides, t[j].cmd \notin Asides,
               \A k \in DOMAIN t : k # i /\ k # j => t[k].cmd \in Asides
        PROVE  Carries(w, r)
    <3>1. /\ n + i \in DOMAIN w /\ w[n + i] = t[i]
          /\ n + j \in DOMAIN w /\ w[n + j] = t[j] /\ n + i < n + j
      BY <1>7, <1>9, <2>4
    <3>2. \A k \in DOMAIN w : k # n + i /\ k # n + j => w[k].cmd \in Asides
      BY <1>6, <1>7, <1>8, <1>12, <2>4
    <3> QED
      BY <1>5, <2>4, <3>1, <3>2 DEF Carries
  <2> QED
    BY <2>1, <2>2, <2>3, <2>4 DEF Carries, w
<1>13. ASSUME NEW i \in DOMAIN s, q = <<s[i]>>, s[i].cmd \notin Asides,
              \A k \in DOMAIN s : k # i => s[k].cmd \in Asides
       PROVE  Carries(w, q \o r)
  <2>1. i \in DOMAIN w /\ w[i] = s[i]
    BY <1>6, <1>13
  <2>2. CASE r = << >> /\ \A k \in DOMAIN t : t[k].cmd \in Asides
    <3>1. q \o r = <<w[i]>>
      BY <1>13, <2>1, <2>2, JoinFacts
    <3>2. \A k \in DOMAIN w : k # i => w[k].cmd \in Asides
      BY <1>6, <1>7, <1>8, <1>13, <2>2
    <3> QED
      BY <1>5, <1>13, <2>1, <3>1, <3>2 DEF Carries
  <2>3. ASSUME NEW j \in DOMAIN t, r = <<t[j]>>, t[j].cmd \notin Asides,
               \A k \in DOMAIN t : k # j => t[k].cmd \in Asides
        PROVE  Carries(w, q \o r)
    <3>1. n + j \in DOMAIN w /\ w[n + j] = t[j] /\ i < n + j
      BY <1>7, <1>9, <1>13, <2>3
    <3>2. q \o r = <<w[i], w[n + j]>>
      BY <1>13, <2>1, <2>3, <3>1, JoinFacts
    <3>3. \A k \in DOMAIN w : k # i /\ k # n + j => w[k].cmd \in Asides
      BY <1>6, <1>7, <1>8, <1>13, <2>3
    <3> QED
      BY <1>5, <1>13, <2>1, <2>3, <3>1, <3>2, <3>3 DEF Carries
  <2>4. ASSUME NEW x, NEW y, r = <<x, y>> PROVE FALSE
    <3>1. q \o r = <<s[i]>> \o <<x, y>>
      BY <1>13, <2>4
    <3>2. Len(q \o r) \in {0, 1, 2}
      BY <1>10
    <3> QED
      BY <1>11, <3>1, <3>2
  <2> QED
    BY <2>2, <2>3, <2>4 DEF Carries
<1>14. ASSUME NEW i \in DOMAIN s, NEW j \in DOMAIN s, i < j, q = <<s[i], s[j]>>,
              s[i].cmd \notin Asides, s[j].cmd \notin Asides,
              \A k \in DOMAIN s : k # i /\ k # j => s[k].cmd \in Asides
       PROVE  Carries(w, q \o r)
  <2>1. ASSUME NEW x, NEW y, r = <<x>> \/ r = <<x, y>> PROVE FALSE
    <3>1. q \o r \in {<<s[i], s[j]>> \o <<x>>, <<s[i], s[j]>> \o <<x, y>>}
      BY <1>14, <2>1
    <3>2. Len(q \o r) \in {0, 1, 2}
      BY <1>10
    <3> QED
      BY <1>11, <3>1, <3>2
  <2>2. r = << >> /\ \A k \in DOMAIN t : t[k].cmd \in Asides
    BY <2>1 DEF Carries
  <2>3. i \in DOMAIN w /\ w[i] = s[i] /\ j \in DOMAIN w /\ w[j] = s[j]
    BY <1>6, <1>14
  <2>4. q \o r = <<w[i], w[j]>>
    <3>1. Short(q)
      BY <1>14, ShortFacts DEF Short
    <3> QED
      BY <1>14, <2>2, <2>3, <3>1, ShortKept
  <2>5. \A k \in DOMAIN w : k # i /\ k # j => w[k].cmd \in Asides
    BY <1>6, <1>7, <1>8, <1>14, <2>2
  <2> QED
    BY <1>5, <1>14, <2>3, <2>4, <2>5 DEF Carries
<1> QED
  BY <1>12, <1>13, <1>14 DEF Carries, w

\* The first message is read.
LEMMA CarriesTail ==
  ASSUME NEW s, NEW q, Carries(s, q), s # << >>
  PROVE  /\ Head(s).cmd \in Asides => Carries(Tail(s), q)
         /\ Head(s).cmd \notin Asides =>
              q # << >> /\ Head(q) = Head(s) /\ Carries(Tail(s), Tail(q))
<1> DEFINE w == Tail(s)
           n == Len(s)
<1>1. PICK S : s \in Seq(S)
  BY DEF Carries
<1>2. /\ w \in Seq(S) /\ n \in Nat \ {0} /\ Head(s) = s[1]
      /\ DOMAIN s = 1..n /\ DOMAIN w = 1..(n - 1)
      /\ \A k \in 1..(n - 1) : w[k] = s[k + 1]
  BY <1>1
<1> HIDE DEF w, n
<1>3. \A k \in DOMAIN s : k # 1 => k - 1 \in DOMAIN w /\ w[k - 1] = s[k]
  BY <1>2
<1>4. \A k \in DOMAIN w : k + 1 \in DOMAIN s /\ k + 1 # 1 /\ w[k] = s[k + 1] /\ k = (k + 1) - 1
  BY <1>2
<1>5. (\E V : w \in Seq(V)) /\ 1 \in DOMAIN s /\ Head(s) = s[1]
  BY <1>2
<1>6. \A i, j \in DOMAIN s : i < j => j # 1 /\ i - 1 < j - 1
  BY <1>2
<1>7. CASE q = << >> /\ \A k \in DOMAIN s : s[k].cmd \in Asides
  <2>1. Head(s).cmd \in Asides /\ \A k \in DOMAIN w : w[k].cmd \in Asides
    BY <1>4, <1>5, <1>7
  <2> QED
    BY <1>5, <1>7, <2>1 DEF Carries, w
<1>8. ASSUME NEW i \in DOMAIN s, q = <<s[i]>>, s[i].cmd \notin Asides,
             \A k \in DOMAIN s : k # i => s[k].cmd \in Asides
      PROVE  /\ Head(s).cmd \in Asides => Carries(w, q)
             /\ Head(s).cmd \notin Asides => q # << >> /\ Head(q) = Head(s) /\ Carries(w, Tail(q))
  <2>1. CASE i = 1
    <3>1. q # << >> /\ Head(q) = s[1] /\ Tail(q) = << >>
      BY <1>8, <2>1, ShortFacts
    <3>2. \A k \in DOMAIN w : w[k].cmd \in Asides
      BY <1>4, <1>8, <2>1
    <3> QED
      BY <1>5, <1>8, <2>1, <3>1, <3>2 DEF Carries
  <2>2. CASE i # 1
    <3>1. i - 1 \in DOMAIN w /\ w[i - 1] = s[i] /\ Head(s).cmd \in Asides
      BY <1>3, <1>5, <1>8, <2>2
    <3>2. \A k \in DOMAIN w : k # i - 1 => w[k].cmd \in Asides
      BY <1>4, <1>8
    <3> QED
      BY <1>5, <1>8, <3>1, <3>2 DEF Carries
  <2> QED
    BY <2>1, <2>2
<1>9. ASSUME NEW i \in DOMAIN s, NEW j \in DOMAIN s, i < j, q = <<s[i], s[j]>>,
             s[i].cmd \notin Asides, s[j].cmd \notin Asides,
             \A k \in DOMAIN s : k # i /\ k # j => s[k].cmd \in Asides
      PROVE  /\ Head(s).cmd \in Asides => Carries(w, q)
             /\ Head(s).cmd \notin Asides => q # << >> /\ Head(q) = Head(s) /\ Carries(w, Tail(q))
  <2>1. j # 1 /\ j - 1 \in DOMAIN w /\ w[j - 1] = s[j]
    BY <1>3, <1>6, <1>9
  <2>2. CASE i = 1
    <3>1. q # << >> /\ Head(q) = s[1] /\ Tail(q) = <<w[j - 1]>>
      BY <1>9, <2>1, <2>2, ShortFacts
    <3>2. \A k \in DOMAIN w : k # j - 1 => w[k].cmd \in Asides
      BY <1>4, <1>9, <2>2
    <3> QED
      BY <1>5, <1>9, <2>1, <2>2, <3>1, <3>2 DEF Carries
  <2>3. CASE i # 1
    <3>1. i - 1 \in DOMAIN w /\ w[i - 1] = s[i] /\ i - 1 < j - 1
      BY <1>3, <1>6, <1>9, <2>3
    <3>2. Head(s).cmd \in Asides
      BY <1>5, <1>9, <2>1, <2>3
    <3>3. \A k \in DOMAIN w : k # i - 1 /\ k # j - 1 => w[k].cmd \in Asides
      BY <1>4, <1>9
    <3> QED
      BY <1>5, <1>9, <2>1, <3>1, <3>2, <3>3 DEF Carries
  <2> QED
    BY <2>2, <2>3
<1> QED
  BY <1>7, <1>8, <1>9 DEF Carries, w

\* They are few.
LEMMA CarriesShort == ASSUME NEW s, NEW q, Carries(s, q) PROVE Short(q)
<1>1. \A x, y : IsOne(<<x>>) /\ IsTwo(<<x, y>>)
  BY ShortFacts
<1>2. q = << >> \/ (\E x : q = <<x>>) \/ (\E x, y : q = <<x, y>>)
  BY DEF Carries
<1> QED
  BY <1>1, <1>2 DEF Short

\* A bot's queue after the step, once it is known what it carries.
LEMMA WantedNext ==
  ASSUME NEW u \in Users, NEW q, Carries(inbox'[u], q)
  PROVE  wanted'[u] = q /\ Carries(inbox'[u], wanted'[u])
<1>1. wanted'[u] = Wanted(inbox'[u])
  BY DEF wanted
<1>2. Wanted(inbox'[u]) = q
  BY WantedIs
<1> QED
  BY <1>1, <1>2

\* The mail of u carries r.
LEMMA Delivered ==
  ASSUME ClientInv, NEW replies, Deliver(replies), NEW u \in Users, NEW r,
         Carries(Mail(u, replies), r), Short(wanted[u] \o r)
  PROVE  wanted'[u] = wanted[u] \o r /\ Carries(inbox'[u], wanted'[u])
<1>1. inbox'[u] = inbox[u] \o Mail(u, replies)
  BY DEF Deliver
<1>2. Carries(inbox[u], wanted[u])
  BY DEF ClientInv, BoxInv
<1>3. Carries(inbox'[u], wanted[u] \o r)
  BY <1>1, <1>2, CarriesJoin
<1> QED
  BY <1>3, WantedNext

\* Replies that do not name a user bring nothing.
LEMMA NoMail ==
  ASSUME NEW u, NEW replies, Letters(u, replies) = {}
  PROVE  Mail(u, replies) = << >>
<1>1. Cardinality(Letters(u, replies)) = 0
  BY FS_EmptySet
<1> QED
  BY <1>1 DEF Mail

\* One reply that names him brings one message.
LEMMA OneMail ==
  ASSUME NEW u, NEW replies, NEW i, Letters(u, replies) = {i}, i <= i
  PROVE  Mail(u, replies) = <<Message(replies[i].cmd, replies[i].arg)>>
<1>1. Cardinality({i}) = 1 /\ {j \in {i} : j <= i} = {i}
  BY FS_Singleton
<1>2. NthOf({i}, 1) = i
  BY <1>1 DEF NthOf
<1>3. 1..1 = {1}
  OBVIOUS
<1>4. Mail(u, replies) =
        [k \in 1..1 |-> Message(replies[NthOf({i}, k)].cmd, replies[NthOf({i}, k)].arg)]
  BY <1>1 DEF Mail
<1>5. Mail(u, replies) = [k \in {1} |-> Message(replies[i].cmd, replies[i].arg)]
  BY <1>2, <1>3, <1>4
<1> QED
  BY <1>3, <1>5

\* The replies of most requests are one or none.
LEMMA FewReplies ==
  ASSUME NEW u
  PROVE  /\ Mail(u, << >>) = << >>
         /\ \A r : Mail(u, <<r>>) = IF u \in r.to THEN <<Message(r.cmd, r.arg)>> ELSE << >>
<1>1. Letters(u, << >>) = {}
  BY DEF Letters
<1>2. Mail(u, << >>) = << >>
  BY <1>1, NoMail
<1>3. ASSUME NEW r
      PROVE  Mail(u, <<r>>) = IF u \in r.to THEN <<Message(r.cmd, r.arg)>> ELSE << >>
  <2>1. DOMAIN <<r>> = {1} /\ <<r>>[1] = r
    OBVIOUS
  <2>2. CASE u \in r.to
    <3>1. Letters(u, <<r>>) = {1}
      BY <2>1, <2>2 DEF Letters
    <3> QED
      BY <2>1, <2>2, <3>1, OneMail
  <2>3. CASE u \notin r.to
    <3>1. Letters(u, <<r>>) = {}
      BY <2>1, <2>3 DEF Letters
    <3> QED
      BY <2>3, <3>1, NoMail
  <2> QED
    BY <2>2, <2>3
<1> QED
  BY <1>2, <1>3

\* A login and a seat are answered with two replies.
LEMMA TwoReplies ==
  ASSUME NEW u, NEW r, NEW t
  PROVE  LET m == Message(r.cmd, r.arg)
             n == Message(t.cmd, t.arg)
         IN  /\ u \in r.to /\ u \in t.to => Mail(u, <<r, t>>) = <<m, n>>
             /\ u \in r.to /\ u \notin t.to => Mail(u, <<r, t>>) = <<m>>
             /\ u \notin r.to /\ u \in t.to => Mail(u, <<r, t>>) = <<n>>
             /\ u \notin r.to /\ u \notin t.to => Mail(u, <<r, t>>) = << >>
<1> DEFINE m == Message(r.cmd, r.arg)
           n == Message(t.cmd, t.arg)
           rs == <<r, t>>
<1>1. DOMAIN rs = {1, 2} /\ rs[1] = r /\ rs[2] = t
  OBVIOUS
<1> HIDE DEF rs
<1>2. Letters(u, rs) = {i \in {1, 2} : u \in rs[i].to}
  BY <1>1 DEF Letters
<1>3. ASSUME u \in r.to, u \in t.to PROVE Mail(u, rs) = <<m, n>>
  <2>1. Letters(u, rs) = {1, 2}
    BY <1>1, <1>2, <1>3
  <2>2. Cardinality({1, 2}) = 2 /\ Cardinality({1}) = 1
    <3>1. 1 # 2 /\ IsFiniteSet({1}) /\ Cardinality({1}) = 1 /\ 2 \notin {1}
      BY FS_Singleton
    <3>2. Cardinality({1} \cup {2}) = Cardinality({1}) + 1
      BY <3>1, FS_AddElement
    <3>3. {1} \cup {2} = {1, 2}
      OBVIOUS
    <3> QED
      BY <3>1, <3>2, <3>3
  <2>3. {j \in {1, 2} : j <= 1} = {1} /\ {j \in {1, 2} : j <= 2} = {1, 2}
    OBVIOUS
  <2>4. NthOf({1, 2}, 1) = 1 /\ NthOf({1, 2}, 2) = 2
    <3>1. \A i \in {1, 2} : Cardinality({j \in {1, 2} : j <= i}) = i
      BY <2>2, <2>3
    <3> QED
      BY <3>1 DEF NthOf
  <2>5. 1..2 = {1, 2}
    OBVIOUS
  <2>6. Mail(u, rs) = [k \in 1..2 |-> Message(rs[NthOf({1, 2}, k)].cmd, rs[NthOf({1, 2}, k)].arg)]
    BY <2>1, <2>2 DEF Mail
  <2>7. Mail(u, rs) \in Seq({m, n}) /\ Len(Mail(u, rs)) = 2
        /\ Mail(u, rs)[1] = m /\ Mail(u, rs)[2] = n
    BY <1>1, <2>4, <2>5, <2>6
  <2>8. <<m, n>> \in Seq({m, n}) /\ Len(<<m, n>>) = 2 /\ <<m, n>>[1] = m /\ <<m, n>>[2] = n
    OBVIOUS
  <2> HIDE DEF m, n
  <2> QED
    BY <2>7, <2>8
<1>4. ASSUME u \in r.to, u \notin t.to PROVE Mail(u, rs) = <<m>>
  <2>1. Letters(u, rs) = {1}
    BY <1>1, <1>2, <1>4
  <2> QED
    BY <1>1, <2>1, OneMail
<1>5. ASSUME u \notin r.to, u \in t.to PROVE Mail(u, rs) = <<n>>
  <2>1. Letters(u, rs) = {2}
    BY <1>1, <1>2, <1>5
  <2> QED
    BY <1>1, <2>1, OneMail
<1>6. ASSUME u \notin r.to, u \notin t.to PROVE Mail(u, rs) = << >>
  <2>1. Letters(u, rs) = {}
    BY <1>1, <1>2, <1>6
  <2> QED
    BY <2>1, NoMail
<1> QED
  BY <1>3, <1>4, <1>5, <1>6 DEF rs

\* A reply to all players reaches whoever is seated, and nobody else.
LEMMA MailToAll ==
  ASSUME NEW u \in Users, NEW cmd, NEW arg
  PROVE  /\ Seated(u) => Mail(u, <<SendToAllPlayers(cmd, arg)>>) = <<Message(cmd, arg)>>
         /\ ~Seated(u) => Mail(u, <<SendToAllPlayers(cmd, arg)>>) = << >>
<1> DEFINE r == SendToAllPlayers(cmd, arg)
<1>1. r.cmd = cmd /\ r.arg = arg /\ (u \in r.to <=> Seated(u))
  BY TableAssumption DEF SendToAllPlayers, Reply, Seated
<1> HIDE DEF r
<1>2. Mail(u, <<r>>) = IF u \in r.to THEN <<Message(r.cmd, r.arg)>> ELSE << >>
  BY FewReplies
<1> QED
  BY <1>1, <1>2 DEF r

\* A reply to one user reaches him, and nobody else.
LEMMA MailToOne ==
  ASSUME NEW u, NEW cmd, NEW arg
  PROVE  Mail(u, <<Reply({u}, cmd, arg)>>) = <<Message(cmd, arg)>>
<1> DEFINE r == Reply({u}, cmd, arg)
<1>1. r.cmd = cmd /\ r.arg = arg /\ r.to = {u}
  BY DEF Reply
<1> HIDE DEF r
<1>2. Mail(u, <<r>>) = IF u \in r.to THEN <<Message(r.cmd, r.arg)>> ELSE << >>
  BY FewReplies
<1> QED
  BY <1>1, <1>2 DEF r

\* A reply to somebody else.
LEMMA MailToAnother ==
  ASSUME NEW u, NEW v, u # v, NEW cmd, NEW arg
  PROVE  Mail(u, <<Reply({v}, cmd, arg)>>) = << >>
<1> DEFINE r == Reply({v}, cmd, arg)
<1>1. r.to = {v}
  BY DEF Reply
<1> HIDE DEF r
<1>2. Mail(u, <<r>>) = IF u \in r.to THEN <<Message(r.cmd, r.arg)>> ELSE << >>
  BY FewReplies
<1> QED
  BY <1>1, <1>2 DEF r

\* PlayingTable::NewDeal gives each player the cards of his place.
LEMMA MailOfCards ==
  ASSUME Inv, NEW p \in Places, uuid[p] # INVALID_UID, NEW e
  PROVE  Mail(uuid[p], SendCards(e)) = <<Message("NewDeal", e.hands[p])>>
<1> DEFINE replies == SendCards(e)
<1>1. DOMAIN replies = 1..NbPlayers /\ p + 1 \in 1..NbPlayers /\ p + 1 <= p + 1
  BY TarotAssumption DEF SendCards, Places
<1>2. \A i \in 1..NbPlayers : replies[i] = Reply({uuid[i - 1]}, "NewDeal", e.hands[i - 1])
  BY DEF SendCards
<1>3. \A i \in 1..NbPlayers : uuid[i - 1] = uuid[p] => i = p + 1
  <2>1. ASSUME NEW i \in 1..NbPlayers PROVE i - 1 \in Places /\ (i - 1 = p => i = p + 1)
    BY TarotAssumption DEF Places
  <2>2. \A q \in Places : uuid[q] = uuid[p] => q = p
    BY DEF Inv, TableInv, AckInv
  <2> QED
    BY <2>1, <2>2
<1> HIDE DEF replies
<1>4. \A i \in 1..NbPlayers : replies[i].to = {uuid[i - 1]}
  <2> SUFFICES ASSUME NEW i \in 1..NbPlayers PROVE replies[i].to = {uuid[i - 1]}
    OBVIOUS
  <2>1. Reply({uuid[i - 1]}, "NewDeal", e.hands[i - 1]).to = {uuid[i - 1]}
    BY DEF Reply
  <2> QED
    BY <1>2, <2>1
<1>5. (p + 1) - 1 = p
  BY TarotAssumption DEF Places
<1>6. replies[p + 1] = Reply({uuid[p]}, "NewDeal", e.hands[p])
  <2>1. replies[p + 1] = Reply({uuid[(p + 1) - 1]}, "NewDeal", e.hands[(p + 1) - 1])
    BY <1>1, <1>2
  <2> QED
    BY <1>5, <2>1
<1>7. Letters(uuid[p], replies) = {p + 1}
  <2>1. \A i \in 1..NbPlayers : uuid[p] \in replies[i].to => i = p + 1
    BY <1>3, <1>4
  <2>2. uuid[p] \in replies[p + 1].to
    BY <1>6 DEF Reply
  <2> QED
    BY <1>1, <2>1, <2>2 DEF Letters
<1>8. Mail(uuid[p], replies) = <<Message(replies[p + 1].cmd, replies[p + 1].arg)>>
  BY <1>1, <1>7, OneMail
<1>9. Mail(uuid[p], replies) = <<Message("NewDeal", e.hands[p])>>
  BY <1>6, <1>8 DEF Reply
<1> QED
  BY <1>9 DEF replies

\* A user without a seat gets no cards.
LEMMA NoCards ==
  ASSUME NEW u, ~Seated(u), NEW e
  PROVE  Mail(u, SendCards(e)) = << >>
<1> DEFINE replies == SendCards(e)
<1>1. DOMAIN replies = 1..NbPlayers
  BY DEF SendCards
<1>2. \A i \in 1..NbPlayers : replies[i] = Reply({uuid[i - 1]}, "NewDeal", e.hands[i - 1])
  BY DEF SendCards
<1> HIDE DEF replies
<1>3. ASSUME NEW i \in 1..NbPlayers PROVE u \notin replies[i].to
  <2>1. Reply({uuid[i - 1]}, "NewDeal", e.hands[i - 1]).to = {uuid[i - 1]}
    BY DEF Reply
  <2>2. i - 1 \in Places
    BY TarotAssumption DEF Places
  <2> QED
    BY <1>2, <2>1, <2>2 DEF Seated
<1>4. Letters(u, replies) = {}
  BY <1>1, <1>3 DEF Letters
<1> QED
  BY <1>4, NoMail DEF replies

-----------------------------------------------------------------------------
(* Bot::HandleRequest, one connection at a time. *)

\* The order in which a bot sends the cards it puts aside: each card once.
LEMMA DiscardOrder ==
  ASSUME NEW d \in SUBSET Cards
  PROVE  LET s == SetToSeq(d)
         IN  /\ s \in Seq(Cards)
             /\ Len(s) = Cardinality(d)
             /\ CardsOf(s) = d
             /\ \A i, j \in DOMAIN s : s[j] = s[i] => j = i
<1> DEFINE s == SetToSeq(d)
           n == Cardinality(d)
<1>1. IsFiniteSet(d) /\ n \in Nat
  BY TarotAssumption, FS_Subset, FS_CardinalityType
<1>2. \E f \in [1..n -> d] : IsInjective(f)
  <2>1. PICK f \in Bijection(1..n, d) : TRUE
    BY <1>1, FS_CardinalityType DEF ExistsBijection
  <2> QED
    BY <2>1 DEF Bijection, Injection, IsInjective
<1>3. s \in [1..n -> d] /\ IsInjective(s)
  BY <1>2 DEF SetToSeq
<1> HIDE DEF s
<1>4. s \in Seq(Cards) /\ Len(s) = n /\ DOMAIN s = 1..n
  BY <1>1, <1>3
<1>5. \A i, j \in DOMAIN s : s[j] = s[i] => j = i
  BY <1>3 DEF IsInjective
<1>6. Cardinality(CardsOf(s)) = n
  BY <1>4, <1>5, PileSize
<1>7. CardsOf(s) \subseteq d
  BY <1>3, <1>4 DEF CardsOf
<1>8. CardsOf(s) = d
  BY <1>1, <1>6, <1>7, FS_Subset
<1> QED
  BY <1>4, <1>5, <1>8 DEF s

\* What a bot discards from the taker's hand is accepted, or too few cards may
\* be discarded and it is refused.
LEMMA BotDiscardTested ==
  ASSUME NEW e \in Engines, e.ctx.bid.taker \in Places, NbPlayers # 5, NEW b,
         b.deck = e.hands[e.ctx.bid.taker], b.dog = e.ctx.dog, NEW d \in BotDiscards(b)
  PROVE  LET hand == e.hands[e.ctx.bid.taker]
         IN  /\ d \in SUBSET Cards
             /\ ~NoLegalDiscard(e) =>
                  SetToSeq(d) \in Discards /\ TestDiscard(hand, SetToSeq(d), e.ctx.dog)
             /\ NoLegalDiscard(e) => ~TestDiscard(hand, SetToSeq(d), e.ctx.dog)
<1> DEFINE hand == e.hands[e.ctx.bid.taker]
           D == Discardable(b)
           s == SetToSeq(d)
<1>1. hand \in SUBSET Cards /\ CardsOf(e.ctx.dog) \in SUBSET Cards
  BY EngineFields, ContextFields DEF CardsOf
<1>2. D = {c \in hand \cup CardsOf(e.ctx.dog) : MayDiscard(c)} /\ D \in SUBSET Cards
  BY <1>1 DEF Discardable
<1>3. IsFiniteSet(D) /\ Cardinality(D) \in Nat
  BY <1>2, TarotAssumption, FS_Subset, FS_CardinalityType
<1>4. NumberOfDogCards \in Nat /\ ClientDogCards = NumberOfDogCards
  BY TarotAssumption, ClientsAssumption
<1>5. NoLegalDiscard(e) <=> Cardinality(D) < NumberOfDogCards
  BY <1>2 DEF NoLegalDiscard
<1>6. d \in SUBSET D /\ Cardinality(d) = IF Cardinality(D) < NumberOfDogCards
                                         THEN Cardinality(D) ELSE NumberOfDogCards
  BY <1>4 DEF BotDiscards
<1>7. d \in SUBSET Cards
  BY <1>2, <1>6
<1> HIDE DEF D, s
<1>8. /\ s \in Seq(Cards) /\ Len(s) = Cardinality(d) /\ CardsOf(s) = d
      /\ \A i, j \in DOMAIN s : s[j] = s[i] => j = i
  BY <1>7, DiscardOrder DEF s
<1>9. CASE NoLegalDiscard(e)
  <2>1. Len(s) # NumberOfDogCards
    BY <1>3, <1>4, <1>5, <1>6, <1>8, <1>9
  <2> QED
    BY <1>7, <1>9, <2>1 DEF TestDiscard, s
<1>10. CASE ~NoLegalDiscard(e)
  <2>1. Len(s) = NumberOfDogCards /\ Cardinality(d) = NumberOfDogCards
    BY <1>3, <1>4, <1>5, <1>6, <1>8, <1>10
  <2>2. s \in Discards
    BY <1>7, <2>1, ClientsAssumption DEF s
  <2>3. \A i \in DOMAIN s : s[i] \in d
    BY <1>8 DEF CardsOf
  <2>4. \A i \in DOMAIN s : s[i] \in hand \cup CardsOf(e.ctx.dog) /\ MayDiscard(s[i])
    BY <1>2, <1>6, <2>3
  <2>5. TestDiscard(hand, s, e.ctx.dog)
    BY <1>8, <2>1, <2>4 DEF TestDiscard
  <2> QED
    BY <1>7, <1>10, <2>2, <2>5 DEF s
<1> QED
  BY <1>9, <1>10

\* The requests that a bot answers are not acknowledged, and the others are
\* acknowledged with the step that the table waits in.
LEMMA AckedFacts ==
  /\ {"RequestBid", "PlayCard", "BuildDiscard", "AskForHandle", "RequestLogin",
      "AccessGranted"} \cap DOMAIN AckedStep = {}
  /\ "RequestKingCall" \in DOMAIN AckedStep /\ AckedStep["RequestKingCall"] = "BadSeq"
  /\ News(Message("ReplyJoinTable", 0), "PLAYERS")
BY DEF AckedStep, News, Message

\* What the table asks at each step that waits for one player.
LEMMA QuestionFacts ==
  ASSUME NEW e, NEW m, Question(e, m)
  PROVE  \/ e.seq = "BID" /\ m.cmd = "RequestBid" /\ m.arg[1] = e.currentPlayer
         \/ e.seq = "DISCARD" /\ m.cmd = "BuildDiscard"
         \/ e.seq = "HANDLE" /\ m.cmd = "AskForHandle"
         \/ e.seq = "PLAYED_CARD" /\ m.cmd = "PlayCard" /\ m.arg = e.currentPlayer
BY DEF Question

\* A request for somebody else does not make it the bot's turn, and is only
\* remembered.
LEMMA OthersFacts ==
  ASSUME NEW b, IsBot(b), NEW w, NEW p, ForOthers(w, p), b.place = p
  PROVE  /\ w.cmd \in {"RequestBid", "PlayCard"}
         /\ ~IsMyTurn(Decode(b, w))
         /\ IsBot(Decode(b, w)) /\ SameBot(b, Decode(b, w))
<1>1. w.cmd \in {"RequestBid", "PlayCard"}
  BY DEF ForOthers
<1>2. IsBot(Decode(b, w)) /\ SameBot(b, Decode(b, w))
  BY <1>1, DecodeIsBot, DecodeQuiet
<1>3. Decode(b, w).currentPlayer # p
  BY <1>1, DecodeTurn DEF ForOthers
<1> QED
  BY <1>1, <1>2, <1>3 DEF IsMyTurn, SameBot

\* The bot acknowledges what it has been told.
LEMMA BotAcksView ==
  ASSUME NEW e, NEW a, NEW p, NEW b, IsBot(b), NEW q, NEW o, View(e, a, p, b, q, o),
         q # << >>, Head(q).cmd \in DOMAIN AckedStep
  PROVE  View(e, a, p, Decode(b, Head(q)), Tail(q),
              o \o <<Message("Ack", AckedStep[Head(q).cmd])>>)
<1> DEFINE m == Head(q)
           r == Message("Ack", AckedStep[m.cmd])
<1>1. IsOne(q) => m = q[1] /\ Tail(q) = << >>
  BY QueueFacts
<1>2. IsTwo(q) => m = q[1]
  BY QueueFacts
<1>3. CASE e.seq \in AckSteps /\ AtBarrier(e, a, p, b, q, o)
  <2>1. ~a /\ Reading(e.seq, p, b, q) /\ Knows(e, p, After(b, q)) /\ o \in {<< >>, <<BadAck>>}
    BY <1>3 DEF AtBarrier
  <2>2. ~(IsTwo(q) /\ ForOthers(q[1], p))
    BY <1>2, AckedFacts DEF ForOthers
  <2>3. IsOne(q) /\ News(q[1], e.seq)
    BY <2>1, <2>2 DEF Reading
  <2>4. r = Message("Ack", e.seq) /\ Knows(e, p, Decode(b, m)) /\ Tail(q) = << >>
    BY <1>1, <2>1, <2>3 DEF News, After
  <2>5. o \o <<r>> \in {<<Message("Ack", e.seq)>>, <<BadAck, Message("Ack", e.seq)>>}
    BY <2>1, <2>4, JoinFacts
  <2> QED
    BY <1>3, <2>1, <2>4, <2>5 DEF View, AtBarrier
<1>4. CASE e.seq \in {"BID", "DISCARD", "HANDLE", "PLAYED_CARD"} /\ AtQuestion(e, p, b, q, o)
  <2>1. IsOne(q) /\ (ForOthers(q[1], p) \/ Question(e, q[1]))
    BY <1>4 DEF AtQuestion
  <2> QED
    BY <1>1, <2>1, AckedFacts, QuestionFacts DEF ForOthers
<1>5. CASE e.seq = "KING_CALL" /\ AtKingCall(e, p, b, q, o)
  <2>1. Knows(e, p, b) /\ IsOne(q) /\ m.cmd = "RequestKingCall" /\ o = << >>
    BY <1>1, <1>5 DEF AtKingCall
  <2>2. o \o <<r>> = <<BadAck>>
    BY <2>1, JoinFacts, AckedFacts DEF BadAck
  <2>3. Knows(e, p, Decode(b, m))
    BY <2>1, DecodeQuiet, SameKnows
  <2> QED
    BY <1>1, <1>5, <2>1, <2>2, <2>3 DEF View, AtKingCall
<1> QED
  BY <1>3, <1>4, <1>5 DEF View

\* A bot that is not asked only remembers who is.
LEMMA BotWaitsView ==
  ASSUME NEW e, NEW a, NEW p, NEW b, IsBot(b), NEW q, NEW o, View(e, a, p, b, q, o),
         q # << >>, Head(q).cmd \in {"RequestBid", "PlayCard"},
         ~IsMyTurn(Decode(b, Head(q)))
  PROVE  View(e, a, p, Decode(b, Head(q)), Tail(q), o \o << >>)
<1> DEFINE m == Head(q)
           c == Decode(b, m)
<1>1. IsOne(q) => m = q[1] /\ Tail(q) = << >>
  BY QueueFacts
<1>2. IsTwo(q) => m = q[1] /\ Tail(q) = <<q[2]>> /\ IsOne(Tail(q)) /\ Tail(q)[1] = q[2]
                  /\ Tail(q) # << >> /\ ~IsOne(q)
  BY QueueFacts
<1>3. SameBot(b, c) /\ (Knows(e, p, b) => Knows(e, p, c))
  BY DecodeQuiet, SameKnows
<1>4. CASE e.seq \in AckSteps /\ AtBarrier(e, a, p, b, q, o)
  <2>1. ~a /\ Reading(e.seq, p, b, q) /\ Knows(e, p, After(b, q)) /\ o \in {<< >>, <<BadAck>>}
    BY <1>4 DEF AtBarrier
  <2>2. IsTwo(q) /\ ForOthers(q[1], p) /\ b.place = p /\ News(q[2], e.seq)
    BY <1>1, <2>1, AckedFacts DEF Reading, News
  <2>3. Reading(e.seq, p, c, Tail(q)) /\ After(c, Tail(q)) = After(b, q)
    BY <1>2, <2>2 DEF Reading, After
  <2>4. o \o << >> = o
    BY <2>1, JoinFacts
  <2> QED
    BY <1>4, <2>1, <2>3, <2>4 DEF View, AtBarrier
<1>5. CASE e.seq \in {"BID", "DISCARD", "HANDLE", "PLAYED_CARD"} /\ AtQuestion(e, p, b, q, o)
  <2>1. CASE p # Waited(e) /\ o = << >> /\ Knows(e, p, b) /\ IsOne(q)
    BY <1>1, <1>3, <1>5, <2>1, JoinFacts DEF View, AtQuestion
  <2>2. CASE p = Waited(e) /\ Knows(e, p, b) /\ IsOne(q) /\ Question(e, q[1])
    <3>1. \/ e.seq = "BID" /\ m.cmd = "RequestBid" /\ m.arg[1] = e.currentPlayer
          \/ e.seq = "PLAYED_CARD" /\ m.cmd = "PlayCard" /\ m.arg = e.currentPlayer
      BY <1>1, <2>2, QuestionFacts
    <3>2. p = e.currentPlayer /\ b.place = p
      BY <2>2, <3>1 DEF Waited, Knows
    <3>3. c.currentPlayer = p /\ c.place = p
      BY <1>3, <3>1, <3>2, DecodeTurn DEF SameBot
    <3> QED
      BY <3>3 DEF IsMyTurn
  <2> QED
    BY <1>5, <2>1, <2>2 DEF AtQuestion
<1>6. CASE e.seq = "KING_CALL" /\ AtKingCall(e, p, b, q, o)
  BY <1>1, <1>6 DEF AtKingCall
<1> QED
  BY <1>4, <1>5, <1>6 DEF View

\* Only the player that the table waits for is asked, and he knows the table.
LEMMA Asked ==
  ASSUME NEW e, NEW a, NEW p, NEW b, IsBot(b), NEW q, NEW o, View(e, a, p, b, q, o),
         q # << >>,
         Head(q).cmd \in {"RequestBid", "PlayCard", "BuildDiscard", "AskForHandle"},
         Head(q).cmd \in {"RequestBid", "PlayCard"} => IsMyTurn(Decode(b, Head(q)))
  PROVE  /\ e.seq \in {"BID", "DISCARD", "HANDLE", "PLAYED_CARD"}
         /\ p = Waited(e) /\ o = << >> /\ Tail(q) = << >>
         /\ Knows(e, p, b) /\ Question(e, Head(q))
<1> DEFINE m == Head(q)
<1>1. (IsOne(q) => m = q[1] /\ Tail(q) = << >>) /\ (IsTwo(q) => m = q[1])
  BY QueueFacts
<1>2. ~(ForOthers(m, p) /\ b.place = p)
  BY OthersFacts
<1>3. ~News(m, e.seq)
  BY AckedFacts DEF News
<1>4. CASE e.seq \in AckSteps /\ AtBarrier(e, a, p, b, q, o)
  <2>1. Reading(e.seq, p, b, q)
    BY <1>4 DEF AtBarrier
  <2> QED
    BY <1>1, <1>2, <1>3, <2>1 DEF Reading
<1>5. CASE e.seq \in {"BID", "DISCARD", "HANDLE", "PLAYED_CARD"} /\ AtQuestion(e, p, b, q, o)
  <2>1. ~(Knows(e, p, b) /\ IsOne(q) /\ ForOthers(q[1], p))
    BY <1>1, <1>2 DEF Knows
  <2> QED
    BY <1>1, <1>5, <2>1 DEF AtQuestion
<1>6. CASE e.seq = "KING_CALL" /\ AtKingCall(e, p, b, q, o)
  BY <1>1, <1>6 DEF AtKingCall
<1> QED
  BY <1>4, <1>5, <1>6 DEF View

\* The discard and the handle are only asked from that player.
LEMMA AskedByName ==
  ASSUME NEW e, NEW a, NEW p, NEW b, IsBot(b), NEW q, NEW o, View(e, a, p, b, q, o),
         q # << >>, Head(q).cmd = "BuildDiscard" \/ Head(q).cmd = "AskForHandle"
  PROVE  /\ p = Waited(e) /\ o = << >> /\ Tail(q) = << >>
         /\ Knows(e, p, b) /\ Question(e, Head(q))
<1>1. /\ Head(q).cmd \in {"RequestBid", "PlayCard", "BuildDiscard", "AskForHandle"}
      /\ Head(q).cmd \in {"RequestBid", "PlayCard"} => IsMyTurn(Decode(b, Head(q)))
  OBVIOUS
<1> QED
  BY <1>1, Asked

\* The answer is on its way.
LEMMA AnswerView ==
  ASSUME NEW e, NEW a, NEW p, NEW c, NEW o, Answer(e, p, c, o), p = Waited(e)
  PROVE  View(e, a, p, c, << >>, o)
BY DEF View, AtQuestion, Answer

\* Bot::RequestBid.
LEMMA BotBidsView ==
  ASSUME NEW e, NEW a, NEW p, NEW b, IsBot(b), NEW q, NEW o, View(e, a, p, b, q, o),
         q # << >>, Head(q).cmd = "RequestBid", IsMyTurn(Decode(b, Head(q))),
         NEW wish \in BidChoices
  PROVE  LET c == Decode(b, Head(q))
             contract == IF wish.contract <= c.bid THEN PASS ELSE wish.contract
         IN  View(e, a, p, c, Tail(q), o \o <<Message("ReplyBid", <<contract, wish.slam>>)>>)
<1> DEFINE c == Decode(b, Head(q))
           contract == IF wish.contract <= c.bid THEN PASS ELSE wish.contract
           r == Message("ReplyBid", <<contract, wish.slam>>)
<1>1. p = Waited(e) /\ o = << >> /\ Tail(q) = << >> /\ Knows(e, p, b) /\ Question(e, Head(q))
  BY Asked
<1>2. e.seq = "BID" /\ Knows(e, p, c)
  BY <1>1, QuestionFacts, DecodeQuiet, SameKnows
<1>3. \E w \in BidChoices : w.contract = contract /\ w.slam = wish.slam
  <2>1. wish \in [contract : PASS..GUARD_AGAINST, slam : BOOLEAN]
    BY TableAssumption
  <2>2. [wish EXCEPT !.contract = PASS].contract = PASS
        /\ [wish EXCEPT !.contract = PASS].slam = wish.slam
    BY <2>1
  <2>3. [wish EXCEPT !.contract = PASS] \in BidChoices
    BY ClientsAssumption
  <2> QED
    BY <2>2, <2>3
<1>4. o \o <<r>> = <<r>>
  BY <1>1, JoinFacts
<1>5. BidSent(<<r>>)
  BY <1>3 DEF BidSent
<1>6. Answer(e, p, c, <<r>>)
  BY <1>2, <1>5 DEF Answer
<1> QED
  BY <1>1, <1>4, <1>6, AnswerView

\* "BuildDiscard".
LEMMA BotDiscardView ==
  ASSUME NEW e, e \in Engines, NEW a, NEW p, p \in Places, NEW b, IsBot(b), NEW q, NEW o,
         View(e, a, p, b, q, o), NbPlayers # 5,
         q # << >>, Head(q).cmd = "BuildDiscard", NEW d, d \in BotDiscards(b)
  PROVE  LET c == [b EXCEPT !.deck = (@ \cup CardsOf(b.dog)) \ d]
         IN  IsBot(c) /\ View(e, a, p, c, Tail(q), o \o <<Message("Discard", SetToSeq(d)), BadAck>>)
<1> DEFINE c == [b EXCEPT !.deck = (@ \cup CardsOf(b.dog)) \ d]
           r == Message("Discard", SetToSeq(d))
<1>1. p = Waited(e) /\ o = << >> /\ Tail(q) = << >> /\ Knows(e, p, b) /\ Question(e, Head(q))
  <2>1. View(e, a, p, b, q, o) /\ IsBot(b) /\ q # << >> /\ Head(q).cmd = "BuildDiscard"
    OBVIOUS
  <2> QED
    BY ONLY <2>1, AskedByName
<1>2. e.seq = "DISCARD" /\ p = e.ctx.bid.taker
  BY <1>1, QuestionFacts DEF Waited
<1>3. b.place = p /\ b.deck = e.hands[p] /\ b.dog = e.ctx.dog
  BY <1>1, <1>2 DEF Knows, DealSteps, BidSteps
<1>4. IsBot(c) /\ c.place = p /\ c.deck = (e.hands[p] \cup CardsOf(e.ctx.dog)) \ d
  BY <1>3 DEF IsBot
<1>5. /\ d \in SUBSET Cards
      /\ ~NoLegalDiscard(e) =>
           SetToSeq(d) \in Discards /\ TestDiscard(e.hands[p], SetToSeq(d), e.ctx.dog)
      /\ NoLegalDiscard(e) => ~TestDiscard(e.hands[p], SetToSeq(d), e.ctx.dog)
  BY <1>2, <1>3, BotDiscardTested
<1>6. CardsOf(SetToSeq(d)) = d
  BY <1>5, DiscardOrder
<1>7. DiscardSent(e, p, c, <<r, BadAck>>)
  <2>1. CASE NoLegalDiscard(e)
    <3>1. IsTwo(<<r, BadAck>>) /\ <<r, BadAck>>[1] = r /\ <<r, BadAck>>[2] = BadAck
      BY ShortFacts
    <3>2. r.cmd = "Discard" /\ r.arg = SetToSeq(d)
      BY DEF Message
    <3> QED
      BY <1>4, <1>5, <2>1, <3>1, <3>2 DEF DiscardSent
  <2>2. CASE ~NoLegalDiscard(e)
    BY <1>4, <1>5, <1>6, <2>2 DEF DiscardSent
  <2> QED
    BY <2>1, <2>2
<1>8. o \o <<r, BadAck>> = <<r, BadAck>>
  BY <1>1, JoinFacts
<1> HIDE DEF c, r
<1>9. Answer(e, p, c, <<r, BadAck>>)
  BY <1>2, <1>7 DEF Answer
<1>10. View(e, a, p, c, Tail(q), o \o <<r, BadAck>>)
  BY <1>1, <1>8, <1>9, AnswerView
<1> QED
  BY <1>4, <1>10 DEF c, r

\* "AskForHandle".
LEMMA BotHandleView ==
  ASSUME NEW e, NEW a, NEW p, NEW b, IsBot(b), NEW q, NEW o, View(e, a, p, b, q, o),
         q # << >>, Head(q).cmd = "AskForHandle"
  PROVE  View(e, a, p, b, Tail(q), o \o <<Message("Handle", << >>)>>)
<1>1. p = Waited(e) /\ o = << >> /\ Tail(q) = << >> /\ Knows(e, p, b) /\ Question(e, Head(q))
  BY AskedByName
<1>2. e.seq = "HANDLE"
  BY <1>1, QuestionFacts
<1>3. o \o <<Message("Handle", << >>)>> = <<Message("Handle", << >>)>>
  BY <1>1, JoinFacts
<1>4. Answer(e, p, b, <<Message("Handle", << >>)>>)
  BY <1>1, <1>2 DEF Answer
<1> QED
  BY <1>1, <1>3, <1>4, AnswerView

\* "PlayCard".
LEMMA BotPlaysView ==
  ASSUME NEW e \in Engines, NEW a, NEW p \in Places, NEW b, IsBot(b), NEW q, NEW o,
         View(e, a, p, b, q, o), q # << >>, Head(q).cmd = "PlayCard",
         IsMyTurn(Decode(b, Head(q))), NEW x \in Decode(b, Head(q)).deck,
         CanPlayCard(Decode(b, Head(q)).deck, x, Decode(b, Head(q)).trick)
  PROVE  LET c == [Decode(b, Head(q)) EXCEPT !.deck = @ \ {x}]
         IN  IsBot(c) /\ View(e, a, p, c, Tail(q), o \o <<Message("Card", x)>>)
<1> DEFINE d == Decode(b, Head(q))
           c == [d EXCEPT !.deck = @ \ {x}]
<1>1. p = Waited(e) /\ o = << >> /\ Tail(q) = << >> /\ Knows(e, p, b) /\ Question(e, Head(q))
  BY Asked
<1>2. e.seq = "PLAYED_CARD"
  BY <1>1, QuestionFacts
<1>3. IsBot(d) /\ Knows(e, p, d)
  BY <1>1, DecodeIsBot, DecodeQuiet, SameKnows
<1>4. d.place = p /\ d.deck = e.hands[p] /\ d.trick = e.trick
  BY <1>2, <1>3 DEF Knows, DealSteps, PlaySteps, InPlay
<1>5. x \in Cards
  BY <1>4, EngineFields
<1>6. CanPlayCard(e.hands[p], x, e.trick) = TRUE
  BY <1>4 DEF CanPlayCard, TestPlayTrump
<1> HIDE DEF d
<1>7. IsBot(c) /\ c.place = p /\ c.deck = e.hands[p] \ {x} /\ c.trick = e.trick
  BY <1>3, <1>4 DEF IsBot
<1>8. o \o <<Message("Card", x)>> = <<Message("Card", x)>>
  BY <1>1, JoinFacts
<1> HIDE DEF c
<1>9. Answer(e, p, c, <<Message("Card", x)>>)
  BY <1>2, <1>5, <1>6, <1>7 DEF Answer, CardSent
<1>10. View(e, a, p, c, Tail(q), o \o <<Message("Card", x)>>)
  BY <1>1, <1>8, <1>9, AnswerView
<1> QED
  BY <1>7, <1>10 DEF c, d

\* What is on its way to a bot that has a seat, and to one that has none.
LEMMA FirstMessage ==
  ASSUME NEW e, NEW a, NEW p, NEW b, NEW q, NEW o, q # << >>
  PROVE  /\ View(e, a, p, b, q, o) =>
              Head(q).cmd \notin {"RequestLogin", "AccessGranted"}
         /\ Joining(b, q, o) =>
              \/ /\ q = <<Message("RequestLogin", << >>)>> /\ o = << >>
                 /\ Head(q).cmd = "RequestLogin" /\ Tail(q) = << >>
              \/ /\ q = <<Message("AccessGranted", << >>)>> /\ o = << >>
                 /\ Head(q).cmd = "AccessGranted" /\ Tail(q) = << >>
<1>1. ASSUME View(e, a, p, b, q, o) PROVE Head(q).cmd \notin {"RequestLogin", "AccessGranted"}
  <2>1. (IsOne(q) => Head(q) = q[1]) /\ (IsTwo(q) => Head(q) = q[1])
    BY QueueFacts
  <2>2. \/ (IsOne(q) \/ IsTwo(q)) /\ (News(q[1], e.seq) \/ ForOthers(q[1], p))
        \/ IsOne(q) /\ (Question(e, q[1]) \/ q[1].cmd = "RequestKingCall")
    BY <1>1 DEF View, AtBarrier, AtQuestion, AtKingCall, Reading
  <2>3. News(q[1], e.seq) => q[1].cmd \notin {"RequestLogin", "AccessGranted"}
    BY AckedFacts DEF News
  <2>4. Question(e, q[1]) => q[1].cmd \notin {"RequestLogin", "AccessGranted"}
    BY QuestionFacts
  <2> QED
    BY <2>1, <2>2, <2>3, <2>4 DEF ForOthers
<1>2. ASSUME Joining(b, q, o)
      PROVE  \/ /\ q = <<Message("RequestLogin", << >>)>> /\ o = << >>
                /\ Head(q).cmd = "RequestLogin" /\ Tail(q) = << >>
             \/ /\ q = <<Message("AccessGranted", << >>)>> /\ o = << >>
                /\ Head(q).cmd = "AccessGranted" /\ Tail(q) = << >>
  <2>1. \A x : Head(<<x>>) = x /\ Tail(<<x>>) = << >>
    BY ShortFacts
  <2>2. \A c, x : Message(c, x).cmd = c
    BY DEF Message
  <2> QED
    BY <1>2, <2>1, <2>2 DEF Joining
<1> QED
  BY <1>1, <1>2

\* A place of the table is taken by one of the users, who has no other place.
LEMMA SeatFacts ==
  ASSUME Inv
  PROVE  /\ \A p \in Places : uuid[p] \in Users \cup {INVALID_UID}
         /\ \A p, q \in Places : uuid[p] = uuid[q] /\ uuid[p] # INVALID_UID => p = q
         /\ INVALID_UID \notin Users
BY TableAssumption DEF Inv, TypeOK, TableInv, AckInv

\* A bot handles a message: the others, and the table, do not see it.
LEMMA LocalStep ==
  ASSUME Inv, ClientInv, NEW u \in Users, NEW b, NEW rs, Handled(u, b, rs), IsBot(b),
         NEW q, Carries(Tail(inbox[u]), q),
         \A p \in Places : uuid[p] = u => View(engine, ack[p], p, b, q, outbox[u] \o rs),
         ~Seated(u) => Joining(b, q, outbox[u] \o rs)
  PROVE  Inv' /\ ClientInv'
<1>1. UNCHANGED vars /\ UNCHANGED <<engine, uuid, ack>>
  BY DEF Handled, vars
<1>2. Inv'
  BY <1>1, NextInv
<1>3. SeatInv'
  BY <1>1 DEF ClientInv, SeatInv
<1>4. /\ DOMAIN bot' = Users /\ DOMAIN inbox' = Users /\ DOMAIN outbox' = Users
      /\ bot'[u] = b /\ wanted'[u] = q /\ outbox'[u] = outbox[u] \o rs
      /\ \A v \in Users : v # u =>
           bot'[v] = bot[v] /\ wanted'[v] = wanted[v] /\ outbox'[v] = outbox[v]
      /\ \A v \in Users : Carries(inbox'[v], wanted'[v])
  <2>1. /\ DOMAIN bot' = Users /\ DOMAIN inbox' = Users /\ DOMAIN outbox' = Users
        /\ bot'[u] = b /\ inbox'[u] = Tail(inbox[u]) /\ outbox'[u] = outbox[u] \o rs
        /\ \A v \in Users : v # u =>
             bot'[v] = bot[v] /\ inbox'[v] = inbox[v] /\ outbox'[v] = outbox[v]
    BY DEF Handled, ClientInv, BoxInv
  <2>2. wanted'[u] = q /\ Carries(inbox'[u], wanted'[u])
    BY <2>1, WantedNext
  <2>3. ASSUME NEW v \in Users, v # u
        PROVE  wanted'[v] = wanted[v] /\ Carries(inbox'[v], wanted'[v])
    <3>1. Carries(inbox'[v], wanted[v])
      BY <2>1, <2>3 DEF ClientInv, BoxInv
    <3> QED
      BY <3>1, WantedNext
  <2> QED
    BY <2>1, <2>2, <2>3
<1>5. \A v : Seated(v)' <=> Seated(v)
  BY <1>1 DEF Seated
<1>6. BoxInv'
  <2>1. ASSUME NEW v \in Users
        PROVE  IsBot(bot'[v]) /\ (~Seated(v)' => Joining(bot'[v], wanted'[v], outbox'[v]))
    BY <1>4, <1>5 DEF ClientInv, BoxInv
  <2> QED
    BY <1>4, <2>1 DEF BoxInv
<1>7. ViewInv'
  <2> SUFFICES ASSUME NEW p \in Places, uuid[p] # INVALID_UID
               PROVE  View(engine, ack[p], p, bot'[uuid[p]], wanted'[uuid[p]], outbox'[uuid[p]])
    BY <1>1 DEF ViewInv
  <2>1. uuid[p] \in Users
    BY SeatFacts
  <2>2. CASE uuid[p] = u
    BY <1>4, <2>2
  <2>3. CASE uuid[p] # u
    BY <1>4, <2>1, <2>3 DEF ClientInv, ViewInv
  <2> QED
    BY <2>2, <2>3
<1> QED
  BY <1>2, <1>3, <1>6, <1>7 DEF ClientInv

\* The first message is one of the table's.
LEMMA NextWanted ==
  ASSUME ClientInv, NEW u \in Users, inbox[u] # << >>
  PROVE  /\ Head(inbox[u]).cmd \notin Asides =>
              /\ wanted[u] # << >> /\ Head(wanted[u]) = Head(inbox[u])
              /\ Carries(Tail(inbox[u]), Tail(wanted[u]))
         /\ Head(inbox[u]).cmd \in Asides => Carries(Tail(inbox[u]), wanted[u])
<1>1. Carries(inbox[u], wanted[u])
  BY DEF ClientInv, BoxInv
<1> QED
  BY <1>1, CarriesTail

\* What is known of the bot of user u.
LEMMA BotFacts ==
  ASSUME Inv, ClientInv, NEW u \in Users
  PROVE  /\ IsBot(bot[u])
         /\ ~Seated(u) => Joining(bot[u], wanted[u], outbox[u])
         /\ \A p \in Places : uuid[p] = u =>
              View(engine, ack[p], p, bot[u], wanted[u], outbox[u])
BY SeatFacts DEF ClientInv, BoxInv, ViewInv

\* What is on its way from a bot is short.
LEMMA RequestsShort ==
  ASSUME NEW e, NEW a, NEW p, NEW b, NEW q, NEW o
  PROVE  /\ View(e, a, p, b, q, o) => Short(o)
         /\ Joining(b, q, o) => Short(o)
<1>1. \A x, y : Short(<< >>) /\ Short(<<x>>) /\ Short(<<x, y>>)
  BY ShortFacts DEF Short
<1>2. Joining(b, q, o) => Short(o)
  BY <1>1 DEF Joining
<1>3. AtBarrier(e, a, p, b, q, o) => Short(o)
  BY <1>1 DEF AtBarrier
<1>4. AtKingCall(e, p, b, q, o) => Short(o)
  BY <1>1 DEF AtKingCall
<1>5. BidSent(o) \/ CardSent(e, p, b, o) => Short(o)
  BY <1>1 DEF BidSent, CardSent
<1>6. DiscardSent(e, p, b, o) => Short(o)
  BY <1>1 DEF DiscardSent, Short
<1>7. AtQuestion(e, p, b, q, o) => Short(o)
  BY <1>1, <1>5, <1>6 DEF AtQuestion, Answer
<1> QED
  BY <1>2, <1>3, <1>4, <1>7 DEF View

\* A bot reads an event of the lobby or a chat message.
LEMMA IgnoredStep ==
  ASSUME Inv, ClientInv, NEW u \in Users, BotIgnores(u)
  PROVE  Inv' /\ ClientInv'
<1>1. inbox[u] # << >> /\ Head(inbox[u]).cmd \in Asides /\ Handled(u, bot[u], << >>)
  BY DEF BotIgnores, Received
<1>2. Carries(Tail(inbox[u]), wanted[u])
  BY <1>1, NextWanted
<1>3. /\ IsBot(bot[u]) /\ (~Seated(u) => Joining(bot[u], wanted[u], outbox[u]))
      /\ \A p \in Places : uuid[p] = u => View(engine, ack[p], p, bot[u], wanted[u], outbox[u])
  BY BotFacts
<1>4. outbox[u] \o << >> = outbox[u]
  <2>1. CASE Seated(u)
    <3>1. PICK p \in Places : uuid[p] = u
      BY <2>1 DEF Seated
    <3>2. Short(outbox[u])
      BY <1>3, <3>1, RequestsShort
    <3> QED
      BY <3>2, ShortKept
  <2>2. CASE ~Seated(u)
    <3>1. Short(outbox[u])
      BY <1>3, <2>2, RequestsShort
    <3> QED
      BY <3>1, ShortKept
  <2> QED
    BY <2>1, <2>2
<1>5. /\ \A p \in Places : uuid[p] = u =>
           View(engine, ack[p], p, bot[u], wanted[u], outbox[u] \o << >>)
      /\ ~Seated(u) => Joining(bot[u], wanted[u], outbox[u] \o << >>)
  BY <1>3, <1>4
<1> QED
  BY <1>1, <1>2, <1>3, <1>5, LocalStep

\* Whatever a bot handles keeps the invariant.
LEMMA BotStep ==
  ASSUME Inv, ClientInv, NEW u \in Users, BotReceives(u)
  PROVE  Inv' /\ ClientInv'
<1> DEFINE b == bot[u]
           q == wanted[u]
           o == outbox[u]
           m == Head(wanted[u])
<1>1. /\ IsBot(b) /\ (~Seated(u) => Joining(b, q, o))
      /\ \A p \in Places : uuid[p] = u => View(engine, ack[p], p, b, q, o)
  BY BotFacts
<1> SUFFICES ASSUME ~BotIgnores(u) PROVE Inv' /\ ClientInv'
  BY IgnoredStep
<1>2. q # << >> /\ m = Head(inbox[u]) /\ Carries(Tail(inbox[u]), Tail(q))
  <2>1. inbox[u] # << >> /\ Head(inbox[u]).cmd \notin Asides
    BY DEF BotReceives, BotLogin, BotEnter, BotAcks, BotWaits, BotBids, BotDiscard, BotHandle,
           BotPlays, Received, Asides, AckedStep
  <2> QED
    BY <2>1, NextWanted
<1>3. /\ Seated(u) => m.cmd \notin {"RequestLogin", "AccessGranted"}
      /\ ~Seated(u) => m.cmd \in {"RequestLogin", "AccessGranted"}
  BY <1>1, <1>2, FirstMessage DEF Seated
<1>4. engine \in Engines
  BY DEF Inv, TypeOK
<1>5. \A x : << >> \o <<x>> = <<x>>
  BY JoinFacts
<1>6. CASE BotLogin(u)
  <2> DEFINE c == [b EXCEPT !.connected = TRUE]
             r == Message("ReplyLogin", << >>)
  <2>1. m.cmd = "RequestLogin" /\ ~Seated(u) /\ Handled(u, c, <<r>>)
    BY <1>2, <1>3, <1>6 DEF BotLogin, Received
  <2>2. b.place = NOWHERE /\ o = << >> /\ Tail(q) = << >>
    BY <1>1, <1>2, <2>1, FirstMessage DEF Joining
  <2>3. IsBot(c) /\ c.place = NOWHERE
    BY <1>1, <2>2 DEF IsBot
  <2>4. Joining(c, Tail(q), o \o <<r>>)
    BY <1>5, <2>2, <2>3 DEF Joining
  <2> HIDE DEF c, r
  <2> QED
    BY <1>2, <2>1, <2>3, <2>4, LocalStep DEF Seated
<1>7. CASE BotEnter(u)
  <2> DEFINE r == Message("RequestJoinTable", << >>)
  <2>1. m.cmd = "AccessGranted" /\ ~Seated(u) /\ Handled(u, b, <<r>>)
    BY <1>2, <1>3, <1>7 DEF BotEnter, Received
  <2>2. b.place = NOWHERE /\ o = << >> /\ Tail(q) = << >>
    BY <1>1, <1>2, <2>1, FirstMessage DEF Joining
  <2>3. Joining(b, Tail(q), o \o <<r>>)
    BY <1>5, <2>2 DEF Joining
  <2> HIDE DEF r
  <2> QED
    BY <1>2, <1>1, <2>1, <2>3, LocalStep DEF Seated
<1>8. CASE BotAcks(u)
  <2> DEFINE c == Decode(b, m)
             r == Message("Ack", AckedStep[m.cmd])
  <2>1. m.cmd \in DOMAIN AckedStep /\ Handled(u, c, <<r>>)
    BY <1>2, <1>8 DEF BotAcks, Received
  <2>2. Seated(u)
    BY <1>3, <2>1, AckedFacts
  <2>3. IsBot(c)
    BY <1>1, DecodeIsBot
  <2>4. \A p \in Places : uuid[p] = u => View(engine, ack[p], p, c, Tail(q), o \o <<r>>)
    BY <1>1, <1>2, <2>1, BotAcksView
  <2> HIDE DEF c, r
  <2> QED
    BY <1>2, <2>1, <2>2, <2>3, <2>4, LocalStep
<1>9. CASE BotWaits(u)
  <2> DEFINE c == Decode(b, m)
  <2>1. m.cmd \in {"RequestBid", "PlayCard"} /\ ~IsMyTurn(c) /\ Handled(u, c, << >>)
    BY <1>2, <1>9 DEF BotWaits, Received
  <2>2. Seated(u)
    BY <1>3, <2>1
  <2>3. IsBot(c)
    BY <1>1, DecodeIsBot
  <2>4. \A p \in Places : uuid[p] = u => View(engine, ack[p], p, c, Tail(q), o \o << >>)
    BY <1>1, <1>2, <2>1, BotWaitsView
  <2> HIDE DEF c
  <2> QED
    BY <1>2, <2>1, <2>2, <2>3, <2>4, LocalStep
<1>10. CASE BotBids(u)
  <2> DEFINE c == Decode(b, m)
             contract(w) == IF w.contract <= c.bid THEN PASS ELSE w.contract
             r(w) == Message("ReplyBid", <<contract(w), w.slam>>)
  <2>1. m.cmd = "RequestBid" /\ IsMyTurn(c)
    BY <1>2, <1>10 DEF BotBids, Received
  <2>2. PICK w \in BidChoices : Handled(u, c, <<r(w)>>)
    BY <1>2, <1>10 DEF BotBids
  <2>3. Seated(u)
    BY <1>3, <2>1
  <2>4. IsBot(c)
    BY <1>1, DecodeIsBot
  <2>5. \A p \in Places : uuid[p] = u => View(engine, ack[p], p, c, Tail(q), o \o <<r(w)>>)
    BY <1>1, <1>2, <2>1, BotBidsView
  <2> HIDE DEF c, r
  <2> QED
    BY <1>2, <2>2, <2>3, <2>4, <2>5, LocalStep
<1>11. CASE BotDiscard(u)
  <2> DEFINE c(d) == [b EXCEPT !.deck = (@ \cup CardsOf(b.dog)) \ d]
             rs(d) == <<Message("Discard", SetToSeq(d)), BadAck>>
  <2>1. m.cmd = "BuildDiscard"
    BY <1>2, <1>11 DEF BotDiscard, Received
  <2>2. PICK d \in BotDiscards(b) : Handled(u, c(d), rs(d))
    BY <1>2, <1>11 DEF BotDiscard, BadAck
  <2>3. Seated(u)
    BY <1>3, <2>1
  <2>4. PICK p \in Places : uuid[p] = u
    BY <2>3 DEF Seated
  <2>5. NbPlayers # 5
    <3>1. Question(engine, m)
      BY <1>1, <1>2, <2>1, <2>4, AskedByName
    <3>2. engine.seq = "DISCARD"
      BY <2>1, <3>1, QuestionFacts
    <3> QED
      BY <3>2 DEF ClientInv, SeatInv, FiveSteps
  <2>6. ASSUME NEW s \in Places, uuid[s] = u
        PROVE  IsBot(c(d)) /\ View(engine, ack[s], s, c(d), Tail(q), o \o rs(d))
    BY <1>1, <1>2, <1>4, <2>1, <2>5, <2>6, BotDiscardView
  <2>7. IsBot(c(d))
    BY <2>4, <2>6
  <2> HIDE DEF c, rs
  <2> QED
    BY <1>2, <2>2, <2>3, <2>6, <2>7, LocalStep
<1>12. CASE BotHandle(u)
  <2> DEFINE r == Message("Handle", << >>)
  <2>1. m.cmd = "AskForHandle" /\ Handled(u, b, <<r>>)
    BY <1>2, <1>12 DEF BotHandle, Received
  <2>2. Seated(u)
    BY <1>3, <2>1
  <2>3. \A p \in Places : uuid[p] = u => View(engine, ack[p], p, b, Tail(q), o \o <<r>>)
    BY <1>1, <1>2, <2>1, BotHandleView
  <2> HIDE DEF r
  <2> QED
    BY <1>2, <1>1, <2>1, <2>2, <2>3, LocalStep
<1>13. CASE BotPlays(u)
  <2> DEFINE d == Decode(b, m)
             c(x) == [d EXCEPT !.deck = @ \ {x}]
             rs(x) == <<Message("Card", x)>>
  <2>1. m.cmd = "PlayCard" /\ IsMyTurn(d)
    BY <1>2, <1>13 DEF BotPlays, Received
  <2>2. PICK x \in d.deck : CanPlayCard(d.deck, x, d.trick) /\ Handled(u, c(x), rs(x))
    BY <1>2, <1>13 DEF BotPlays
  <2>3. Seated(u)
    BY <1>3, <2>1
  <2>4. PICK p \in Places : uuid[p] = u
    BY <2>3 DEF Seated
  <2>5. ASSUME NEW s \in Places, uuid[s] = u
        PROVE  IsBot(c(x)) /\ View(engine, ack[s], s, c(x), Tail(q), o \o rs(x))
    BY <1>1, <1>2, <1>4, <2>1, <2>2, <2>5, BotPlaysView
  <2>6. IsBot(c(x))
    BY <2>4, <2>5
  <2> HIDE DEF c, rs
  <2> QED
    BY <1>2, <2>2, <2>3, <2>5, <2>6, LocalStep
<1> QED
  BY <1>6, <1>7, <1>8, <1>9, <1>10, <1>11, <1>12, <1>13 DEF BotReceives

-----------------------------------------------------------------------------
(* The server, one connection at a time. *)

\* The queue to a bot is short.
LEMMA QueueShort ==
  ASSUME NEW e, NEW a, NEW p, NEW b, NEW q, NEW o
  PROVE  /\ View(e, a, p, b, q, o) => Short(q)
         /\ Joining(b, q, o) => Short(q)
<1>1. View(e, a, p, b, q, o) => Short(q)
  BY DEF View, AtBarrier, AtQuestion, AtKingCall, Reading, Short
<1>2. Joining(b, q, o) => Short(q)
  <2>1. \A x : IsOne(<<x>>)
    BY ShortFacts
  <2> QED
    BY <2>1 DEF Joining, Short
<1> QED
  BY <1>1, <1>2

\* The news of the next step, for a bot that may not have read yet that
\* somebody else was asked.
LEMMA TellView ==
  ASSUME NEW a, ~a, NEW f, f.seq \in AckSteps, NEW p, NEW b, IsBot(b), b.place = p,
         NEW q, q = << >> \/ (IsOne(q) /\ ForOthers(q[1], p)),
         NEW m, News(m, f.seq), NEW o \in {<< >>, <<BadAck>>},
         \A c : IsBot(c) /\ SameBot(b, c) => Knows(f, p, Decode(c, m))
  PROVE  View(f, a, p, b, q \o <<m>>, o)
<1>1. Reading(f.seq, p, b, q \o <<m>>) /\ Knows(f, p, After(b, q \o <<m>>))
  <2>1. CASE q = << >>
    <3>1. q \o <<m>> = <<m>>
      BY <2>1, JoinFacts
    <3>2. IsOne(<<m>>) /\ <<m>>[1] = m /\ <<m>> # << >>
      BY ShortFacts
    <3>3. SameBot(b, b)
      BY DEF SameBot
    <3> QED
      BY <3>1, <3>2, <3>3 DEF Reading, After
  <2>2. CASE IsOne(q) /\ ForOthers(q[1], p)
    <3>1. q \o <<m>> = <<q[1], m>>
      BY <2>2, JoinFacts DEF IsOne
    <3> DEFINE x == q[1]
    <3>2. /\ IsTwo(<<x, m>>) /\ ~IsOne(<<x, m>>) /\ <<x, m>> # << >>
          /\ <<x, m>>[1] = x /\ <<x, m>>[2] = m
      BY ShortFacts
    <3>3. IsBot(Decode(b, x)) /\ SameBot(b, Decode(b, x))
      BY <2>2, OthersFacts
    <3> HIDE DEF x
    <3>4. After(b, <<x, m>>) = Decode(Decode(b, x), m)
      BY <3>2 DEF After
    <3>5. Reading(f.seq, p, b, <<x, m>>)
      BY <2>2, <3>2 DEF Reading, x
    <3> QED
      BY <3>1, <3>3, <3>4, <3>5 DEF x
  <2> QED
    BY <2>1, <2>2
<1> QED
  BY <1>1 DEF View, AtBarrier

\* The question of the next step, for the player who is asked.
LEMMA AskView ==
  ASSUME NEW a, NEW f, f.seq \in {"BID", "DISCARD", "HANDLE", "PLAYED_CARD"}, NEW p, NEW b,
         NEW r, p = Waited(f), Knows(f, p, b), IsOne(r), Question(f, r[1])
  PROVE  View(f, a, p, b, r, << >>)
BY DEF View, AtQuestion

\* The others, who are not told of it.
LEMMA WaitView ==
  ASSUME NEW a, NEW f, f.seq \in {"BID", "DISCARD", "HANDLE", "PLAYED_CARD"}, NEW p, NEW b,
         NEW r, p # Waited(f), Knows(f, p, b), r = << >>
  PROVE  View(f, a, p, b, r, << >>)
BY DEF View, AtQuestion

\* Those who are told of it.
LEMMA WatchView ==
  ASSUME NEW a, NEW f, f.seq \in {"BID", "PLAYED_CARD"}, NEW p, NEW b,
         NEW r, p # Waited(f), Knows(f, p, b), IsOne(r), ForOthers(r[1], p)
  PROVE  View(f, a, p, b, r, << >>)
BY DEF View, AtQuestion

\* The first request on its way from a bot that has a seat: an acknowledgement
\* without a name, the acknowledgement of the step, or the answer.
Request(e, a, p, b, q, o) ==
  \/ Head(o) = BadAck /\ View(e, a, p, b, q, Tail(o))
  \/ /\ e.seq \in AckSteps /\ Head(o) = Message("Ack", e.seq) /\ Tail(o) = << >>
     /\ ~a /\ q = << >> /\ Knows(e, p, b)
  \/ /\ p = Waited(e) /\ q = << >>
     /\ \/ /\ e.seq = "BID" /\ Knows(e, p, b) /\ Tail(o) = << >>
           /\ \E w \in BidChoices : Head(o) = Message("ReplyBid", <<w.contract, w.slam>>)
        \/ /\ e.seq = "DISCARD" /\ b.place = p /\ Tail(o) = <<BadAck>>
           /\ \E d \in Discards :
                /\ Head(o) = Message("Discard", d)
                /\ TestDiscard(e.hands[p], d, e.ctx.dog)
                /\ b.deck = (e.hands[p] \cup CardsOf(e.ctx.dog)) \ CardsOf(d)
        \/ /\ e.seq = "DISCARD" /\ NoLegalDiscard(e) /\ Head(o).cmd = "Discard"
           /\ ~TestDiscard(e.hands[p], Head(o).arg, e.ctx.dog)
           /\ View(e, a, p, b, q, Tail(o))
        \/ /\ e.seq = "HANDLE" /\ Knows(e, p, b) /\ Tail(o) = << >>
           /\ Head(o) = Message("Handle", << >>)
        \/ /\ e.seq = "PLAYED_CARD" /\ Tail(o) = << >>
           /\ \E c \in Cards :
                /\ Head(o) = Message("Card", c)
                /\ CanPlayCard(e.hands[p], c, e.trick) = TRUE
                /\ b.place = p /\ b.deck = e.hands[p] \ {c} /\ b.trick = e.trick

\* There is no other.
LEMMA FirstRequest ==
  ASSUME NEW e, NEW a, NEW p, NEW b, NEW q, NEW o, View(e, a, p, b, q, o), o # << >>
  PROVE  Request(e, a, p, b, q, o)
<1> USE DEF Request
<1>1. \A x : Head(<<x>>) = x /\ Tail(<<x>>) = << >>
  BY ShortFacts
<1>2. \A x, y : Head(<<x, y>>) = x /\ Tail(<<x, y>>) = <<y>>
  BY ShortFacts
<1>3. CASE e.seq \in AckSteps /\ AtBarrier(e, a, p, b, q, o)
  <2> DEFINE r == Message("Ack", e.seq)
  <2>1. CASE ~a /\ q = << >> /\ Knows(e, p, b) /\ o = <<r>>
    BY <1>1, <1>3, <2>1
  <2>2. CASE ~a /\ q = << >> /\ Knows(e, p, b) /\ o = <<BadAck, r>>
    <3>1. Head(o) = BadAck /\ Tail(o) = <<r>>
      BY <1>2, <2>2
    <3>2. AtBarrier(e, a, p, b, q, Tail(o))
      BY <2>2, <3>1 DEF AtBarrier
    <3> QED
      BY <1>3, <3>1, <3>2 DEF View
  <2>3. CASE ~a /\ Reading(e.seq, p, b, q) /\ Knows(e, p, After(b, q)) /\ o = <<BadAck>>
    <3>1. Head(o) = BadAck /\ Tail(o) = << >>
      BY <1>1, <2>3
    <3>2. AtBarrier(e, a, p, b, q, Tail(o))
      BY <2>3, <3>1 DEF AtBarrier
    <3> QED
      BY <1>3, <3>1, <3>2 DEF View
  <2> QED
    BY <1>3, <2>1, <2>2, <2>3 DEF AtBarrier
<1>4. CASE e.seq \in {"BID", "DISCARD", "HANDLE", "PLAYED_CARD"} /\ AtQuestion(e, p, b, q, o)
  <2>1. p = Waited(e) /\ q = << >> /\ Answer(e, p, b, o)
    BY <1>4 DEF AtQuestion
  <2>2. CASE e.seq = "BID" /\ Knows(e, p, b) /\ BidSent(o)
    BY <1>1, <2>1, <2>2 DEF BidSent
  <2>3. CASE e.seq = "HANDLE" /\ Knows(e, p, b) /\ o = <<Message("Handle", << >>)>>
    BY <1>1, <2>1, <2>3
  <2>4. CASE e.seq = "PLAYED_CARD" /\ CardSent(e, p, b, o)
    BY <1>1, <2>1, <2>4 DEF CardSent
  <2>5. CASE e.seq = "DISCARD" /\ DiscardSent(e, p, b, o)
    <3>1. CASE \E d \in Discards :
                 /\ o = <<Message("Discard", d), BadAck>>
                 /\ TestDiscard(e.hands[p], d, e.ctx.dog)
                 /\ b.deck = (e.hands[p] \cup CardsOf(e.ctx.dog)) \ CardsOf(d)
      BY <1>2, <2>1, <2>5, <3>1 DEF DiscardSent
    <3>2. CASE /\ NoLegalDiscard(e) /\ IsTwo(o) /\ o[2] = BadAck /\ o[1].cmd = "Discard"
               /\ ~TestDiscard(e.hands[p], o[1].arg, e.ctx.dog)
      <4>1. Head(o) = o[1] /\ Tail(o) = <<BadAck>>
        BY <3>2, QueueFacts
      <4>2. DiscardSent(e, p, b, Tail(o))
        BY <2>5, <3>2, <4>1 DEF DiscardSent
      <4>3. View(e, a, p, b, q, Tail(o))
        BY <2>1, <2>5, <4>2 DEF View, AtQuestion, Answer
      <4> QED
        BY <2>1, <2>5, <3>2, <4>1, <4>3
    <3>3. CASE NoLegalDiscard(e) /\ o = <<BadAck>>
      <4>1. Head(o) = BadAck /\ Tail(o) = << >>
        BY <1>1, <3>3
      <4>2. DiscardSent(e, p, b, Tail(o))
        BY <2>5, <3>3, <4>1 DEF DiscardSent
      <4>3. View(e, a, p, b, q, Tail(o))
        BY <2>1, <2>5, <4>2 DEF View, AtQuestion, Answer
      <4> QED
        BY <4>1, <4>3
    <3> QED
      BY <2>5, <3>1, <3>2, <3>3 DEF DiscardSent
  <2> QED
    BY <2>1, <2>2, <2>3, <2>4, <2>5 DEF Answer
<1>5. CASE e.seq = "KING_CALL" /\ AtKingCall(e, p, b, q, o)
  <2>1. q = << >> /\ o = <<BadAck>> /\ Knows(e, p, b)
    BY <1>5 DEF AtKingCall
  <2>2. Head(o) = BadAck /\ Tail(o) = << >>
    BY <1>1, <2>1
  <2> QED
    BY <1>5, <2>1, <2>2 DEF View, AtKingCall
<1> QED
  BY <1>3, <1>4, <1>5 DEF View

\* The replies reach nobody who has no seat, and bring a player one message of
\* the table at most.
Private(replies) ==
  \A v \in Users : /\ ~Seated(v) => Mail(v, replies) = << >>
                   /\ Carries(Mail(v, replies), Mail(v, replies))

\* So do a reply to all players, one to a seat and the cards of a new deal.
LEMMA PrivateReplies ==
  /\ Private(<< >>)
  /\ \A cmd, arg : cmd \notin Asides => Private(<<SendToAllPlayers(cmd, arg)>>)
  /\ \A s \in Places : \A cmd, arg : cmd \notin Asides => Private(<<Reply({uuid[s]}, cmd, arg)>>)
  /\ Inv => \A e : Private(SendCards(e))
<1>1. Private(<< >>)
  BY FewReplies, CarriesFew DEF Private
<1>2. \A cmd, arg : Message(cmd, arg).cmd = cmd
  BY DEF Message
<1>3. ASSUME NEW cmd, NEW arg, cmd \notin Asides PROVE Private(<<SendToAllPlayers(cmd, arg)>>)
  BY <1>2, <1>3, MailToAll, CarriesFew DEF Private
<1>4. ASSUME NEW s \in Places, NEW cmd, NEW arg, cmd \notin Asides
      PROVE  Private(<<Reply({uuid[s]}, cmd, arg)>>)
  <2> SUFFICES ASSUME NEW v \in Users
               PROVE  LET mail == Mail(v, <<Reply({uuid[s]}, cmd, arg)>>)
                      IN  (~Seated(v) => mail = << >>) /\ Carries(mail, mail)
    BY DEF Private
  <2>1. CASE v = uuid[s]
    <3>1. Seated(v)
      BY <2>1 DEF Seated
    <3>2. Mail(v, <<Reply({v}, cmd, arg)>>) = <<Message(cmd, arg)>>
      BY MailToOne
    <3>3. Mail(v, <<Reply({uuid[s]}, cmd, arg)>>) = <<Message(cmd, arg)>>
      BY <2>1, <3>2
    <3>4. Carries(<<Message(cmd, arg)>>, <<Message(cmd, arg)>>)
      BY <1>2, <1>4, CarriesFew
    <3> QED
      BY <3>1, <3>3, <3>4
  <2>2. CASE v # uuid[s]
    <3>1. Mail(v, <<Reply({uuid[s]}, cmd, arg)>>) = << >>
      BY <2>2, MailToAnother
    <3> QED
      BY <3>1, CarriesFew
  <2> QED
    BY <2>1, <2>2
<1>5. ASSUME Inv, NEW e PROVE Private(SendCards(e))
  <2> SUFFICES ASSUME NEW v \in Users
               PROVE  LET mail == Mail(v, SendCards(e))
                      IN  (~Seated(v) => mail = << >>) /\ Carries(mail, mail)
    BY DEF Private
  <2>1. CASE Seated(v)
    <3>1. PICK p \in Places : uuid[p] = v
      BY <2>1 DEF Seated
    <3>2. uuid[p] # INVALID_UID
      BY <3>1, TableAssumption
    <3>3. Mail(v, SendCards(e)) = <<Message("NewDeal", e.hands[p])>>
      BY <1>5, <3>1, <3>2, MailOfCards
    <3>4. Message("NewDeal", e.hands[p]).cmd \notin Asides
      BY <1>2 DEF Asides
    <3>5. Carries(Mail(v, SendCards(e)), Mail(v, SendCards(e)))
      BY <3>3, <3>4, CarriesFew
    <3> QED
      BY <2>1, <3>5
  <2>2. CASE ~Seated(v)
    <3>1. Mail(v, SendCards(e)) = << >>
      BY <2>2, NoCards
    <3> QED
      BY <3>1, CarriesFew
  <2> QED
    BY <2>1, <2>2
<1> QED
  BY <1>1, <1>3, <1>4, <1>5

\* The table has served the first request of u, who has a seat, and sent the
\* replies.
LEMMA ServedStep ==
  ASSUME Inv, ClientInv, NEW u \in Users, NEW replies, Seated(u), Served(u),
         Deliver(replies), uuid' = uuid, SeatInv', Private(replies),
         \A p \in Places : uuid[p] = u =>
           View(engine', ack'[p], p, bot[u], wanted[u] \o Mail(u, replies), Tail(outbox[u])),
         \A p \in Places : uuid[p] \notin {u, INVALID_UID} =>
           View(engine', ack'[p], p, bot[uuid[p]],
                wanted[uuid[p]] \o Mail(uuid[p], replies), outbox[uuid[p]])
  PROVE  ClientInv'
<1>1. /\ DOMAIN bot' = Users /\ DOMAIN inbox' = Users /\ DOMAIN outbox' = Users
      /\ bot' = bot /\ outbox'[u] = Tail(outbox[u])
      /\ \A v \in Users : v # u => outbox'[v] = outbox[v]
  BY DEF Served, Deliver, ClientInv, BoxInv
<1>2. \A v : Seated(v)' <=> Seated(v)
  BY DEF Seated
<1>5. ASSUME NEW v \in Users
      PROVE  wanted'[v] = wanted[v] \o Mail(v, replies) /\ Carries(inbox'[v], wanted'[v])
  <2>1. Carries(Mail(v, replies), Mail(v, replies))
    BY DEF Private
  <2>2. Short(wanted[v] \o Mail(v, replies))
    <3>1. CASE Seated(v)
      <4>1. PICK p \in Places : uuid[p] = v
        BY <3>1 DEF Seated
      <4>2. v # INVALID_UID
        BY TableAssumption
      <4>3. \E o : View(engine', ack'[p], p, bot[v], wanted[v] \o Mail(v, replies), o)
        BY <4>1, <4>2
      <4> QED
        BY <4>3, QueueShort
    <3>2. CASE ~Seated(v)
      <4>1. Mail(v, replies) = << >>
        BY <3>2 DEF Private
      <4>2. Short(wanted[v])
        BY <3>2, QueueShort DEF ClientInv, BoxInv
      <4>3. wanted[v] \o << >> = wanted[v]
        BY <4>2, ShortKept
      <4> QED
        BY <4>1, <4>2, <4>3
    <3> QED
      BY <3>1, <3>2
  <2> QED
    BY <2>1, <2>2, Delivered
<1>3. BoxInv'
  <2>1. ASSUME NEW v \in Users, ~Seated(v) PROVE Joining(bot'[v], wanted'[v], outbox'[v])
    <3>1. Joining(bot[v], wanted[v], outbox[v])
      BY <2>1 DEF ClientInv, BoxInv
    <3>2. Mail(v, replies) = << >>
      BY <2>1 DEF Private
    <3>3. wanted[v] \o << >> = wanted[v]
      BY <3>1, QueueShort, ShortKept
    <3>4. v # u
      BY <2>1
    <3> QED
      BY <1>1, <1>5, <3>1, <3>2, <3>3, <3>4
  <2>2. \A v \in Users : IsBot(bot'[v]) /\ Carries(inbox'[v], wanted'[v])
    BY <1>1, <1>5 DEF ClientInv, BoxInv
  <2> QED
    BY <1>1, <1>2, <2>1, <2>2 DEF BoxInv
<1>4. ViewInv'
  <2> SUFFICES ASSUME NEW p \in Places, uuid[p] # INVALID_UID
               PROVE  View(engine', ack'[p], p, bot'[uuid[p]], wanted'[uuid[p]], outbox'[uuid[p]])
    BY DEF ViewInv
  <2>1. uuid[p] \in Users
    BY SeatFacts
  <2>2. CASE uuid[p] = u
    BY <1>1, <1>5, <2>2
  <2>3. CASE uuid[p] # u
    BY <1>1, <1>5, <2>1, <2>3
  <2> QED
    BY <2>2, <2>3
<1> QED
  BY <1>3, <1>4 DEF ClientInv

\* A request that changes nothing at the table.
LEMMA DroppedStep ==
  ASSUME Inv, ClientInv, NEW u \in Users, NEW p \in Places, uuid[p] = u, Served(u),
         Deliver(<< >>), UNCHANGED <<engine, uuid, ack>>,
         View(engine, ack[p], p, bot[u], wanted[u], Tail(outbox[u]))
  PROVE  ClientInv'
<1>1. \A v : Mail(v, << >>) = << >>
  BY FewReplies
<1>2. Seated(u)
  BY DEF Seated
<1>3. SeatInv'
  BY DEF ClientInv, SeatInv
<1>4. wanted[u] \o << >> = wanted[u]
  BY QueueShort, ShortKept
<1>5. ASSUME NEW s \in Places, uuid[s] = u
      PROVE  View(engine', ack'[s], s, bot[u], wanted[u] \o Mail(u, << >>), Tail(outbox[u]))
  <2>1. s = p
    BY <1>5, SeatFacts
  <2> QED
    BY <1>1, <1>4, <2>1
<1>6. ASSUME NEW s \in Places, uuid[s] \notin {u, INVALID_UID}
      PROVE  View(engine', ack'[s], s, bot[uuid[s]],
                  wanted[uuid[s]] \o Mail(uuid[s], << >>), outbox[uuid[s]])
  <2>1. View(engine, ack[s], s, bot[uuid[s]], wanted[uuid[s]], outbox[uuid[s]])
    BY <1>6 DEF ClientInv, ViewInv
  <2>2. wanted[uuid[s]] \o << >> = wanted[uuid[s]]
    BY <2>1, QueueShort, ShortKept
  <2> QED
    BY <1>1, <2>1, <2>2
<1>7. Private(<< >>)
  BY PrivateReplies
<1> QED
  BY <1>2, <1>3, <1>5, <1>6, <1>7, ServedStep

\* Nothing that the invariant of the table depends on has changed.
LEMMA SameTable ==
  ASSUME Inv, UNCHANGED <<engine, uuid, ack, admin, score, nbDeals, dealt, leaves>>
  PROVE  Inv'
BY DEF Inv, TypeOK, TableInv, AckInv, ScoreInv

\* An acknowledgement without a name is ignored.
LEMMA BadAckStep ==
  ASSUME Inv, ClientInv, NEW u \in Users, NEW p \in Places, uuid[p] = u, Served(u),
         Ack(u, "BadSeq"), Deliver(sent'),
         View(engine, ack[p], p, bot[u], wanted[u], Tail(outbox[u]))
  PROVE  Inv' /\ ClientInv'
<1>1. engine.seq # "BadSeq"
  BY EngineFields DEF Inv, TypeOK, Steps
<1>2. Sync(u, "BadSeq") = ack
  BY <1>1 DEF Sync, Inv, TypeOK
<1>3. ~ \A s \in Places : Sync(u, "BadSeq")[s]
  BY <1>2 DEF Inv, TableInv, AckInv
<1>4. sent' = << >> /\ UNCHANGED <<engine, uuid, ack, admin, score, nbDeals, dealt, leaves>>
  BY <1>2, <1>3 DEF Ack
<1>5. Inv'
  BY <1>4, SameTable
<1> QED
  BY <1>4, <1>5, DroppedStep

\* The acknowledgement of a bot is recorded, and others are awaited.
LEMMA AckRecorded ==
  ASSUME Inv, ClientInv, NEW u \in Users, NEW p \in Places, uuid[p] = u, Served(u),
         engine.seq \in AckSteps, Ack(u, engine.seq), Deliver(sent'),
         ~ \A s \in Places : Sync(u, engine.seq)[s],
         Tail(outbox[u]) = << >>, wanted[u] = << >>, Knows(engine, p, bot[u])
  PROVE  ClientInv'
<1>1. /\ ack' = Sync(u, engine.seq) /\ sent' = << >>
      /\ engine' = engine /\ uuid' = uuid
  BY DEF Ack
<1>2. \A s \in Places : ack'[s] = (ack[s] \/ uuid[s] = u)
  BY <1>1 DEF Sync
<1>3. \A v : Mail(v, << >>) = << >>
  BY FewReplies
<1>4. Seated(u)
  BY DEF Seated
<1>5. SeatInv'
  BY <1>1, <1>2, SeatFacts DEF ClientInv, SeatInv
<1>6. ASSUME NEW s \in Places, uuid[s] = u
      PROVE  View(engine', ack'[s], s, bot[u], wanted[u] \o Mail(u, << >>), Tail(outbox[u]))
  <2>1. s = p
    BY <1>6, SeatFacts
  <2>2. ack'[s] = TRUE
    BY <1>2, <1>6
  <2>3. wanted[u] \o Mail(u, << >>) = << >>
    BY <1>3, JoinFacts
  <2> QED
    BY <1>1, <2>1, <2>2, <2>3 DEF View, AtBarrier
<1>7. ASSUME NEW s \in Places, uuid[s] \notin {u, INVALID_UID}
      PROVE  View(engine', ack'[s], s, bot[uuid[s]],
                  wanted[uuid[s]] \o Mail(uuid[s], << >>), outbox[uuid[s]])
  <2>1. View(engine, ack[s], s, bot[uuid[s]], wanted[uuid[s]], outbox[uuid[s]])
    BY <1>7 DEF ClientInv, ViewInv
  <2>2. wanted[uuid[s]] \o << >> = wanted[uuid[s]]
    BY <2>1, QueueShort, ShortKept
  <2>3. ack'[s] = ack[s]
    BY <1>2, <1>7 DEF Inv, TypeOK
  <2> QED
    BY <1>1, <1>3, <2>1, <2>2, <2>3
<1>8. Private(<< >>)
  BY PrivateReplies
<1> QED
  BY <1>1, <1>4, <1>5, <1>6, <1>7, <1>8, ServedStep

-----------------------------------------------------------------------------
(* The next step of the table, for a bot that has nothing left to read. *)

\* Mail to the player at place p.
LEMMA PlaceMail ==
  ASSUME Inv, NEW p \in Places, uuid[p] # INVALID_UID, NEW s \in Places, NEW cmd, NEW arg
  PROVE  /\ s = p => Mail(uuid[p], <<Reply({uuid[s]}, cmd, arg)>>) = <<Message(cmd, arg)>>
         /\ s # p => Mail(uuid[p], <<Reply({uuid[s]}, cmd, arg)>>) = << >>
<1>1. CASE s = p
  <2>1. Mail(uuid[p], <<Reply({uuid[p]}, cmd, arg)>>) = <<Message(cmd, arg)>>
    BY MailToOne
  <2> QED
    BY <1>1, <2>1
<1>2. CASE s # p
  <2>1. uuid[p] # uuid[s]
    BY <1>2, SeatFacts
  <2>2. Mail(uuid[p], <<Reply({uuid[s]}, cmd, arg)>>) = << >>
    BY <2>1, MailToAnother
  <2> QED
    BY <1>2, <2>2
<1> QED
  BY <1>1, <1>2

\* All are told the news of the next step.
LEMMA ToldAll ==
  ASSUME Inv, NEW p \in Places, uuid[p] # INVALID_UID, NEW b, IsBot(b), b.place = p,
         NEW q, q = << >> \/ (IsOne(q) /\ ForOthers(q[1], p)),
         NEW o \in {<< >>, <<BadAck>>}, NEW a, ~a, NEW f, f.seq \in AckSteps, NEW cmd, NEW arg,
         cmd \in DOMAIN AckedStep, AckedStep[cmd] = f.seq,
         \A c : IsBot(c) /\ SameBot(b, c) => Knows(f, p, Decode(c, Message(cmd, arg)))
  PROVE  View(f, a, p, b, q \o Mail(uuid[p], <<SendToAllPlayers(cmd, arg)>>), o)
<1> DEFINE m == Message(cmd, arg)
<1>1. Mail(uuid[p], <<SendToAllPlayers(cmd, arg)>>) = <<m>>
  <2>1. uuid[p] \in Users /\ Seated(uuid[p])
    BY SeatFacts DEF Seated
  <2> QED
    BY <2>1, MailToAll
<1>2. News(m, f.seq)
  BY DEF News, Message
<1> HIDE DEF m
<1>3. View(f, a, p, b, q \o <<m>>, o)
  BY <1>2, TellView DEF m
<1> QED
  BY <1>1, <1>3

\* News that tells nothing of the cards.
LEMMA QuietNews ==
  ASSUME NEW f, NEW p, NEW b, Knows(f, p, b), NEW cmd, NEW arg,
         cmd \notin {"ReplyJoinTable", "NewDeal", "ShowDog", "StartDeal", "ShowCard",
                     "EndOfTrick"}
  PROVE  \A c : IsBot(c) /\ SameBot(b, c) => Knows(f, p, Decode(c, Message(cmd, arg)))
<1> SUFFICES ASSUME NEW c, IsBot(c), SameBot(b, c)
             PROVE  Knows(f, p, Decode(c, Message(cmd, arg)))
  OBVIOUS
<1>1. Message(cmd, arg).cmd = cmd
  BY DEF Message
<1>2. SameBot(c, Decode(c, Message(cmd, arg)))
  BY <1>1, DecodeQuiet
<1> QED
  BY <1>2, SameKnows

\* All are told who is asked.
LEMMA AskedOpenly ==
  ASSUME Inv, NEW p \in Places, uuid[p] # INVALID_UID, NEW b, NEW a, NEW f, Knows(f, p, b),
         NEW q, q = << >>, NEW cmd, NEW arg,
         \/ f.seq = "BID" /\ cmd = "RequestBid" /\ arg[1] = f.currentPlayer
         \/ f.seq = "PLAYED_CARD" /\ cmd = "PlayCard" /\ arg = f.currentPlayer
  PROVE  View(f, a, p, b, q \o Mail(uuid[p], <<SendToAllPlayers(cmd, arg)>>), << >>)
<1> DEFINE m == Message(cmd, arg)
           r == q \o Mail(uuid[p], <<SendToAllPlayers(cmd, arg)>>)
<1>1. r = <<m>>
  <2>1. uuid[p] \in Users /\ Seated(uuid[p])
    BY SeatFacts DEF Seated
  <2>2. Mail(uuid[p], <<SendToAllPlayers(cmd, arg)>>) = <<m>>
    BY <2>1, MailToAll
  <2> QED
    BY <2>2, JoinFacts
<1>2. m.cmd = cmd /\ m.arg = arg
  BY DEF Message
<1> HIDE DEF m, r
<1>3. IsOne(r) /\ r[1] = m
  BY <1>1, ShortFacts
<1>4. Waited(f) = f.currentPlayer
  BY DEF Waited
<1>5. CASE p = Waited(f)
  <2>1. Question(f, r[1])
    BY <1>2, <1>3 DEF Question
  <2> QED
    BY <1>3, <1>5, <2>1, AskView DEF r
<1>6. CASE p # Waited(f)
  <2>1. ForOthers(r[1], p)
    BY <1>2, <1>3, <1>4, <1>6 DEF ForOthers
  <2> QED
    BY <1>3, <1>6, <2>1, WatchView DEF r
<1> QED
  BY <1>5, <1>6

\* One player is asked, and the others are not told.
LEMMA AskedAlone ==
  ASSUME Inv, NEW p \in Places, uuid[p] # INVALID_UID, NEW b, NEW a, NEW f, Knows(f, p, b),
         NEW q, q = << >>, NEW s \in Places, s = Waited(f), NEW cmd, NEW arg,
         \/ f.seq = "DISCARD" /\ cmd = "BuildDiscard"
         \/ f.seq = "HANDLE" /\ cmd = "AskForHandle"
  PROVE  View(f, a, p, b, q \o Mail(uuid[p], <<Reply({uuid[s]}, cmd, arg)>>), << >>)
<1> DEFINE m == Message(cmd, arg)
           mail == Mail(uuid[p], <<Reply({uuid[s]}, cmd, arg)>>)
           r == q \o mail
<1>1. (s = p => mail = <<m>>) /\ (s # p => mail = << >>)
  BY PlaceMail
<1>2. Question(f, m)
  BY DEF Question, Message
<1> HIDE DEF m, mail
<1>3. (s = p => r = <<m>>) /\ (s # p => r = << >>)
  BY <1>1, JoinFacts
<1> HIDE DEF r
<1>4. CASE s = p
  <2>1. IsOne(r) /\ r[1] = m
    BY <1>3, <1>4, ShortFacts
  <2>2. IsOne(r) /\ Question(f, r[1]) /\ p = Waited(f)
    BY <1>2, <1>4, <2>1
  <2>3. f.seq \in {"BID", "DISCARD", "HANDLE", "PLAYED_CARD"}
    OBVIOUS
  <2>4. View(f, a, p, b, r, << >>)
    BY <2>2, <2>3, AskView
  <2> QED
    BY <2>4 DEF r, mail
<1>5. CASE s # p
  <2>1. View(f, a, p, b, r, << >>)
    BY <1>3, <1>5, WaitView
  <2> QED
    BY <2>1 DEF r, mail
<1> QED
  BY <1>4, <1>5

\* What a step of the deal keeps is still known.
LEMMA StillKnows ==
  ASSUME NEW e, NEW f, NEW p, NEW b, Knows(e, p, b), e.seq \in DealSteps,
         f.hands = e.hands,
         f.seq \in InPlay => e.seq \in InPlay /\ f.trick = e.trick,
         f.seq \in {"SHOW_DOG", "DISCARD"} =>
           e.seq \in {"SHOW_DOG", "DISCARD"} /\ f.ctx.dog = e.ctx.dog
  PROVE  Knows(f, p, b)
BY DEF Knows

\* PlayingTable::NewGame.
LEMMA NewGameView ==
  ASSUME Inv, NEW p \in Places, uuid[p] # INVALID_UID, NEW b, IsBot(b), Knows(engine, p, b),
         NEW a, ~a, NEW q, q = << >>, NEW n, NewGame(n)
  PROVE  View(engine', a, p, b, q \o Mail(uuid[p], sent'), << >>) /\ Private(sent')
<1> DEFINE f == EngineNewGame(engine)
<1>1. engine' = f /\ sent' = <<SendToAllPlayers("NewGame", n)>>
  BY DEF NewGame
<1>2. f.seq = "READY"
  BY NewGameCorrect DEF Inv, TypeOK
<1> HIDE DEF f
<1>3. b.place = p /\ Knows(f, p, b)
  BY <1>2 DEF Knows, DealSteps, BidSteps, PlaySteps, InPlay
<1>4. \A c : IsBot(c) /\ SameBot(b, c) => Knows(f, p, Decode(c, Message("NewGame", n)))
  BY <1>3, QuietNews
<1>5. "NewGame" \in DOMAIN AckedStep /\ AckedStep["NewGame"] = f.seq /\ f.seq \in AckSteps
  BY <1>2 DEF AckedStep, AckSteps
<1>6. View(f, a, p, b, q \o Mail(uuid[p], <<SendToAllPlayers("NewGame", n)>>), << >>)
  BY <1>3, <1>4, <1>5, ToldAll
<1> QED
  BY <1>1, <1>6, PrivateReplies DEF Asides

\* PlayingTable::NewDeal.
LEMMA NewDealView ==
  ASSUME Inv, NEW p \in Places, uuid[p] # INVALID_UID, NEW b, IsBot(b), Knows(engine, p, b),
         NEW a, ~a, NEW q, q = << >>, NEW sc, NewDeal(sc)
  PROVE  View(engine', a, p, b, q \o Mail(uuid[p], sent'), << >>) /\ Private(sent')
<1> DEFINE f == engine'
           m == Message("NewDeal", f.hands[p])
<1>1. PICK d \in Deals : engine' = EngineNewDeal(engine, d) /\ sent' = SendCards(f)
  BY DEF NewDeal
<1>2. f.seq = "CARDS"
  BY <1>1, NewDealFields, TableAssumption DEF Inv, TypeOK
<1> HIDE DEF f
<1>3. Mail(uuid[p], SendCards(f)) = <<m>>
  BY MailOfCards
<1>4. m.cmd = "NewDeal" /\ m.arg = f.hands[p]
  BY DEF Message
<1>5. News(m, f.seq) /\ f.seq \in AckSteps
  BY <1>2, <1>4 DEF News, AckedStep, AckSteps
<1> HIDE DEF m
<1>6. ASSUME NEW c, IsBot(c), SameBot(b, c) PROVE Knows(f, p, Decode(c, m))
  <2>1. Decode(c, m).place = p /\ Decode(c, m).deck = f.hands[p]
    BY <1>4, <1>6, DecodeTells DEF SameBot, Knows
  <2> QED
    BY <1>2, <2>1 DEF Knows, InPlay, PlaySteps
<1>7. b.place = p
  BY DEF Knows
<1>8. View(f, a, p, b, q \o <<m>>, << >>)
  BY <1>5, <1>6, <1>7, TellView
<1>9. View(f, a, p, b, q \o Mail(uuid[p], sent'), << >>)
  BY <1>1, <1>3, <1>8
<1> QED
  BY <1>1, <1>9, PrivateReplies DEF Asides, f

\* PlayingTable::SendNextBidSequence.
LEMMA NextBidView ==
  ASSUME Inv, Inv', NEW p \in Places, uuid[p] # INVALID_UID, NEW b, IsBot(b),
         Knows(engine, p, b), NEW a, ~a, NEW q, q = << >>,
         engine.seq \in DealSteps, NEW e, e \in Engines, NextBidSequence(e),
         e.seq \in {"BID", "ALL_PASSED", "KING_CALL", "SHOW_DOG", "START_DEAL"},
         e.hands = engine.hands
  PROVE  View(engine', a, p, b, q \o Mail(uuid[p], sent'), << >>) /\ Private(sent')
<1> DEFINE f == engine'
<1>1. f = AfterBids(e) /\ sent' = <<SendNextBidSequence(f)>>
  BY DEF NextBidSequence
<1>2. f.seq = e.seq /\ f.hands = engine.hands
  BY <1>1, StartDealCards DEF AfterBids, EngineStartDeal, Engines
<1>3. f \in Engines /\ EngineInv(f)
  BY DEF Inv, TypeOK, TableInv
<1> HIDE DEF f
<1>4. b.place = p /\ b.deck = f.hands[p]
  BY <1>2 DEF Knows
<1>5. f.seq \in {"BID", "ALL_PASSED", "KING_CALL"} => Knows(f, p, b)
  BY <1>4 DEF Knows, InPlay, PlaySteps
<1>6. CASE f.seq = "BID"
  <2> DEFINE arg == <<f.currentPlayer, f.ctx.bid.contract>>
  <2>1. sent' = <<SendToAllPlayers("RequestBid", arg)>>
    BY <1>1, <1>6 DEF SendNextBidSequence
  <2>2. arg[1] = f.currentPlayer
    OBVIOUS
  <2> HIDE DEF arg
  <2>3. View(f, a, p, b, q \o Mail(uuid[p], <<SendToAllPlayers("RequestBid", arg)>>), << >>)
    BY <1>5, <1>6, <2>2, AskedOpenly
  <2> QED
    BY <2>1, <2>3, PrivateReplies DEF Asides, f
<1>7. CASE f.seq = "ALL_PASSED"
  <2>1. sent' = <<SendToAllPlayers("AllPassed", << >>)>>
    BY <1>1, <1>7 DEF SendNextBidSequence
  <2>2. \A c : IsBot(c) /\ SameBot(b, c) => Knows(f, p, Decode(c, Message("AllPassed", << >>)))
    BY <1>5, <1>7, QuietNews
  <2>3. "AllPassed" \in DOMAIN AckedStep /\ AckedStep["AllPassed"] = f.seq /\ f.seq \in AckSteps
    BY <1>7 DEF AckedStep, AckSteps
  <2>4. View(f, a, p, b, q \o Mail(uuid[p], <<SendToAllPlayers("AllPassed", << >>)>>), << >>)
    BY <1>4, <2>2, <2>3, ToldAll
  <2> QED
    BY <2>1, <2>4, PrivateReplies DEF Asides, f
<1>8. CASE f.seq = "KING_CALL"
  <2> DEFINE m == Message("RequestKingCall", << >>)
             r == q \o Mail(uuid[p], sent')
  <2>1. sent' = <<SendToAllPlayers("RequestKingCall", << >>)>>
    BY <1>1, <1>8 DEF SendNextBidSequence
  <2>2. uuid[p] \in Users /\ Seated(uuid[p])
    BY SeatFacts DEF Seated
  <2>3. Mail(uuid[p], sent') = <<m>>
    BY <2>1, <2>2, MailToAll
  <2>4. m.cmd = "RequestKingCall"
    BY DEF Message
  <2> HIDE DEF m
  <2>5. r = <<m>>
    BY <2>3, JoinFacts
  <2> HIDE DEF r
  <2>6. IsOne(r) /\ r[1] = m
    BY <2>5, ShortFacts
  <2>7. View(f, a, p, b, r, << >>)
    BY <1>5, <1>8, <2>4, <2>6 DEF View, AtKingCall
  <2> QED
    BY <2>1, <2>7, PrivateReplies DEF Asides, f, r
<1>9. CASE f.seq = "SHOW_DOG"
  <2> DEFINE m == Message("ShowDog", f.ctx.dog)
  <2>1. sent' = <<SendToAllPlayers("ShowDog", f.ctx.dog)>>
    BY <1>1, <1>9 DEF SendNextBidSequence
  <2>2. m.cmd = "ShowDog" /\ m.arg = f.ctx.dog
    BY DEF Message
  <2>3. ASSUME NEW c, IsBot(c), SameBot(b, c) PROVE Knows(f, p, Decode(c, m))
    <3>1. /\ Decode(c, m).place = p /\ Decode(c, m).deck = f.hands[p]
          /\ Decode(c, m).dog = f.ctx.dog
      BY <1>4, <2>2, <2>3, DecodeTells DEF SameBot
    <3> QED
      BY <1>9, <3>1 DEF Knows, InPlay, PlaySteps
  <2>4. "ShowDog" \in DOMAIN AckedStep /\ AckedStep["ShowDog"] = f.seq /\ f.seq \in AckSteps
    BY <1>9 DEF AckedStep, AckSteps
  <2>5. View(f, a, p, b, q \o Mail(uuid[p], <<SendToAllPlayers("ShowDog", f.ctx.dog)>>), << >>)
    BY <1>4, <2>3, <2>4, ToldAll
  <2> QED
    BY <2>1, <2>5, PrivateReplies DEF Asides, f
<1>10. CASE f.seq = "START_DEAL"
  <2> DEFINE arg == <<f.currentPlayer, f.ctx.bid>>
             m == Message("StartDeal", arg)
  <2>1. sent' = <<SendToAllPlayers("StartDeal", arg)>>
    BY <1>1, <1>10 DEF SendNextBidSequence, SendStartDeal
  <2> HIDE DEF arg
  <2>2. m.cmd = "StartDeal"
    BY DEF Message
  <2>3. f.trick = << >>
    BY <1>3, <1>10 DEF EngineInv, PlayInv
  <2>4. ASSUME NEW c, IsBot(c), SameBot(b, c) PROVE Knows(f, p, Decode(c, m))
    <3>1. /\ Decode(c, m).place = p /\ Decode(c, m).deck = f.hands[p]
          /\ Decode(c, m).trick = f.trick
      BY <1>4, <2>2, <2>3, <2>4, DecodeTells DEF SameBot
    <3> QED
      BY <1>10, <3>1 DEF Knows
  <2>5. "StartDeal" \in DOMAIN AckedStep /\ AckedStep["StartDeal"] = f.seq /\ f.seq \in AckSteps
    BY <1>10 DEF AckedStep, AckSteps
  <2>6. View(f, a, p, b, q \o Mail(uuid[p], <<SendToAllPlayers("StartDeal", arg)>>), << >>)
    BY <1>4, <2>4, <2>5, ToldAll
  <2> QED
    BY <2>1, <2>6, PrivateReplies DEF Asides, f
<1> QED
  BY <1>2, <1>6, <1>7, <1>8, <1>9, <1>10

\* The dog has been shown: the taker is asked for his discard.
LEMMA DogView ==
  ASSUME Inv, NEW p \in Places, uuid[p] # INVALID_UID, NEW b, IsBot(b), Knows(engine, p, b),
         NEW a, NEW q, q = << >>, engine.seq = "SHOW_DOG",
         engine' = DiscardSequence(engine),
         sent' = <<Reply({uuid[engine.ctx.bid.taker]}, "BuildDiscard", << >>)>>
  PROVE  View(engine', a, p, b, q \o Mail(uuid[p], sent'), << >>) /\ Private(sent')
<1> DEFINE f == DiscardSequence(engine)
           s == engine.ctx.bid.taker
<1>1. f.seq = "DISCARD" /\ f.hands = engine.hands /\ f.ctx = engine.ctx
  BY DEF DiscardSequence, Inv, TypeOK, Engines
<1>2. s \in Places
  BY DEF Inv, TableInv, EngineInv, TakerInv, HasTaker, DealSteps, BidSteps
<1> HIDE DEF f
<1>3. Waited(f) = s
  BY <1>1 DEF Waited
<1>4. Knows(f, p, b)
  BY <1>1 DEF Knows, DealSteps, BidSteps, InPlay, PlaySteps
<1> HIDE DEF s
<1>5. View(f, a, p, b, q \o Mail(uuid[p], <<Reply({uuid[s]}, "BuildDiscard", << >>)>>), << >>)
  BY <1>1, <1>2, <1>3, <1>4, AskedAlone
<1> QED
  BY <1>2, <1>5, PrivateReplies DEF Asides, f, s

\* Engine::GameSequence leaves the hands, and the trick unless it is over.
LEMMA GameSequenceCards ==
  ASSUME NEW e \in Engines
  PROVE  LET f == EngineGameSequence(e)
         IN  /\ f.hands = e.hands
             /\ f.seq \in {"HANDLE", "PLAYED_CARD"} => f.trick = e.trick
             /\ f.seq = "END_OF_TRICK" => f.trick = << >>
<1>1. CASE IsEndOfTrick(e)
  <2>1. CountTrick(e) \in Engines /\ CountTrick(e).hands = e.hands
    BY CountTrickCorrect
  <2>2. /\ FinishTrick(e).hands = e.hands /\ FinishTrick(e).trick = << >>
        /\ FinishTrick(e).seq = "END_OF_TRICK"
    BY <2>1 DEF FinishTrick, Engines
  <2> QED
    BY <1>1, <2>2 DEF EngineGameSequence
<1>2. CASE ~IsEndOfTrick(e)
  BY <1>2 DEF EngineGameSequence, Engines
<1> QED
  BY <1>1, <1>2

\* The player who is asked for a handle or a card has a place.
LEMMA PlayerInTurn ==
  ASSUME NEW f \in Engines, EngineInv(f), f.seq \in {"HANDLE", "PLAYED_CARD"}
  PROVE  f.currentPlayer \in Places
<1>1. InTrick(f) /\ f.position < NbPlayers
  BY DEF EngineInv, PlayInv, PlaySteps
<1>2. f.position \in Places
  BY <1>1, EngineFields, TarotAssumption DEF Places
<1> QED
  BY <1>1, <1>2, ForwardType DEF InTrick

\* PlayingTable::GameSequence.
LEMMA GameView ==
  ASSUME Inv, NEW p \in Places, uuid[p] # INVALID_UID, NEW b, IsBot(b), Knows(engine, p, b),
         NEW a, ~a, NEW q, q = << >>, GameSequence,
         engine.seq \in {"START_DEAL", "HANDLE", "SHOW_HANDLE", "SHOW_CARD", "END_OF_TRICK"}
  PROVE  View(engine', a, p, b, q \o Mail(uuid[p], sent'), << >>) /\ Private(sent')
<1> DEFINE g == EngineGameSequence(engine)
           f == engine'
<1>1. /\ f = IF IsLastTrick(g) THEN EngineEndOfDeal(g) ELSE g
      /\ IsLastTrick(g) => sent' = <<SendToAllPlayers("EndOfDeal", g.points)>>
      /\ ~IsLastTrick(g) =>
           /\ g.seq = "END_OF_TRICK" => sent' = <<SendToAllPlayers("EndOfTrick", g.currentPlayer)>>
           /\ g.seq = "PLAYED_CARD" => sent' = <<SendToAllPlayers("PlayCard", g.currentPlayer)>>
           /\ g.seq = "HANDLE" => sent' = <<Reply({uuid[g.currentPlayer]}, "AskForHandle", << >>)>>
  BY DEF GameSequence
<1>2. engine \in Engines /\ EngineInv(engine)
  BY DEF Inv, TypeOK, TableInv
<1>3. /\ g \in Engines
      /\ IsLastTrick(g) => HasTaker(g) /\ CardsApart(g)
      /\ ~IsLastTrick(g) => EngineInv(g) /\ g.seq \in {"HANDLE", "PLAYED_CARD", "END_OF_TRICK"}
  BY <1>2, GameSequenceCorrect
<1>4. /\ g.hands = engine.hands
      /\ g.seq \in {"HANDLE", "PLAYED_CARD"} => g.trick = engine.trick
      /\ g.seq = "END_OF_TRICK" => g.trick = << >>
  BY <1>2, GameSequenceCards
<1> HIDE DEF g, f
<1>5. b.place = p /\ b.deck = g.hands[p] /\ b.trick = engine.trick
  BY <1>4 DEF Knows, DealSteps, InPlay, PlaySteps
<1>6. CASE IsLastTrick(g)
  <2>1. f = EngineEndOfDeal(g) /\ sent' = <<SendToAllPlayers("EndOfDeal", g.points)>>
    BY <1>1, <1>6
  <2>2. f.seq = "END_OF_DEAL" /\ f.hands = g.hands
    BY <1>3, <2>1 DEF EngineEndOfDeal, Engines
  <2>3. Knows(f, p, b)
    BY <1>5, <2>2 DEF Knows, InPlay, PlaySteps
  <2>4. \A c : IsBot(c) /\ SameBot(b, c) => Knows(f, p, Decode(c, Message("EndOfDeal", g.points)))
    BY <2>3, QuietNews
  <2>5. "EndOfDeal" \in DOMAIN AckedStep /\ AckedStep["EndOfDeal"] = f.seq /\ f.seq \in AckSteps
    BY <2>2 DEF AckedStep, AckSteps
  <2>6. View(f, a, p, b, q \o Mail(uuid[p], <<SendToAllPlayers("EndOfDeal", g.points)>>), << >>)
    BY <1>5, <2>4, <2>5, ToldAll
  <2> QED
    BY <2>1, <2>6, PrivateReplies DEF Asides, f
<1>7. CASE ~IsLastTrick(g) /\ g.seq = "END_OF_TRICK"
  <2> DEFINE m == Message("EndOfTrick", g.currentPlayer)
  <2>1. f = g /\ sent' = <<SendToAllPlayers("EndOfTrick", g.currentPlayer)>>
    BY <1>1, <1>7
  <2>2. m.cmd = "EndOfTrick"
    BY DEF Message
  <2>3. ASSUME NEW c, IsBot(c), SameBot(b, c) PROVE Knows(f, p, Decode(c, m))
    <3>1. /\ Decode(c, m).place = p /\ Decode(c, m).deck = f.hands[p]
          /\ Decode(c, m).trick = f.trick
      BY <1>4, <1>5, <1>7, <2>1, <2>2, <2>3, DecodeTells DEF SameBot
    <3> QED
      BY <1>7, <2>1, <3>1 DEF Knows
  <2>4. "EndOfTrick" \in DOMAIN AckedStep /\ AckedStep["EndOfTrick"] = f.seq /\ f.seq \in AckSteps
    BY <1>7, <2>1 DEF AckedStep, AckSteps
  <2>5. View(f, a, p, b,
             q \o Mail(uuid[p], <<SendToAllPlayers("EndOfTrick", g.currentPlayer)>>), << >>)
    BY <1>5, <2>3, <2>4, ToldAll
  <2> QED
    BY <2>1, <2>5, PrivateReplies DEF Asides, f
<1>8. CASE ~IsLastTrick(g) /\ g.seq \in {"HANDLE", "PLAYED_CARD"}
  <2>1. f = g /\ Knows(g, p, b)
    BY <1>1, <1>4, <1>5, <1>8 DEF Knows, DealSteps
  <2>2. CASE g.seq = "PLAYED_CARD"
    <3>1. sent' = <<SendToAllPlayers("PlayCard", g.currentPlayer)>>
      BY <1>1, <1>8, <2>2
    <3>2. View(g, a, p, b,
               q \o Mail(uuid[p], <<SendToAllPlayers("PlayCard", g.currentPlayer)>>), << >>)
      BY <2>1, <2>2, AskedOpenly
    <3> QED
      BY <2>1, <3>1, <3>2, PrivateReplies DEF Asides, f
  <2>3. CASE g.seq = "HANDLE"
    <3> DEFINE s == g.currentPlayer
    <3>1. sent' = <<Reply({uuid[s]}, "AskForHandle", << >>)>>
      BY <1>1, <1>8, <2>3
    <3>2. s \in Places
      BY <1>3, <1>8, PlayerInTurn
    <3>3. s = Waited(g)
      BY <2>3 DEF Waited
    <3> HIDE DEF s
    <3>4. View(g, a, p, b, q \o Mail(uuid[p], <<Reply({uuid[s]}, "AskForHandle", << >>)>>), << >>)
      BY <2>1, <2>3, <3>2, <3>3, AskedAlone
    <3> QED
      BY <2>1, <3>1, <3>2, <3>4, PrivateReplies DEF Asides, f
  <2> QED
    BY <1>8, <2>2, <2>3
<1> QED
  BY <1>3, <1>6, <1>7, <1>8

\* PlayingTable::EndOfDeal.
LEMMA EndOfDealView ==
  ASSUME Inv, NEW p \in Places, uuid[p] # INVALID_UID, NEW b, IsBot(b), Knows(engine, p, b),
         NEW a, ~a, NEW q, q = << >>, EndOfDeal
  PROVE  View(engine', a, p, b, q \o Mail(uuid[p], sent'), << >>) /\ Private(sent')
<1> DEFINE sc == AddPoints(score, engine.points, engine.ctx.bid)
           f == EngineNewGame(engine)
           w == GetWinner(sc)
<1>1. CASE sc.counter < sc.turns
  <2>1. NewDeal(sc)
    BY <1>1 DEF EndOfDeal
  <2> QED
    BY <2>1, NewDealView
<1>2. CASE ~(sc.counter < sc.turns)
  <2>1. engine' = f /\ sent' = <<SendToAllPlayers("EndOfGame", w)>>
    BY <1>2 DEF EndOfDeal
  <2>2. f.seq = "READY"
    BY NewGameCorrect DEF Inv, TypeOK
  <2> HIDE DEF f, w
  <2>3. b.place = p /\ Knows(f, p, b)
    BY <2>2 DEF Knows, DealSteps, BidSteps, PlaySteps, InPlay
  <2>4. \A c : IsBot(c) /\ SameBot(b, c) => Knows(f, p, Decode(c, Message("EndOfGame", w)))
    BY <2>3, QuietNews
  <2>5. "EndOfGame" \in DOMAIN AckedStep /\ AckedStep["EndOfGame"] = f.seq /\ f.seq \in AckSteps
    BY <2>2 DEF AckedStep, AckSteps
  <2>6. View(f, a, p, b, q \o Mail(uuid[p], <<SendToAllPlayers("EndOfGame", w)>>), << >>)
    BY <2>3, <2>4, <2>5, ToldAll
  <2> QED
    BY <2>1, <2>6, PrivateReplies DEF Asides
<1> QED
  BY <1>1, <1>2

-----------------------------------------------------------------------------
(* The table goes on: every bot is told, and none has anything left to read. *)

\* The switch of ExecuteRequest when every seat has acknowledged.
LEMMA SyncedView ==
  ASSUME Inv, SeatInv, Inv', AllSynced(engine.seq), NEW p \in Places, uuid[p] # INVALID_UID,
         NEW b, IsBot(b), Knows(engine, p, b), NEW a, ~a, NEW q, q = << >>
  PROVE  View(engine', a, p, b, q \o Mail(uuid[p], sent'), << >>) /\ Private(sent')
<1>1. engine \in Engines /\ EngineInv(engine)
  BY DEF Inv, TypeOK, TableInv
<1>2. CASE engine.seq = "PLAYERS"
  <2>1. CASE AdminMode
    <3>1. engine' = engine /\ sent' = << >>
      BY <1>2, <2>1 DEF AllSynced
    <3>2. Mail(uuid[p], << >>) = << >> /\ q \o << >> = << >>
      BY FewReplies, JoinFacts
    <3>3. View(engine, a, p, b, << >>, << >>)
      BY <1>2, <2>1 DEF View, AtBarrier, AckSteps
    <3> QED
      BY <3>1, <3>2, <3>3, PrivateReplies DEF Asides
  <2>2. CASE ~AdminMode
    <3>1. NewGame(nbDeals)
      BY <1>2, <2>2 DEF AllSynced
    <3> QED
      BY <3>1, NewGameView
  <2> QED
    BY <2>1, <2>2
<1>3. CASE engine.seq \in {"READY", "ALL_PASSED"}
  <2>1. NewDeal(score)
    BY <1>3 DEF AllSynced
  <2> QED
    BY <2>1, NewDealView
<1>4. CASE engine.seq \in {"CARDS", "SHOW_BID"}
  <2> DEFINE e == BidSequence(engine)
  <2>1. NextBidSequence(e)
    BY <1>4 DEF AllSynced
  <2>2. e \in Engines /\ e.hands = engine.hands
        /\ e.seq \in {"BID", "ALL_PASSED", "KING_CALL", "SHOW_DOG", "START_DEAL"}
    BY <1>1, <1>4, BidSequenceCorrect, BidSequenceCards
  <2>3. engine.seq \in DealSteps
    BY <1>4 DEF DealSteps, BidSteps
  <2> HIDE DEF e
  <2> QED
    BY <2>1, <2>2, <2>3, NextBidView
<1>5. CASE engine.seq = "SHOW_KING_CALL"
  BY <1>1, <1>5 DEF SeatInv, FiveSteps, EngineInv, BidsInv
<1>6. CASE engine.seq = "SHOW_DOG"
  BY <1>6, DogView DEF AllSynced
<1>7. CASE engine.seq \in {"START_DEAL", "SHOW_HANDLE", "SHOW_CARD", "END_OF_TRICK"}
  <2>1. GameSequence
    BY <1>7 DEF AllSynced
  <2>2. engine.seq \in {"START_DEAL", "HANDLE", "SHOW_HANDLE", "SHOW_CARD", "END_OF_TRICK"}
    BY <1>7
  <2> QED
    BY <2>1, <2>2, GameView
<1>8. CASE engine.seq = "END_OF_DEAL"
  <2>1. EndOfDeal
    BY <1>8 DEF AllSynced
  <2> QED
    BY <2>1, EndOfDealView
<1> QED
  BY <1>2, <1>3, <1>4, <1>5, <1>6, <1>7, <1>8 DEF AllSynced

\* All seats stay taken, and five players never get beyond the king call.
LEMMA SeatsKept ==
  ASSUME Inv, SeatInv, \A p \in Places : uuid[p] # INVALID_UID, uuid' = uuid,
         engine'.seq \in StepGraph[engine.seq], engine.seq # "KING_CALL"
  PROVE  SeatInv'
<1>1. NbPlayers = 5 => engine'.seq \in FiveSteps
  <2> SUFFICES ASSUME NbPlayers = 5 PROVE engine'.seq \in FiveSteps
    OBVIOUS
  <2>1. engine.seq \in FiveSteps \ {"KING_CALL"}
    BY DEF SeatInv
  <2> QED
    BY <2>1, StepGraphFacts DEF FiveSteps
<1> QED
  BY <1>1 DEF SeatInv

\* The last bot acknowledges the step, and the table goes on.
LEMMA SyncedStep ==
  ASSUME Inv, ClientInv, NEW u \in Users, NEW p \in Places, uuid[p] = u, Served(u),
         engine.seq \in AckSteps, Ack(u, engine.seq), Deliver(sent'),
         \A s \in Places : Sync(u, engine.seq)[s],
         Tail(outbox[u]) = << >>, wanted[u] = << >>, Knows(engine, p, bot[u])
  PROVE  Inv' /\ ClientInv'
<1>1. ack' = NoAck /\ AllSynced(engine.seq) /\ UNCHANGED <<uuid, admin, leaves>>
  BY DEF Ack
<1>2. StepTaken
  BY <1>1, AllSyncedStep
<1>3. Inv'
  BY <1>1, <1>2, StepTakenInv
<1>4. \A s \in Places : ack[s] \/ uuid[s] = u
  BY DEF Sync
<1>5. \A s \in Places : uuid[s] # INVALID_UID
  BY <1>4, SeatFacts DEF ClientInv, SeatInv
<1>6. SeatInv'
  <2>1. engine.seq # "KING_CALL"
    BY DEF AckSteps
  <2> QED
    BY <1>1, <1>2, <1>5, <2>1, SeatsKept DEF StepTaken, ClientInv
<1>7. Seated(u)
  BY DEF Seated
<1>8. \A s \in Places : ack'[s] = FALSE
  BY <1>1 DEF NoAck
<1>9. ASSUME NEW s \in Places
      PROVE  /\ IsBot(bot[uuid[s]]) /\ Knows(engine, s, bot[uuid[s]])
             /\ wanted[uuid[s]] = << >>
             /\ uuid[s] # u => outbox[uuid[s]] = << >>
  <2>1. uuid[s] \in Users
    BY <1>5, SeatFacts
  <2>2. IsBot(bot[uuid[s]])
    BY <2>1, BotFacts
  <2>3. CASE uuid[s] = u
    <3>1. s = p
      BY <2>3, SeatFacts, <1>5
    <3> QED
      BY <2>2, <2>3, <3>1
  <2>4. CASE uuid[s] # u
    <3>1. ack[s] /\ View(engine, ack[s], s, bot[uuid[s]], wanted[uuid[s]], outbox[uuid[s]])
      BY <1>4, <1>5, <2>4 DEF ClientInv, ViewInv
    <3>2. engine.seq \notin {"BID", "DISCARD", "HANDLE", "PLAYED_CARD", "KING_CALL"}
      BY DEF AckSteps
    <3> QED
      BY <2>2, <3>1, <3>2 DEF View, AtBarrier
  <2> QED
    BY <2>3, <2>4
<1>10. ASSUME NEW s \in Places
       PROVE  /\ View(engine', ack'[s], s, bot[uuid[s]],
                       wanted[uuid[s]] \o Mail(uuid[s], sent'), << >>)
              /\ Private(sent')
  <2>1. SeatInv /\ ~ack'[s] /\ uuid[s] # INVALID_UID
    BY <1>5, <1>8 DEF ClientInv
  <2>2. IsBot(bot[uuid[s]]) /\ Knows(engine, s, bot[uuid[s]]) /\ wanted[uuid[s]] = << >>
    BY <1>9
  <2> QED
    BY <1>1, <1>3, <2>1, <2>2, SyncedView
<1>11. Private(sent')
  BY <1>10
<1>12. ASSUME NEW s \in Places, uuid[s] = u
       PROVE  View(engine', ack'[s], s, bot[u], wanted[u] \o Mail(u, sent'), Tail(outbox[u]))
  BY <1>10, <1>12
<1>13. ASSUME NEW s \in Places, uuid[s] \notin {u, INVALID_UID}
       PROVE  View(engine', ack'[s], s, bot[uuid[s]],
                   wanted[uuid[s]] \o Mail(uuid[s], sent'), outbox[uuid[s]])
  BY <1>9, <1>10, <1>13
<1>14. ClientInv'
  BY <1>1, <1>6, <1>7, <1>11, <1>12, <1>13, ServedStep
<1> QED
  BY <1>3, <1>14

-----------------------------------------------------------------------------
(* The player that the table waits for answers. *)

\* The others have nothing to send, and at most one message to read, which is
\* not for them.
LEMMA Bystander ==
  ASSUME Inv, ClientInv, engine.seq \in {"BID", "DISCARD", "HANDLE", "PLAYED_CARD"},
         NEW s \in Places, s # Waited(engine)
  PROVE  LET v == uuid[s]
         IN  /\ v # INVALID_UID /\ IsBot(bot[v]) /\ outbox[v] = << >> /\ Knows(engine, s, bot[v])
             /\ \/ wanted[v] = << >>
                \/ /\ engine.seq \in {"BID", "PLAYED_CARD"}
                   /\ IsOne(wanted[v]) /\ ForOthers(wanted[v][1], s)
<1> DEFINE v == uuid[s]
<1>1. v # INVALID_UID
  BY DEF ClientInv, SeatInv
<1>2. IsBot(bot[v])
  BY <1>1, SeatFacts, BotFacts
<1>3. View(engine, ack[s], s, bot[v], wanted[v], outbox[v])
  BY <1>1 DEF ClientInv, ViewInv
<1>4. engine.seq \notin AckSteps /\ engine.seq # "KING_CALL"
  BY DEF AckSteps
<1> HIDE DEF v
<1>5. AtQuestion(engine, s, bot[v], wanted[v], outbox[v])
  BY <1>3, <1>4 DEF View
<1> QED
  BY <1>1, <1>2, <1>5 DEF AtQuestion, v

\* The table has accepted the answer of u and announced the next step.
LEMMA AnsweredStep ==
  ASSUME Inv, ClientInv, NEW u \in Users, NEW p \in Places, uuid[p] = u, Served(u),
         Deliver(sent'), AnswerTaken, engine.seq # "KING_CALL", Private(sent'),
         NEW o, o = Tail(outbox[u]),
         View(engine', ack'[p], p, bot[u], wanted[u] \o Mail(u, sent'), o),
         \A s \in Places : s # p =>
           View(engine', ack'[s], s, bot[uuid[s]], wanted[uuid[s]] \o Mail(uuid[s], sent'),
                outbox[uuid[s]])
  PROVE  Inv' /\ ClientInv'
<1>1. Inv' /\ uuid' = uuid
  BY AnswerInv DEF AnswerTaken
<1>2. engine.seq # "PLAYERS"
  BY DEF AnswerTaken, AckSteps
<1>3. \A s \in Places : uuid[s] # INVALID_UID
  BY <1>2 DEF ClientInv, SeatInv
<1>4. SeatInv'
  BY <1>1, <1>3, SeatsKept DEF AnswerTaken, StepTaken, ClientInv
<1>5. Seated(u)
  BY DEF Seated
<1>7. ASSUME NEW s \in Places, uuid[s] = u
      PROVE  View(engine', ack'[s], s, bot[u], wanted[u] \o Mail(u, sent'), Tail(outbox[u]))
  <2>1. s = p
    BY <1>3, <1>7, SeatFacts
  <2> QED
    BY <2>1
<1>8. ASSUME NEW s \in Places, uuid[s] \notin {u, INVALID_UID}
      PROVE  View(engine', ack'[s], s, bot[uuid[s]],
                  wanted[uuid[s]] \o Mail(uuid[s], sent'), outbox[uuid[s]])
  <2>1. s # p
    BY <1>8
  <2> QED
    BY <2>1
<1> QED
  BY <1>1, <1>4, <1>5, <1>7, <1>8, ServedStep

\* "ReplyBid".
LEMMA BidAnswered ==
  ASSUME Inv, ClientInv, NEW u \in Users, NEW p \in Places, uuid[p] = u, Served(u),
         Deliver(sent'), NEW w \in BidChoices, ReplyBid(u, w.contract, w.slam),
         p = Waited(engine), wanted[u] = << >>, Tail(outbox[u]) = << >>, Knows(engine, p, bot[u])
  PROVE  Inv' /\ ClientInv'
<1> DEFINE f == engine'
           arg == <<engine.currentPlayer, AnnouncedContract(engine.ctx, w.contract), w.slam,
                    engine'.ctx.bid>>
           told == <<SendToAllPlayers("ShowBid", arg)>>
<1>1. /\ engine.seq = "BID" /\ sent' = told
      /\ f = EngineSetBid(engine, w.contract, w.slam, engine.currentPlayer)
  BY DEF ReplyBid, Answers
<1>2. AnswerTaken
  BY ReplyBidStep DEF SomeBid
<1>3. engine \in Engines
  BY DEF Inv, TypeOK
<1>4. f.hands = engine.hands /\ f.seq = "SHOW_BID"
  BY <1>1, <1>2, <1>3, SetBidCards, StepGraphFacts DEF AnswerTaken, StepTaken
<1>5. \A s \in Places : ~ack'[s]
  BY <1>2, AnswerInv DEF NoAck
<1> HIDE DEF arg, f
<1>6. "ShowBid" \in DOMAIN AckedStep /\ AckedStep["ShowBid"] = f.seq /\ f.seq \in AckSteps
  BY <1>4 DEF AckedStep, AckSteps
<1>7. ASSUME NEW s \in Places, uuid[s] # INVALID_UID, NEW b, IsBot(b), Knows(engine, s, b),
             NEW q, q = << >> \/ (IsOne(q) /\ ForOthers(q[1], s)), NEW a, ~a
      PROVE  View(f, a, s, b, q \o Mail(uuid[s], told), << >>)
  <2>1. engine.seq \in DealSteps /\ f.seq \notin InPlay /\ f.seq \notin {"SHOW_DOG", "DISCARD"}
    BY <1>1, <1>4 DEF DealSteps, BidSteps, InPlay, PlaySteps
  <2>2. b.place = s /\ Knows(f, s, b)
    BY <1>4, <1>7, <2>1, StillKnows DEF Knows
  <2>3. \A c : IsBot(c) /\ SameBot(b, c) => Knows(f, s, Decode(c, Message("ShowBid", arg)))
    BY <2>2, QuietNews
  <2> QED
    BY <1>6, <1>7, <2>2, <2>3, ToldAll
<1>8. u # INVALID_UID /\ IsBot(bot[u])
  BY SeatFacts, BotFacts
<1>9. View(f, ack'[p], p, bot[u], wanted[u] \o Mail(u, told), << >>)
  BY <1>5, <1>7, <1>8
<1>10. ASSUME NEW s \in Places, s # p
       PROVE  View(f, ack'[s], s, bot[uuid[s]],
                    wanted[uuid[s]] \o Mail(uuid[s], told), outbox[uuid[s]])
  <2>1. engine.seq \in {"BID", "DISCARD", "HANDLE", "PLAYED_CARD"} /\ s # Waited(engine)
    BY <1>1, <1>10
  <2>2. /\ uuid[s] # INVALID_UID /\ IsBot(bot[uuid[s]]) /\ outbox[uuid[s]] = << >>
        /\ Knows(engine, s, bot[uuid[s]])
        /\ wanted[uuid[s]] = << >> \/ (IsOne(wanted[uuid[s]]) /\ ForOthers(wanted[uuid[s]][1], s))
    BY <2>1, Bystander
  <2> QED
    BY <1>5, <1>7, <2>2
<1>11. Private(told)
  BY PrivateReplies DEF Asides
<1>12. engine.seq # "KING_CALL"
  BY <1>1
<1> HIDE DEF told
<1> QED
  BY <1>1, <1>2, <1>9, <1>10, <1>11, <1>12, AnsweredStep DEF f

\* "Handle" with no handle.
LEMMA HandleAnswered ==
  ASSUME Inv, ClientInv, NEW u \in Users, NEW p \in Places, uuid[p] = u, Served(u),
         Deliver(sent'), NoHandle(u),
         p = Waited(engine), wanted[u] = << >>, Tail(outbox[u]) = << >>, Knows(engine, p, bot[u])
  PROVE  Inv' /\ ClientInv'
<1>1. engine.seq = "HANDLE" /\ GameSequence
  BY DEF NoHandle, Answers
<1>2. AnswerTaken
  BY HandleStep DEF SomeHandle
<1>3. \A s \in Places : ~ack'[s]
  BY <1>2, AnswerInv DEF NoAck
<1>4. ASSUME NEW s \in Places, uuid[s] # INVALID_UID, NEW b, IsBot(b), Knows(engine, s, b),
             NEW q, q = << >>, NEW a, ~a
      PROVE  View(engine', a, s, b, q \o Mail(uuid[s], sent'), << >>) /\ Private(sent')
  <2>1. engine.seq \in {"START_DEAL", "HANDLE", "SHOW_HANDLE", "SHOW_CARD", "END_OF_TRICK"}
    BY <1>1
  <2> QED
    BY <1>1, <1>4, <2>1, GameView
<1>5. u # INVALID_UID /\ IsBot(bot[u])
  BY SeatFacts, BotFacts
<1>6. View(engine', ack'[p], p, bot[u], wanted[u] \o Mail(u, sent'), << >>) /\ Private(sent')
  BY <1>3, <1>4, <1>5
<1>7. ASSUME NEW s \in Places, s # p
      PROVE  View(engine', ack'[s], s, bot[uuid[s]], wanted[uuid[s]] \o Mail(uuid[s], sent'),
                  outbox[uuid[s]])
  <2>1. engine.seq \in {"BID", "DISCARD", "HANDLE", "PLAYED_CARD"} /\ s # Waited(engine)
    BY <1>1, <1>7
  <2>2. /\ uuid[s] # INVALID_UID /\ IsBot(bot[uuid[s]]) /\ outbox[uuid[s]] = << >>
        /\ Knows(engine, s, bot[uuid[s]]) /\ wanted[uuid[s]] = << >>
    BY <1>1, <2>1, Bystander
  <2> QED
    BY <1>3, <1>4, <2>2
<1>8. engine.seq # "KING_CALL"
  BY <1>1
<1> QED
  BY <1>2, <1>6, <1>7, <1>8, AnsweredStep

\* "Discard": the acknowledgement without a name that the bot has sent with it
\* is still on its way.
LEMMA DiscardAnswered ==
  ASSUME Inv, ClientInv, NEW u \in Users, NEW p \in Places, uuid[p] = u, Served(u),
         Deliver(sent'), NEW d \in Discards, Discard(u, d),
         p = Waited(engine), wanted[u] = << >>, Tail(outbox[u]) = <<BadAck>>, bot[u].place = p,
         bot[u].deck = (engine.hands[p] \cup CardsOf(engine.ctx.dog)) \ CardsOf(d)
  PROVE  Inv' /\ ClientInv'
<1> DEFINE f == engine'
           arg == <<f.currentPlayer, f.ctx.bid>>
           told == <<SendToAllPlayers("StartDeal", arg)>>
<1>1. /\ engine.seq = "DISCARD" /\ sent' = told
      /\ f = EngineStartDeal(SetDiscard(engine, d))
  BY DEF Discard, Answers, SendStartDeal
<1>2. AnswerTaken
  BY DiscardStep DEF SomeDiscard
<1>3. engine \in Engines /\ EngineInv(engine) /\ p = engine.ctx.bid.taker
  BY <1>1 DEF Inv, TypeOK, TableInv, Waited
<1>4. /\ f.seq = "START_DEAL" /\ f.trick = << >>
      /\ f.hands[p] = bot[u].deck /\ \A s \in Places : s # p => f.hands[s] = engine.hands[s]
  <2>1. SetDiscard(engine, d) \in Engines
    BY <1>1, <1>3, SetDiscardCorrect, TableAssumption
  <2>2. f.hands = SetDiscard(engine, d).hands
    BY <1>1, <2>1, StartDealCards
  <2>3. /\ SetDiscard(engine, d).hands[p] = bot[u].deck
        /\ \A s \in Places : s # p => SetDiscard(engine, d).hands[s] = engine.hands[s]
    BY <1>3, EngineFields DEF SetDiscard, Engines
  <2>4. f.seq = "START_DEAL" /\ EngineInv(f)
    BY <1>1, <1>2, StepGraphFacts DEF AnswerTaken, StepTaken
  <2>5. f.trick = << >>
    BY <2>4 DEF EngineInv, PlayInv
  <2> QED
    BY <2>2, <2>3, <2>4, <2>5
<1>5. \A s \in Places : ~ack'[s]
  BY <1>2, AnswerInv DEF NoAck
<1> HIDE DEF arg, f
<1>6. "StartDeal" \in DOMAIN AckedStep /\ AckedStep["StartDeal"] = f.seq /\ f.seq \in AckSteps
  BY <1>4 DEF AckedStep, AckSteps
<1>7. ASSUME NEW s \in Places, uuid[s] # INVALID_UID, NEW b, IsBot(b), b.place = s,
             b.deck = f.hands[s], NEW q, q = << >>, NEW o \in {<< >>, <<BadAck>>}, NEW a, ~a
      PROVE  View(f, a, s, b, q \o Mail(uuid[s], told), o)
  <2> DEFINE m == Message("StartDeal", arg)
  <2>1. m.cmd = "StartDeal"
    BY DEF Message
  <2>2. ASSUME NEW c, IsBot(c), SameBot(b, c) PROVE Knows(f, s, Decode(c, m))
    <3>1. /\ Decode(c, m).place = s /\ Decode(c, m).deck = f.hands[s]
          /\ Decode(c, m).trick = f.trick
      BY <1>4, <1>7, <2>1, <2>2, DecodeTells DEF SameBot
    <3> QED
      BY <1>4, <3>1 DEF Knows
  <2> QED
    BY <1>6, <1>7, <2>2, ToldAll
<1>8. u # INVALID_UID /\ IsBot(bot[u])
  BY SeatFacts, BotFacts
<1>9. View(f, ack'[p], p, bot[u], wanted[u] \o Mail(u, told), <<BadAck>>)
  <2>1. <<BadAck>> \in {<< >>, <<BadAck>>}
    OBVIOUS
  <2> QED
    BY <1>4, <1>5, <1>7, <1>8, <2>1
<1>10. ASSUME NEW s \in Places, s # p
       PROVE  View(f, ack'[s], s, bot[uuid[s]],
                    wanted[uuid[s]] \o Mail(uuid[s], told), outbox[uuid[s]])
  <2>1. engine.seq \in {"BID", "DISCARD", "HANDLE", "PLAYED_CARD"} /\ s # Waited(engine)
    BY <1>1, <1>10
  <2>2. /\ uuid[s] # INVALID_UID /\ IsBot(bot[uuid[s]]) /\ outbox[uuid[s]] = << >>
        /\ Knows(engine, s, bot[uuid[s]]) /\ wanted[uuid[s]] = << >>
    BY <1>1, <2>1, Bystander
  <2>3. bot[uuid[s]].place = s /\ bot[uuid[s]].deck = f.hands[s]
    BY <1>1, <1>4, <1>10, <2>2 DEF Knows, DealSteps, BidSteps
  <2>4. outbox[uuid[s]] \in {<< >>, <<BadAck>>}
    BY <2>2
  <2> QED
    BY <1>5, <1>7, <2>2, <2>3, <2>4
<1>11. Private(told)
  BY PrivateReplies DEF Asides
<1>12. engine.seq # "KING_CALL"
  BY <1>1
<1> HIDE DEF told
<1> QED
  BY <1>1, <1>2, <1>9, <1>10, <1>11, <1>12, AnsweredStep DEF f

\* "Card".
LEMMA CardAnswered ==
  ASSUME Inv, ClientInv, NEW u \in Users, NEW p \in Places, uuid[p] = u, Served(u),
         Deliver(sent'), NEW x \in Cards, PlayCard(u, x),
         p = Waited(engine), wanted[u] = << >>, Tail(outbox[u]) = << >>, bot[u].place = p,
         bot[u].deck = engine.hands[p] \ {x}, bot[u].trick = engine.trick
  PROVE  Inv' /\ ClientInv'
<1> DEFINE f == engine'
           arg == <<engine.currentPlayer, x>>
           told == <<SendToAllPlayers("ShowCard", arg)>>
<1>1. /\ engine.seq = "PLAYED_CARD" /\ sent' = told
      /\ f = SetCard(engine, x, engine.currentPlayer)
  BY DEF PlayCard, Answers
<1>2. AnswerTaken
  BY PlayCardStep DEF SomeCard
<1>3. engine \in Engines /\ p = engine.currentPlayer
  BY <1>1 DEF Inv, TypeOK, Waited
<1>4. /\ f.seq = "SHOW_CARD" /\ f.trick = Append(engine.trick, x)
      /\ f.hands[p] = engine.hands[p] \ {x}
      /\ \A s \in Places : s # p => f.hands[s] = engine.hands[s]
  BY <1>1, <1>3, EngineFields DEF SetCard, Engines
<1>5. \A s \in Places : ~ack'[s]
  BY <1>2, AnswerInv DEF NoAck
<1>6. arg[2] = x
  OBVIOUS
<1> HIDE DEF arg, f
<1>7. "ShowCard" \in DOMAIN AckedStep /\ AckedStep["ShowCard"] = f.seq /\ f.seq \in AckSteps
  BY <1>4 DEF AckedStep, AckSteps
<1>8. ASSUME NEW s \in Places, uuid[s] # INVALID_UID, NEW b, IsBot(b), b.place = s,
             b.deck = f.hands[s], b.trick = engine.trick,
             NEW q, q = << >> \/ (IsOne(q) /\ ForOthers(q[1], s)), NEW a, ~a
      PROVE  View(f, a, s, b, q \o Mail(uuid[s], told), << >>)
  <2> DEFINE m == Message("ShowCard", arg)
  <2>1. m.cmd = "ShowCard" /\ m.arg = arg
    BY DEF Message
  <2>2. ASSUME NEW c, IsBot(c), SameBot(b, c) PROVE Knows(f, s, Decode(c, m))
    <3>1. /\ Decode(c, m).place = s /\ Decode(c, m).deck = f.hands[s]
          /\ Decode(c, m).trick = f.trick
      BY <1>4, <1>6, <1>8, <2>1, <2>2, DecodeTells DEF SameBot
    <3> QED
      BY <1>4, <3>1 DEF Knows
  <2> QED
    BY <1>7, <1>8, <2>2, ToldAll
<1>9. u # INVALID_UID /\ IsBot(bot[u])
  BY SeatFacts, BotFacts
<1>10. View(f, ack'[p], p, bot[u], wanted[u] \o Mail(u, told), << >>)
  BY <1>4, <1>5, <1>8, <1>9
<1>11. ASSUME NEW s \in Places, s # p
       PROVE  View(f, ack'[s], s, bot[uuid[s]],
                    wanted[uuid[s]] \o Mail(uuid[s], told), outbox[uuid[s]])
  <2>1. engine.seq \in {"BID", "DISCARD", "HANDLE", "PLAYED_CARD"} /\ s # Waited(engine)
    BY <1>1, <1>11
  <2>2. /\ uuid[s] # INVALID_UID /\ IsBot(bot[uuid[s]]) /\ outbox[uuid[s]] = << >>
        /\ Knows(engine, s, bot[uuid[s]])
        /\ wanted[uuid[s]] = << >> \/ (IsOne(wanted[uuid[s]]) /\ ForOthers(wanted[uuid[s]][1], s))
    BY <2>1, Bystander
  <2>3. /\ bot[uuid[s]].place = s /\ bot[uuid[s]].deck = f.hands[s]
        /\ bot[uuid[s]].trick = engine.trick
    BY <1>1, <1>4, <1>11, <2>2 DEF Knows, DealSteps, PlaySteps, InPlay
  <2> QED
    BY <1>5, <1>8, <2>2, <2>3
<1>12. Private(told)
  BY PrivateReplies DEF Asides
<1>13. engine.seq # "KING_CALL"
  BY <1>1
<1> HIDE DEF told
<1> QED
  BY <1>1, <1>2, <1>10, <1>11, <1>12, <1>13, AnsweredStep DEF f

-----------------------------------------------------------------------------
(* Lobby::Deliver: every request. *)

\* The place of a user who has one.
LEMMA PlaceIs ==
  ASSUME Inv, NEW u \in Users, NEW p \in Places, uuid[p] = u
  PROVE  Seated(u) /\ PlaceOf(u) = p
BY SeatFacts DEF Seated, PlaceOf

\* The first request of a bot that has a seat is for the table.
LEMMA TableRequest ==
  ASSUME NEW u, ServerReceives(u), NEW m, m = Head(outbox[u]),
         m.cmd \notin {"ReplyLogin", "RequestJoinTable"}
  PROVE  /\ Served(u)
         /\ Refuses(u, m) => UNCHANGED <<vars, inbox>>
         /\ ~Refuses(u, m) =>
              /\ Deliver(sent')
              /\ \/ m.cmd = "Ack" /\ Ack(u, m.arg)
                 \/ m.cmd = "ReplyBid" /\ ReplyBid(u, m.arg[1], m.arg[2])
                 \/ m.cmd = "Discard" /\ Discard(u, m.arg)
                 \/ m.cmd = "Handle" /\ NoHandle(u)
                 \/ m.cmd = "Card" /\ PlayCard(u, m.arg)
<1> HIDE DEF Refuses
<1> QED
  BY DEF ServerReceives, LobbyLogin, LobbyJoin, TableAnswers, TableRefuses

\* A request that the table only logs.
LEMMA RefusedStep ==
  ASSUME Inv, ClientInv, NEW u \in Users, NEW p \in Places, uuid[p] = u, Served(u),
         UNCHANGED <<vars, inbox>>,
         View(engine, ack[p], p, bot[u], wanted[u], Tail(outbox[u]))
  PROVE  Inv' /\ ClientInv'
<1>1. /\ UNCHANGED vars /\ UNCHANGED <<engine, uuid, ack>> /\ inbox' = inbox /\ bot' = bot
      /\ wanted' = wanted
  BY DEF vars, Served, wanted
<1>2. Inv'
  BY <1>1, NextInv
<1>3. SeatInv'
  BY <1>1 DEF ClientInv, SeatInv
<1>4. /\ DOMAIN outbox' = Users /\ outbox'[u] = Tail(outbox[u])
      /\ \A v \in Users : v # u => outbox'[v] = outbox[v]
  BY DEF Served, ClientInv, BoxInv
<1>5. \A v : Seated(v)' <=> Seated(v)
  BY <1>1 DEF Seated
<1>6. BoxInv'
  <2>1. ASSUME NEW v \in Users, ~Seated(v) PROVE Joining(bot[v], wanted[v], outbox'[v])
    <3>1. v # u
      BY <2>1 DEF Seated
    <3> QED
      BY <1>4, <2>1, <3>1 DEF ClientInv, BoxInv
  <2>2. /\ DOMAIN bot = Users /\ DOMAIN inbox = Users
        /\ \A v \in Users : IsBot(bot[v]) /\ Carries(inbox[v], wanted[v])
    BY DEF ClientInv, BoxInv
  <2> QED
    BY <1>1, <1>4, <1>5, <2>1, <2>2 DEF BoxInv
<1>7. ViewInv'
  <2> SUFFICES ASSUME NEW s \in Places, uuid[s] # INVALID_UID
               PROVE  View(engine, ack[s], s, bot[uuid[s]], wanted[uuid[s]], outbox'[uuid[s]])
    BY <1>1 DEF ViewInv
  <2>1. CASE uuid[s] = u
    <3>1. s = p
      BY <2>1, SeatFacts
    <3> QED
      BY <1>4, <2>1, <3>1
  <2>2. CASE uuid[s] # u
    <3>1. uuid[s] \in Users
      BY SeatFacts
    <3> QED
      BY <1>4, <2>2, <3>1 DEF ClientInv, ViewInv
  <2> QED
    BY <2>1, <2>2
<1> QED
  BY <1>2, <1>3, <1>6, <1>7 DEF ClientInv

\* What each command needs in order not to be refused.
LEMMA RefusesFacts ==
  ASSUME NEW u, NEW m
  PROVE  /\ m.cmd = "Ack" => ~Refuses(u, m)
         /\ m.cmd = "ReplyBid" => (Refuses(u, m) <=> ~Answers(u, "BID", engine.currentPlayer))
         /\ m.cmd = "Handle" => (Refuses(u, m) <=> ~Answers(u, "HANDLE", engine.currentPlayer))
         /\ m.cmd = "Discard" =>
              (Refuses(u, m) <=>
                 ~ /\ Answers(u, "DISCARD", engine.ctx.bid.taker)
                   /\ TestDiscard(engine.hands[engine.ctx.bid.taker], m.arg, engine.ctx.dog))
         /\ m.cmd = "Card" =>
              (Refuses(u, m) <=>
                 ~ /\ Answers(u, "PLAYED_CARD", engine.currentPlayer)
                   /\ CanPlayCard(engine.hands[engine.currentPlayer], m.arg, engine.trick))
         /\ m.cmd \notin {"ReplyBid", "Handle", "Discard", "Card"} => ~Refuses(u, m)
BY DEF Refuses

\* The request of a bot that has a seat.
LEMMA SeatedStep ==
  ASSUME Inv, ClientInv, NEW u \in Users, NEW p \in Places, uuid[p] = u, ServerReceives(u)
  PROVE  Inv' /\ ClientInv'
<1> DEFINE m == Head(outbox[u])
           o == outbox[u]
           b == bot[u]
           q == wanted[u]
<1>1. View(engine, ack[p], p, b, q, o) /\ o # << >>
  BY BotFacts DEF ServerReceives
<1>2. Seated(u) /\ PlaceOf(u) = p
  BY PlaceIs
<1>3. \A c, x : Message(c, x).cmd = c /\ Message(c, x).arg = x
  BY DEF Message
<1>4. engine \in Engines
  BY DEF Inv, TypeOK
<1> HIDE DEF m
<1>5. CASE m = BadAck /\ View(engine, ack[p], p, b, q, Tail(o))
  <2>1. m.cmd = "Ack" /\ m.arg = "BadSeq"
    BY <1>3, <1>5 DEF BadAck
  <2>2. Served(u) /\ Deliver(sent') /\ Ack(u, "BadSeq")
    BY <2>1, TableRequest, RefusesFacts DEF m
  <2> QED
    BY <1>5, <2>2, BadAckStep
<1>6. CASE /\ engine.seq \in AckSteps /\ m = Message("Ack", engine.seq) /\ Tail(o) = << >>
           /\ ~ack[p] /\ q = << >> /\ Knows(engine, p, b)
  <2>1. m.cmd = "Ack" /\ m.arg = engine.seq
    BY <1>3, <1>6
  <2>2. Served(u) /\ Deliver(sent') /\ Ack(u, engine.seq)
    BY <2>1, TableRequest, RefusesFacts DEF m
  <2>3. CASE \A s \in Places : Sync(u, engine.seq)[s]
    BY <1>6, <2>2, <2>3, SyncedStep
  <2>4. CASE ~ \A s \in Places : Sync(u, engine.seq)[s]
    <3>1. ClientInv'
      BY <1>6, <2>2, <2>4, AckRecorded
    <3>2. Inv'
      <4>1. engine.seq \in AckSteps \cap (LateSteps \cup {engine.seq})
        BY <1>6
      <4> QED
        BY <2>2, <4>1, AckStep DEF SomeAck
    <3> QED
      BY <3>1, <3>2
  <2> QED
    BY <2>3, <2>4
<1>7. CASE /\ p = Waited(engine) /\ q = << >> /\ engine.seq = "BID" /\ Knows(engine, p, b)
           /\ Tail(o) = << >>
           /\ \E w \in BidChoices : m = Message("ReplyBid", <<w.contract, w.slam>>)
  <2>1. PICK w \in BidChoices : m = Message("ReplyBid", <<w.contract, w.slam>>)
    BY <1>7
  <2>2. m.cmd = "ReplyBid" /\ m.arg[1] = w.contract /\ m.arg[2] = w.slam
    BY <1>3, <2>1
  <2>3. Answers(u, "BID", engine.currentPlayer)
    BY <1>2, <1>7 DEF Answers, Waited
  <2>4. Served(u) /\ Deliver(sent') /\ ReplyBid(u, m.arg[1], m.arg[2])
    BY <2>2, <2>3, TableRequest, RefusesFacts DEF m
  <2> QED
    BY <1>7, <2>2, <2>4, BidAnswered
<1>8. CASE /\ p = Waited(engine) /\ q = << >> /\ engine.seq = "DISCARD" /\ b.place = p
           /\ Tail(o) = <<BadAck>>
           /\ \E d \in Discards :
                /\ m = Message("Discard", d)
                /\ TestDiscard(engine.hands[p], d, engine.ctx.dog)
                /\ b.deck = (engine.hands[p] \cup CardsOf(engine.ctx.dog)) \ CardsOf(d)
  <2>1. PICK d \in Discards :
          /\ m = Message("Discard", d)
          /\ TestDiscard(engine.hands[p], d, engine.ctx.dog)
          /\ b.deck = (engine.hands[p] \cup CardsOf(engine.ctx.dog)) \ CardsOf(d)
    BY <1>8
  <2>2. m.cmd = "Discard" /\ m.arg = d
    BY <1>3, <2>1
  <2>3. p = engine.ctx.bid.taker /\ Answers(u, "DISCARD", engine.ctx.bid.taker)
    BY <1>2, <1>8 DEF Answers, Waited
  <2>4. ~Refuses(u, m)
    BY <2>1, <2>2, <2>3, RefusesFacts
  <2>5. Served(u) /\ Deliver(sent') /\ Discard(u, d)
    BY <2>2, <2>4, TableRequest DEF m
  <2> QED
    BY <1>8, <2>1, <2>5, DiscardAnswered
<1>9. CASE /\ p = Waited(engine) /\ engine.seq = "DISCARD" /\ m.cmd = "Discard"
           /\ ~TestDiscard(engine.hands[p], m.arg, engine.ctx.dog)
           /\ View(engine, ack[p], p, b, q, Tail(o))
  <2>1. p = engine.ctx.bid.taker
    BY <1>9 DEF Waited
  <2>2. Refuses(u, m)
    BY <1>9, <2>1, RefusesFacts
  <2>3. Served(u) /\ UNCHANGED <<vars, inbox>>
    BY <1>9, <2>2, TableRequest DEF m
  <2> QED
    BY <1>9, <2>3, RefusedStep
<1>10. CASE /\ p = Waited(engine) /\ q = << >> /\ engine.seq = "HANDLE" /\ Knows(engine, p, b)
            /\ Tail(o) = << >> /\ m = Message("Handle", << >>)
  <2>1. m.cmd = "Handle"
    BY <1>3, <1>10
  <2>2. Answers(u, "HANDLE", engine.currentPlayer)
    BY <1>2, <1>10 DEF Answers, Waited
  <2>3. Served(u) /\ Deliver(sent') /\ NoHandle(u)
    BY <2>1, <2>2, TableRequest, RefusesFacts DEF m
  <2> QED
    BY <1>10, <2>3, HandleAnswered
<1>11. CASE /\ p = Waited(engine) /\ q = << >> /\ engine.seq = "PLAYED_CARD" /\ Tail(o) = << >>
            /\ \E c \in Cards :
                 /\ m = Message("Card", c)
                 /\ CanPlayCard(engine.hands[p], c, engine.trick) = TRUE
                 /\ b.place = p /\ b.deck = engine.hands[p] \ {c} /\ b.trick = engine.trick
  <2>1. PICK c \in Cards :
          /\ m = Message("Card", c)
          /\ CanPlayCard(engine.hands[p], c, engine.trick) = TRUE
          /\ b.place = p /\ b.deck = engine.hands[p] \ {c} /\ b.trick = engine.trick
    BY <1>11
  <2>2. m.cmd = "Card" /\ m.arg = c
    BY <1>3, <2>1
  <2>3. p = engine.currentPlayer /\ Answers(u, "PLAYED_CARD", engine.currentPlayer)
    BY <1>2, <1>11 DEF Answers, Waited
  <2>4. ~Refuses(u, m)
    BY <2>1, <2>2, <2>3, RefusesFacts
  <2>5. Served(u) /\ Deliver(sent') /\ PlayCard(u, c)
    BY <2>2, <2>4, TableRequest DEF m
  <2> QED
    BY <1>11, <2>1, <2>5, CardAnswered
<1>12. Request(engine, ack[p], p, b, q, o)
  BY <1>1, FirstRequest
<1> QED
  BY <1>5, <1>6, <1>7, <1>8, <1>9, <1>10, <1>11, <1>12 DEF Request, m

\* A queue with nothing of the table to come keeps what a bot has yet to read.
LEMMA QueueKept ==
  ASSUME ClientInv, NEW v \in Users, NEW replies, Deliver(replies),
         Carries(Mail(v, replies), << >>)
  PROVE  wanted'[v] = wanted[v] /\ Carries(inbox'[v], wanted'[v])
<1>1. Carries(inbox[v], wanted[v])
  BY DEF ClientInv, BoxInv
<1>2. Short(wanted[v])
  BY <1>1, CarriesShort
<1>3. wanted[v] \o << >> = wanted[v]
  BY <1>2, ShortKept
<1> QED
  BY <1>2, <1>3, Delivered

\* A letter of the lobby to one user who has nothing of the table to read, and
\* the event that it tells everybody on its list.
LEMMA LetterSent ==
  ASSUME Inv, ClientInv, NEW u \in Users, Served(u), wanted[u] = << >>, NEW cmd, NEW arg,
         cmd \notin Asides, NEW to, Deliver(<<Reply({u}, cmd, arg), PlayerEvent(to)>>)
  PROVE  /\ DOMAIN inbox' = Users /\ DOMAIN outbox' = Users /\ bot' = bot
         /\ \A v \in Users : Carries(inbox'[v], wanted'[v])
         /\ wanted'[u] = <<Message(cmd, arg)>> /\ outbox'[u] = Tail(outbox[u])
         /\ \A v \in Users : v # u => wanted'[v] = wanted[v] /\ outbox'[v] = outbox[v]
<1> DEFINE r == Reply({u}, cmd, arg)
           t == PlayerEvent(to)
           m == Message(cmd, arg)
           n == Message("LobbyEvent", << >>)
           rs == <<r, t>>
<1>1. /\ r.to = {u} /\ Message(r.cmd, r.arg) = m
      /\ t.to = to /\ Message(t.cmd, t.arg) = n
      /\ m.cmd \notin Asides /\ n.cmd \in Asides
  BY DEF Reply, PlayerEvent, Message, Asides
<1> HIDE DEF r, t, m, n
<1>2. Mail(u, rs) \in {<<m, n>>, <<m>>}
  BY <1>1, TwoReplies
<1>3. Carries(Mail(u, rs), <<m>>)
  BY <1>1, <1>2, CarriesFew
<1>4. ASSUME NEW v \in Users, v # u PROVE Carries(Mail(v, rs), << >>)
  <2>1. Mail(v, rs) \in {<<n>>, << >>}
    BY <1>1, <1>4, TwoReplies
  <2> QED
    BY <1>1, <2>1, CarriesFew
<1>5. Deliver(rs)
  BY DEF r, t
<1> HIDE DEF rs
<1>6. wanted[u] \o <<m>> = <<m>> /\ Short(<<m>>)
  BY JoinFacts, ShortFacts DEF Short
<1>7. wanted'[u] = <<m>> /\ Carries(inbox'[u], wanted'[u])
  BY <1>3, <1>5, <1>6, Delivered
<1>8. \A v \in Users : v # u => wanted'[v] = wanted[v] /\ Carries(inbox'[v], wanted'[v])
  BY <1>4, <1>5, QueueKept
<1>9. DOMAIN inbox' = Users
  BY <1>5 DEF Deliver
<1>10. /\ DOMAIN outbox' = Users /\ bot' = bot /\ outbox'[u] = Tail(outbox[u])
       /\ \A v \in Users : v # u => outbox'[v] = outbox[v]
  BY DEF Served, ClientInv, BoxInv
<1> QED
  BY <1>7, <1>8, <1>9, <1>10 DEF m

\* The lobby grants access to a bot.
LEMMA LoginStep ==
  ASSUME Inv, ClientInv, NEW u \in Users, ~Seated(u), Served(u), LobbyLogin(u),
         wanted[u] = << >>, Tail(outbox[u]) = << >>, bot[u].place = NOWHERE
  PROVE  Inv' /\ ClientInv'
<1>1. UNCHANGED vars /\ UNCHANGED <<engine, uuid, ack>>
  BY DEF LobbyLogin, vars
<1>2. Inv'
  BY <1>1, NextInv
<1>3. SeatInv'
  BY <1>1 DEF ClientInv, SeatInv
<1>4. /\ DOMAIN inbox' = Users /\ DOMAIN outbox' = Users /\ bot' = bot
      /\ \A v \in Users : Carries(inbox'[v], wanted'[v])
      /\ wanted'[u] = <<Message("AccessGranted", << >>)>> /\ outbox'[u] = << >>
      /\ \A v \in Users : v # u => wanted'[v] = wanted[v] /\ outbox'[v] = outbox[v]
  <2>1. PICK to : Deliver(<<Reply({u}, "AccessGranted", << >>), PlayerEvent(to)>>)
    BY DEF LobbyLogin
  <2>2. "AccessGranted" \notin Asides
    BY DEF Asides
  <2> DEFINE arg == << >>
  <2>3. Deliver(<<Reply({u}, "AccessGranted", arg), PlayerEvent(to)>>)
    BY <2>1
  <2> HIDE DEF arg
  <2>4. /\ DOMAIN inbox' = Users /\ DOMAIN outbox' = Users /\ bot' = bot
        /\ \A v \in Users : Carries(inbox'[v], wanted'[v])
        /\ wanted'[u] = <<Message("AccessGranted", arg)>> /\ outbox'[u] = Tail(outbox[u])
        /\ \A v \in Users : v # u => wanted'[v] = wanted[v] /\ outbox'[v] = outbox[v]
    BY <2>2, <2>3, LetterSent
  <2> QED
    BY <2>4 DEF arg
<1>5. \A v : Seated(v)' <=> Seated(v)
  BY <1>1 DEF Seated
<1>6. Joining(bot[u], wanted'[u], outbox'[u])
  BY <1>4 DEF Joining
<1>7. BoxInv'
  <2>1. ASSUME NEW v \in Users, ~Seated(v) PROVE Joining(bot[v], wanted'[v], outbox'[v])
    BY <1>4, <1>6, <2>1 DEF ClientInv, BoxInv
  <2>2. DOMAIN bot = Users /\ \A v \in Users : IsBot(bot[v])
    BY DEF ClientInv, BoxInv
  <2> QED
    BY <1>4, <1>5, <2>1, <2>2 DEF BoxInv
<1>8. ViewInv'
  <2> SUFFICES ASSUME NEW s \in Places, uuid[s] # INVALID_UID
               PROVE  View(engine, ack[s], s, bot[uuid[s]], wanted'[uuid[s]], outbox'[uuid[s]])
    BY <1>1, <1>4 DEF ViewInv
  <2>1. uuid[s] \in Users /\ uuid[s] # u
    BY SeatFacts DEF Seated
  <2> QED
    BY <1>4, <2>1 DEF ClientInv, ViewInv
<1> QED
  BY <1>2, <1>3, <1>7, <1>8 DEF ClientInv

\* The lobby seats a bot: the table is still waiting for players.
LEMMA JoinStep ==
  ASSUME Inv, ClientInv, NEW u \in Users, ~Seated(u), Served(u), LobbyJoin(u),
         wanted[u] = << >>, Tail(outbox[u]) = << >>
  PROVE  Inv' /\ ClientInv'
<1>1. Inv' /\ engine' = engine /\ ack' = ack
  BY AddPlayerStep DEF LobbyJoin
<1>2. PICK s \in Places : uuid[s] = INVALID_UID /\ uuid' = [uuid EXCEPT ![s] = u]
  BY DEF LobbyJoin, AddPlayer, FreeSeats
<1>3. DOMAIN uuid = Places /\ u # INVALID_UID
  BY SeatFacts DEF Inv, TypeOK
<1>4. uuid'[s] = u /\ \A p \in Places : p # s => uuid'[p] = uuid[p] /\ uuid[p] # u
  BY <1>2, <1>3 DEF Seated
<1> DEFINE arg == <<s, engine.hands[s]>>
           m == Message("ReplyJoinTable", arg)
<1>5. Deliver(<<Reply({u}, "ReplyJoinTable", arg), PlayerEvent(listed)>>)
  <2>1. PICK p \in Places : uuid'[p] = u
          /\ Deliver(<<Reply({u}, "ReplyJoinTable", <<p, engine.hands[p]>>), PlayerEvent(listed)>>)
    BY DEF LobbyJoin
  <2>2. p = s
    BY <1>4, <2>1
  <2> QED
    BY <2>1, <2>2
<1>6. m.cmd = "ReplyJoinTable" /\ m.arg[1] = s /\ m.arg[2] = engine.hands[s]
  BY DEF Message
<1>7. /\ DOMAIN inbox' = Users /\ DOMAIN outbox' = Users /\ bot' = bot
      /\ \A v \in Users : Carries(inbox'[v], wanted'[v])
      /\ wanted'[u] = <<m>> /\ outbox'[u] = << >>
      /\ \A v \in Users : v # u => wanted'[v] = wanted[v] /\ outbox'[v] = outbox[v]
  <2>1. "ReplyJoinTable" \notin Asides
    BY DEF Asides
  <2> QED
    BY <1>5, <2>1, LetterSent
<1> HIDE DEF m, arg
<1>8. engine.seq = "PLAYERS" /\ ~ack[s]
  BY <1>2 DEF ClientInv, SeatInv
<1>9. SeatInv'
  BY <1>1, <1>3, <1>4, <1>8 DEF ClientInv, SeatInv
<1>10. ASSUME NEW v \in Users, v # u, ~Seated(v)' PROVE ~Seated(v)
  <2>1. \A p \in Places : uuid[p] # v
    BY <1>2, <1>4, <1>10, SeatFacts DEF Seated
  <2> QED
    BY <2>1 DEF Seated
<1>11. Seated(u)'
  BY <1>4 DEF Seated
<1>12. IsBot(bot[u])
  BY BotFacts
<1>13. BoxInv'
  <2>1. ASSUME NEW v \in Users, ~Seated(v)' PROVE Joining(bot[v], wanted'[v], outbox'[v])
    <3>1. v # u
      BY <1>11, <2>1
    <3> QED
      BY <1>7, <1>10, <2>1, <3>1 DEF ClientInv, BoxInv
  <2>2. DOMAIN bot = Users /\ \A v \in Users : IsBot(bot[v])
    BY DEF ClientInv, BoxInv
  <2> QED
    BY <1>7, <2>1, <2>2 DEF BoxInv
<1>14. View(engine, ack[s], s, bot[u], wanted'[u], outbox'[u])
  <2>1. IsOne(<<m>>) /\ <<m>>[1] = m /\ <<m>> # << >>
    BY ShortFacts
  <2>2. News(m, engine.seq) /\ engine.seq \in AckSteps
    BY <1>6, <1>8 DEF News, AckedStep, AckSteps
  <2>3. Decode(bot[u], m).place = s
    BY <1>6, <1>12, DecodeTells
  <2>4. Knows(engine, s, After(bot[u], <<m>>))
    BY <1>8, <2>1, <2>3 DEF Knows, After, DealSteps, BidSteps, PlaySteps, InPlay
  <2>5. Reading(engine.seq, s, bot[u], <<m>>)
    BY <2>1, <2>2 DEF Reading
  <2> QED
    BY <1>7, <1>8, <2>2, <2>4, <2>5 DEF View, AtBarrier
<1>15. ViewInv'
  <2> SUFFICES ASSUME NEW p \in Places, uuid'[p] # INVALID_UID
               PROVE  View(engine, ack[p], p, bot[uuid'[p]], wanted'[uuid'[p]], outbox'[uuid'[p]])
    BY <1>1, <1>7 DEF ViewInv
  <2>1. CASE p = s
    BY <1>4, <1>14, <2>1
  <2>2. CASE p # s
    <3>1. uuid'[p] = uuid[p] /\ uuid[p] # u /\ uuid[p] \in Users
      BY <1>4, <2>2, SeatFacts
    <3> QED
      BY <1>7, <3>1 DEF ClientInv, ViewInv
  <2> QED
    BY <2>1, <2>2
<1> QED
  BY <1>1, <1>9, <1>13, <1>15 DEF ClientInv

\* A bot that has no seat asks the lobby to log in or to join.
LEMMA UnseatedRequest ==
  ASSUME Inv, ClientInv, NEW u \in Users, ~Seated(u), ServerReceives(u)
  PROVE  /\ bot[u].place = NOWHERE /\ wanted[u] = << >> /\ Tail(outbox[u]) = << >>
         /\ Served(u) /\ (LobbyLogin(u) \/ LobbyJoin(u))
<1> DEFINE m == Head(outbox[u])
<1>1. Joining(bot[u], wanted[u], outbox[u]) /\ outbox[u] # << >>
  BY BotFacts DEF ServerReceives
<1>2. \A x : Head(<<x>>) = x /\ Tail(<<x>>) = << >>
  BY ShortFacts
<1>3. \A c, x : Message(c, x).cmd = c
  BY DEF Message
<1>4. /\ bot[u].place = NOWHERE /\ wanted[u] = << >> /\ Tail(outbox[u]) = << >>
      /\ m.cmd \in {"ReplyLogin", "RequestJoinTable"}
  <2>1. PICK x \in {Message("ReplyLogin", << >>), Message("RequestJoinTable", << >>)} :
          bot[u].place = NOWHERE /\ wanted[u] = << >> /\ outbox[u] = <<x>>
    BY <1>1 DEF Joining
  <2>2. x.cmd \in {"ReplyLogin", "RequestJoinTable"}
    BY <1>3
  <2>3. Head(outbox[u]) = x /\ Tail(outbox[u]) = << >>
    BY <1>2, <2>1
  <2> QED
    BY <2>1, <2>2, <2>3
<1>5. ~Refuses(u, m)
  BY <1>4, RefusesFacts
<1>6. ~TableAnswers(u) /\ ~TableRefuses(u)
  BY <1>4, <1>5 DEF TableAnswers, TableRefuses
<1>7. Served(u) /\ (LobbyLogin(u) \/ LobbyJoin(u))
  BY <1>6 DEF ServerReceives
<1> QED
  BY <1>4, <1>7

\* The lobby serves it.
LEMMA UnseatedStep ==
  ASSUME Inv, ClientInv, NEW u \in Users, ~Seated(u), ServerReceives(u)
  PROVE  Inv' /\ ClientInv'
<1>1. /\ bot[u].place = NOWHERE /\ wanted[u] = << >> /\ Tail(outbox[u]) = << >>
      /\ Served(u) /\ (LobbyLogin(u) \/ LobbyJoin(u))
  BY UnseatedRequest
<1>2. CASE LobbyLogin(u)
  BY <1>1, <1>2, LoginStep
<1>3. CASE LobbyJoin(u)
  BY <1>1, <1>3, JoinStep
<1> QED
  BY <1>1, <1>2, <1>3

\* The server keeps the invariant.
LEMMA ServerStep ==
  ASSUME Inv, ClientInv, NEW u \in Users, ServerReceives(u)
  PROVE  Inv' /\ ClientInv'
<1>1. CASE Seated(u)
  <2>1. PICK p \in Places : uuid[p] = u
    BY <1>1 DEF Seated
  <2> QED
    BY <2>1, SeatedStep
<1>2. CASE ~Seated(u)
  BY <1>2, UnseatedStep
<1> QED
  BY <1>1, <1>2

-----------------------------------------------------------------------------
(* The invariant of the table and its bots. *)

\* Nobody is seated, and every bot is asked to log in.
LEMMA ClientsInitInv == ClientsInit => Inv /\ ClientInv
<1> SUFFICES ASSUME ClientsInit PROVE Inv /\ ClientInv
  OBVIOUS
<1>1. Init
  BY DEF ClientsInit
<1>2. Inv
  BY <1>1, InitInv
<1>3. /\ \A p \in Places : uuid[p] = INVALID_UID /\ ack[p] = FALSE
      /\ engine.seq = "PLAYERS"
  BY <1>1 DEF Init, NoAck, EngineCreateTable
<1>4. SeatInv
  BY <1>3 DEF SeatInv, FiveSteps
<1>5. IsBot(NewBot) /\ NewBot.place = NOWHERE
  BY DEF IsBot, NewBot
<1>6. /\ DOMAIN bot = Users /\ DOMAIN inbox = Users /\ DOMAIN outbox = Users
      /\ \A u \in Users : /\ bot[u] = NewBot /\ outbox[u] = << >>
                          /\ inbox[u] = <<Message("RequestLogin", << >>)>>
  BY DEF ClientsInit
<1>7. ASSUME NEW u \in Users
       PROVE  /\ wanted[u] = <<Message("RequestLogin", << >>)>>
              /\ Carries(inbox[u], wanted[u])
  <2>1. Message("RequestLogin", << >>).cmd \notin Asides
    BY DEF Message, Asides
  <2>2. Carries(inbox[u], <<Message("RequestLogin", << >>)>>)
    BY <1>6, <2>1, CarriesFew
  <2>3. wanted[u] = Wanted(inbox[u])
    BY DEF wanted
  <2> QED
    BY <2>2, <2>3, WantedIs
<1>8. \A u \in Users : Joining(bot[u], wanted[u], outbox[u])
  BY <1>5, <1>6, <1>7 DEF Joining
<1>9. BoxInv
  BY <1>5, <1>6, <1>7, <1>8 DEF BoxInv
<1>10. ViewInv
  BY <1>3 DEF ViewInv
<1> QED
  BY <1>2, <1>4, <1>9, <1>10 DEF ClientInv

\* The other users: a bot has nothing more to read of the table.
LEMMA NewsStep ==
  ASSUME Inv, ClientInv, LobbyNews
  PROVE  Inv' /\ ClientInv'
<1>1. UNCHANGED vars /\ UNCHANGED <<engine, uuid, ack, bot, outbox>>
  BY DEF LobbyNews, vars
<1>2. PICK to : \E cmd \in Asides : Deliver(<<Reply(to, cmd, << >>)>>)
  <2>1. \/ Deliver(<<Reply(listed, "LobbyEvent", << >>)>>)
        \/ \E to : Deliver(<<Reply(to, "ChatMessage", << >>)>>)
    BY DEF LobbyNews, PlayerEvent
  <2>2. "LobbyEvent" \in Asides /\ "ChatMessage" \in Asides
    BY DEF Asides
  <2> QED
    BY <2>1, <2>2
<1> PICK cmd \in Asides : Deliver(<<Reply(to, cmd, << >>)>>)
  BY <1>2
<1>3. ASSUME NEW v \in Users PROVE Carries(Mail(v, <<Reply(to, cmd, << >>)>>), << >>)
  <2> DEFINE r == Reply(to, cmd, << >>)
             m == Message(r.cmd, r.arg)
  <2>1. m.cmd \in Asides
    BY DEF Message, Reply
  <2> HIDE DEF r, m
  <2>2. Mail(v, <<r>>) \in {<<m>>, << >>}
    BY FewReplies DEF m
  <2>3. Carries(Mail(v, <<r>>), << >>)
    BY <2>1, <2>2, CarriesFew
  <2> QED
    BY <2>3 DEF r
<1>4. /\ DOMAIN inbox' = Users
      /\ \A v \in Users : wanted'[v] = wanted[v] /\ Carries(inbox'[v], wanted'[v])
  BY <1>3, QueueKept DEF Deliver
<1>5. Inv'
  BY <1>1, NextInv
<1>6. \A v : Seated(v)' <=> Seated(v)
  BY <1>1 DEF Seated
<1>7. SeatInv'
  BY <1>1 DEF ClientInv, SeatInv
<1>8. BoxInv'
  BY <1>1, <1>4, <1>6 DEF ClientInv, BoxInv
<1>9. ViewInv'
  <2> SUFFICES ASSUME NEW p \in Places, uuid[p] # INVALID_UID
               PROVE  View(engine, ack[p], p, bot[uuid[p]], wanted'[uuid[p]], outbox[uuid[p]])
    BY <1>1 DEF ViewInv
  <2>1. uuid[p] \in Users
    BY SeatFacts
  <2> QED
    BY <1>4, <2>1 DEF ClientInv, ViewInv
<1> QED
  BY <1>5, <1>7, <1>8, <1>9 DEF ClientInv

\* Every step of the bots, of the server and of the other users.
LEMMA ClientsNextInv == Inv /\ ClientInv /\ [ClientsNext]_clientVars => Inv' /\ ClientInv'
<1> SUFFICES ASSUME Inv, ClientInv, [ClientsNext]_clientVars PROVE Inv' /\ ClientInv'
  OBVIOUS
<1>1. CASE PacketRead
  <2>1. PICK u \in Users : BotReceives(u) \/ ServerReceives(u)
    BY <1>1 DEF PacketRead
  <2> QED
    BY <2>1, BotStep, ServerStep
<1>2. CASE LobbyNews
  BY <1>2, NewsStep
<1>3. CASE UNCHANGED clientVars
  <2>1. UNCHANGED vars /\ UNCHANGED <<engine, uuid, ack, bot, inbox, outbox>> /\ wanted' = wanted
    BY <1>3 DEF clientVars, vars, wanted
  <2>2. Inv'
    BY <2>1, NextInv
  <2>3. \A v : Seated(v)' <=> Seated(v)
    BY <2>1 DEF Seated
  <2>4. SeatInv' /\ ViewInv'
    BY <2>1 DEF ClientInv, SeatInv, ViewInv
  <2>5. BoxInv'
    BY <2>1, <2>3 DEF ClientInv, BoxInv
  <2> QED
    BY <2>2, <2>4, <2>5 DEF ClientInv
<1> QED
  BY <1>1, <1>2, <1>3 DEF ClientsNext

\* At every moment what a bot knows, what is on its way to it and what is on
\* its way from it add up to the state of the table, whatever the bots bid,
\* discard and play and however slow each connection is.
THEOREM ClientInvCorrect == ClientsSpec => [](Inv /\ ClientInv)
<1>1. ClientsInit => Inv /\ ClientInv
  BY ClientsInitInv
<1>2. Inv /\ ClientInv /\ [ClientsNext]_clientVars => (Inv /\ ClientInv)'
  BY ClientsNextInv
<1> QED
  BY <1>1, <1>2, PTL DEF ClientsSpec

\* A bot with nothing to read and nothing to send knows the table, unless it
\* had to discard and could not.
LEMMA IdleView ==
  ASSUME NEW e, NEW a, NEW p, NEW b, NEW q, NEW o, View(e, a, p, b, q, o),
         q = << >>, o = << >>
  PROVE  Knows(e, p, b) \/ (b.place = p /\ e.seq = "DISCARD" /\ NoLegalDiscard(e))
<1>1. \A x, y : <<x>> # << >> /\ <<x, y>> # << >>
  BY ShortFacts
<1>2. ~IsOne(q) /\ ~IsTwo(q)
  BY DEF IsOne, IsTwo
<1>3. CASE e.seq \in AckSteps /\ AtBarrier(e, a, p, b, q, o)
  BY <1>1, <1>2, <1>3 DEF AtBarrier, Reading
<1>4. CASE e.seq \in {"BID", "DISCARD", "HANDLE", "PLAYED_CARD"} /\ AtQuestion(e, p, b, q, o)
  <2>1. Knows(e, p, b) \/ Answer(e, p, b, o)
    BY <1>4 DEF AtQuestion
  <2>2. ~CardSent(e, p, b, o)
    BY <1>1 DEF CardSent
  <2>3. DiscardSent(e, p, b, o) => b.place = p /\ NoLegalDiscard(e)
    BY <1>1 DEF DiscardSent
  <2> QED
    BY <2>1, <2>2, <2>3 DEF Answer
<1>5. CASE e.seq = "KING_CALL" /\ AtKingCall(e, p, b, q, o)
  BY <1>5 DEF AtKingCall
<1> QED
  BY <1>3, <1>4, <1>5 DEF View

\* BotKnowsTable for every number of players, deck, distribution and pace of
\* the connections: PlayerContext never drifts from the engine.
THEOREM BotKnowsTableCorrect == ClientsSpec => []BotKnowsTable
<1>1. Inv /\ ClientInv => BotKnowsTable
  <2> SUFFICES ASSUME Inv, ClientInv, NEW u \in Users, TableMail(u) = {}, outbox[u] = << >>,
                      bot[u].place # NOWHERE
               PROVE  /\ uuid[bot[u].place] = u
                      /\ engine.seq \in DealSteps /\ ~NoDiscard =>
                           bot[u].deck = engine.hands[bot[u].place]
                      /\ engine.seq \in PlaySteps \cup {"START_DEAL", "END_OF_TRICK"} =>
                           bot[u].trick = engine.trick
    BY DEF BotKnowsTable
  <2>1. Seated(u)
    BY BotFacts DEF Joining
  <2>2. PICK p \in Places : uuid[p] = u
    BY <2>1 DEF Seated
  <2>3. View(engine, ack[p], p, bot[u], wanted[u], outbox[u])
    BY <2>2, BotFacts
  <2>4. wanted[u] = << >>
    <3>1. Carries(inbox[u], wanted[u])
      BY DEF ClientInv, BoxInv
    <3> QED
      BY ONLY <3>1, TableMail(u) = {}, CarriesCount DEF TableMail
  <2>5. \/ Knows(engine, p, bot[u])
        \/ bot[u].place = p /\ engine.seq = "DISCARD" /\ NoLegalDiscard(engine)
    BY <2>3, <2>4, IdleView
  <2>6. CASE Knows(engine, p, bot[u])
    BY <2>2, <2>6 DEF Knows, InPlay
  <2>7. CASE bot[u].place = p /\ engine.seq = "DISCARD" /\ NoLegalDiscard(engine)
    <3>1. NoDiscard
      BY <2>7 DEF NoDiscard, NoLegalDiscard
    <3>2. engine.seq \notin PlaySteps \cup {"START_DEAL", "END_OF_TRICK"}
      BY <2>7 DEF PlaySteps
    <3> QED
      BY <2>2, <2>7, <3>1, <3>2
  <2> QED
    BY <2>5, <2>6, <2>7
<1> QED
  BY <1>1, ClientInvCorrect, PTL

\* The first request of a bot is refused only if it has no legal discard.
LEMMA RefusedRequest ==
  ASSUME Inv, NEW u \in Users, NEW p \in Places, uuid[p] = u, NEW a, NEW b, NEW q, NEW o,
         Request(engine, a, p, b, q, o), Refuses(u, Head(o))
  PROVE  engine.seq = "DISCARD" /\ NoLegalDiscard(engine)
<1> DEFINE m == Head(o)
<1>1. Seated(u) /\ PlaceOf(u) = p
  BY PlaceIs
<1>2. \A c, x : Message(c, x).cmd = c /\ Message(c, x).arg = x
  BY DEF Message
<1>3. engine.seq = "DISCARD" => Waited(engine) = engine.ctx.bid.taker
  BY DEF Waited
<1>4. engine.seq # "DISCARD" => Waited(engine) = engine.currentPlayer
  BY DEF Waited
<1>5. p = Waited(engine) =>
        /\ engine.seq \in {"BID", "HANDLE", "PLAYED_CARD"} =>
             Answers(u, engine.seq, engine.currentPlayer)
        /\ engine.seq = "DISCARD" => Answers(u, "DISCARD", engine.ctx.bid.taker)
  BY <1>1, <1>3, <1>4 DEF Answers
<1>6. m.cmd # "Ack"
  BY RefusesFacts
<1>7. ~(engine.seq = "BID" /\ p = Waited(engine) /\ m.cmd = "ReplyBid")
  BY <1>5, RefusesFacts
<1>8. ~(engine.seq = "HANDLE" /\ p = Waited(engine) /\ m.cmd = "Handle")
  BY <1>5, RefusesFacts
<1>9. ~(/\ engine.seq = "PLAYED_CARD" /\ p = Waited(engine) /\ m.cmd = "Card"
        /\ CanPlayCard(engine.hands[p], m.arg, engine.trick))
  BY <1>4, <1>5, RefusesFacts
<1>10. ~(/\ engine.seq = "DISCARD" /\ p = Waited(engine) /\ m.cmd = "Discard"
         /\ TestDiscard(engine.hands[p], m.arg, engine.ctx.dog))
  BY <1>3, <1>5, RefusesFacts
<1>11. \/ m.cmd = "Ack"
       \/ engine.seq = "BID" /\ p = Waited(engine) /\ m.cmd = "ReplyBid"
       \/ engine.seq = "HANDLE" /\ p = Waited(engine) /\ m.cmd = "Handle"
       \/ /\ engine.seq = "PLAYED_CARD" /\ p = Waited(engine) /\ m.cmd = "Card"
          /\ CanPlayCard(engine.hands[p], m.arg, engine.trick)
       \/ /\ engine.seq = "DISCARD" /\ p = Waited(engine) /\ m.cmd = "Discard"
          /\ TestDiscard(engine.hands[p], m.arg, engine.ctx.dog)
       \/ engine.seq = "DISCARD" /\ NoLegalDiscard(engine)
  <2>1. m = BadAck => m.cmd = "Ack"
    BY <1>2 DEF BadAck
  <2>2. m = Message("Ack", engine.seq) => m.cmd = "Ack"
    BY <1>2
  <2>3. (\E w \in BidChoices : m = Message("ReplyBid", <<w.contract, w.slam>>))
          => m.cmd = "ReplyBid"
    BY <1>2
  <2>4. m = Message("Handle", << >>) => m.cmd = "Handle"
    BY <1>2
  <2>5. (\E c \in Cards :
           m = Message("Card", c) /\ CanPlayCard(engine.hands[p], c, engine.trick) = TRUE)
          => m.cmd = "Card" /\ CanPlayCard(engine.hands[p], m.arg, engine.trick)
    BY <1>2
  <2>6. (\E d \in Discards :
           m = Message("Discard", d) /\ TestDiscard(engine.hands[p], d, engine.ctx.dog))
          => m.cmd = "Discard" /\ TestDiscard(engine.hands[p], m.arg, engine.ctx.dog)
    BY <1>2
  <2> QED
    BY <2>1, <2>2, <2>3, <2>4, <2>5, <2>6 DEF Request
<1> HIDE DEF m
<1> QED
  BY <1>6, <1>7, <1>8, <1>9, <1>10, <1>11

\* BotIsNeverRefused for every instance: what a bot decides from its own copy
\* of the hand, the dog and the trick is what the table accepts.
THEOREM BotIsNeverRefusedCorrect == ClientsSpec => []BotIsNeverRefused
<1>1. Inv /\ ClientInv => BotIsNeverRefused
  <2> SUFFICES ASSUME Inv, ClientInv, NEW u \in Users, outbox[u] # << >>,
                      Refuses(u, Head(outbox[u]))
               PROVE  NoDiscard
    BY DEF BotIsNeverRefused
  <2>1. Seated(u)
    <3> SUFFICES ASSUME ~Seated(u) PROVE FALSE
      OBVIOUS
    <3>1. Joining(bot[u], wanted[u], outbox[u])
      BY BotFacts
    <3>2. \A x : Head(<<x>>) = x
      BY ShortFacts
    <3>3. \A c, x : Message(c, x).cmd = c
      BY DEF Message
    <3>4. Head(outbox[u]).cmd \in {"ReplyLogin", "RequestJoinTable"}
      BY <3>1, <3>2, <3>3 DEF Joining
    <3> QED
      BY <3>4, RefusesFacts
  <2>2. PICK p \in Places : uuid[p] = u
    BY <2>1 DEF Seated
  <2>3. View(engine, ack[p], p, bot[u], wanted[u], outbox[u])
    BY <2>2, BotFacts
  <2>4. Request(engine, ack[p], p, bot[u], wanted[u], outbox[u])
    BY <2>3, FirstRequest
  <2>5. engine.seq = "DISCARD" /\ NoLegalDiscard(engine)
    BY <2>2, <2>4, RefusedRequest
  <2> QED
    BY <2>5 DEF NoDiscard, NoLegalDiscard
<1> QED
  BY <1>1, ClientInvCorrect, PTL

\* BotKeepsUp for every instance: the barrier bounds what a bot has yet to read
\* of the table, whatever else waits on its connection.
THEOREM BotKeepsUpCorrect == ClientsSpec => []BotKeepsUp
<1>1. Inv /\ ClientInv => BotKeepsUp
  BY CarriesCount DEF ClientInv, BoxInv, BotKeepsUp, TableMail
<1> QED
  BY <1>1, ClientInvCorrect, PTL

-----------------------------------------------------------------------------
(* The table of the bots behaves as a table. *)

\* Unless it is an acknowledgement without a name, a request of a bot that has
\* a seat is one that PlayingTable allows.
LEMMA SeatedRequest ==
  ASSUME Inv, ClientInv, NEW u \in Users, NEW p \in Places, uuid[p] = u, ServerReceives(u)
  PROVE  [Next]_vars \/ UNCHANGED <<engine, ack>>
<1> DEFINE m == Head(outbox[u])
<1>1. View(engine, ack[p], p, bot[u], wanted[u], outbox[u]) /\ outbox[u] # << >>
  BY BotFacts DEF ServerReceives
<1>2. Request(engine, ack[p], p, bot[u], wanted[u], outbox[u])
  BY <1>1, FirstRequest
<1>3. \A c, x : Message(c, x).cmd = c /\ Message(c, x).arg = x
  BY DEF Message
<1>4. \/ m.cmd = "Ack" /\ (m.arg = "BadSeq" \/ (engine.seq \in AckSteps /\ m.arg = engine.seq))
      \/ m.cmd = "ReplyBid" /\ \E w \in BidChoices : m.arg[1] = w.contract /\ m.arg[2] = w.slam
      \/ m.cmd = "Discard" /\ (m.arg \in Discards \/ Refuses(u, m))
      \/ m.cmd = "Handle"
      \/ m.cmd = "Card" /\ m.arg \in Cards
  <2>1. m = BadAck => m.cmd = "Ack" /\ m.arg = "BadSeq"
    BY <1>3 DEF BadAck
  <2>2. m = Message("Ack", engine.seq) => m.cmd = "Ack" /\ m.arg = engine.seq
    BY <1>3
  <2>3. \A w \in BidChoices : m = Message("ReplyBid", <<w.contract, w.slam>>) =>
          m.cmd = "ReplyBid" /\ m.arg[1] = w.contract /\ m.arg[2] = w.slam
    BY <1>3
  <2>4. m = Message("Handle", << >>) => m.cmd = "Handle"
    BY <1>3
  <2>5. \A c : m = Message("Card", c) => m.cmd = "Card" /\ m.arg = c
    BY <1>3
  <2>6. \A d : m = Message("Discard", d) => m.cmd = "Discard" /\ m.arg = d
    BY <1>3
  <2>7. /\ p = Waited(engine) /\ engine.seq = "DISCARD" /\ m.cmd = "Discard"
        /\ ~TestDiscard(engine.hands[p], m.arg, engine.ctx.dog)
        => Refuses(u, m)
    BY RefusesFacts DEF Waited
  <2> HIDE DEF m
  <2>8. Head(outbox[u]) = m
    BY DEF m
  <2> QED
    BY <1>2, <2>1, <2>2, <2>3, <2>4, <2>5, <2>6, <2>7, <2>8 DEF Request
<1>5. m.cmd \notin {"ReplyLogin", "RequestJoinTable"}
  BY <1>4
<1>6. CASE Refuses(u, m)
  <2>1. UNCHANGED vars
    BY <1>5, <1>6, TableRequest
  <2> QED
    BY <2>1
<1>7. CASE ~Refuses(u, m)
  <2>1. \/ m.cmd = "Ack" /\ Ack(u, m.arg)
        \/ m.cmd = "ReplyBid" /\ ReplyBid(u, m.arg[1], m.arg[2])
        \/ m.cmd = "Discard" /\ Discard(u, m.arg)
        \/ m.cmd = "Handle" /\ NoHandle(u)
        \/ m.cmd = "Card" /\ PlayCard(u, m.arg)
    BY <1>5, <1>7, TableRequest
  <2> HIDE DEF m
  <2>2. CASE m.cmd = "Ack" /\ m.arg = "BadSeq" /\ Ack(u, "BadSeq")
    <3>1. engine.seq # "BadSeq"
      BY EngineFields DEF Inv, TypeOK, Steps
    <3>2. Sync(u, "BadSeq") = ack
      BY <3>1 DEF Sync, Inv, TypeOK
    <3> QED
      BY <2>2, <3>2 DEF Ack, Inv, TableInv, AckInv
  <2>3. CASE engine.seq \in AckSteps /\ Ack(u, engine.seq)
    <3>1. SomeAck(u)
      BY <2>3 DEF SomeAck
    <3> QED
      BY <3>1 DEF Next
  <2>4. CASE m.cmd = "ReplyBid" /\ ReplyBid(u, m.arg[1], m.arg[2])
    <3>1. SomeBid(u)
      BY <1>4, <2>4 DEF SomeBid
    <3> QED
      BY <3>1 DEF Next
  <2>5. CASE m.cmd = "Discard" /\ Discard(u, m.arg)
    <3>1. SomeDiscard(u)
      BY <1>4, <1>7, <2>5 DEF SomeDiscard
    <3> QED
      BY <3>1 DEF Next
  <2>6. CASE NoHandle(u)
    BY <2>6 DEF Next, SomeHandle
  <2>7. CASE m.cmd = "Card" /\ PlayCard(u, m.arg)
    <3>1. SomeCard(u)
      BY <1>4, <2>7 DEF SomeCard
    <3> QED
      BY <3>1 DEF Next
  <2> QED
    BY <1>4, <2>1, <2>2, <2>3, <2>4, <2>5, <2>6, <2>7
<1> QED
  BY <1>6, <1>7

\* A step of the bots and of the server is a step of the table, or leaves the
\* engine and the acknowledgements alone.
LEMMA ClientsTableStep ==
  Inv /\ ClientInv /\ [ClientsNext]_clientVars => [Next]_vars \/ UNCHANGED <<engine, ack>>
<1> SUFFICES ASSUME Inv, ClientInv, [ClientsNext]_clientVars
             PROVE  [Next]_vars \/ UNCHANGED <<engine, ack>>
  OBVIOUS
<1>1. CASE UNCHANGED clientVars
  BY <1>1 DEF clientVars
<1>2. ASSUME NEW u \in Users, BotReceives(u) PROVE UNCHANGED vars
  BY <1>2 DEF BotReceives, BotLogin, BotEnter, BotAcks, BotWaits, BotBids, BotDiscard,
              BotHandle, BotPlays, BotIgnores, Handled
<1>3. ASSUME NEW u \in Users, ServerReceives(u)
      PROVE  [Next]_vars \/ UNCHANGED <<engine, ack>>
  <2>1. CASE Seated(u)
    BY <1>3, <2>1, SeatedRequest DEF Seated
  <2>2. CASE ~Seated(u)
    <3>1. LobbyLogin(u) \/ LobbyJoin(u)
      BY <1>3, <2>2, UnseatedRequest
    <3>2. CASE LobbyLogin(u)
      BY <3>2 DEF LobbyLogin
    <3>3. CASE LobbyJoin(u)
      BY <3>3 DEF LobbyJoin, Next
    <3> QED
      BY <3>1, <3>2, <3>3
  <2> QED
    BY <2>1, <2>2
<1>4. CASE LobbyNews
  BY <1>4 DEF LobbyNews
<1> QED
  BY <1>1, <1>2, <1>3, <1>4 DEF ClientsNext, PacketRead

\* A table of bots implements the barrier too: acknowledgements without a name,
\* and bots that answer late, never let a step go by unseen.
THEOREM ClientsBarrierCorrect == ClientsSpec => ImplementsBarrier
<1>1. ClientsInit => Barrier!BarrierInit
  BY BarrierInitCorrect DEF ClientsInit
<1>2. Inv /\ ClientInv /\ [ClientsNext]_clientVars =>
        [Barrier!BarrierNext]_(Barrier!barrierVars)
  <2> SUFFICES ASSUME Inv, ClientInv, [ClientsNext]_clientVars
               PROVE  [Barrier!BarrierNext]_(Barrier!barrierVars)
    OBVIOUS
  <2>1. CASE [Next]_vars
    BY <2>1, BarrierStep
  <2>2. CASE UNCHANGED <<engine, ack>>
    <3>1. UNCHANGED Barrier!barrierVars
      BY <2>2 DEF Barrier!barrierVars
    <3> QED
      BY <3>1
  <2> QED
    BY <2>1, <2>2, ClientsTableStep
<1> QED
  BY <1>1, <1>2, ClientInvCorrect, PTL
     DEF ClientsSpec, ImplementsBarrier, Barrier!BarrierSpec

\* The hands of a table of bots have the sizes that the step calls for.
LEMMA ClientsHands == ClientsSpec => []HandInv(engine)
<1>1. ClientsInit => HandInv(engine)
  <2> SUFFICES ASSUME ClientsInit PROVE HandInv(engine)
    OBVIOUS
  <2>1. engine.seq = "PLAYERS"
    BY CreateTableCorrect DEF ClientsInit, Init
  <2> QED
    BY <2>1, IdleHands
<1>2. Inv /\ ClientInv /\ HandInv(engine) /\ [ClientsNext]_clientVars => HandInv(engine)'
  <2> SUFFICES ASSUME Inv, ClientInv, HandInv(engine), [ClientsNext]_clientVars
               PROVE  HandInv(engine)'
    OBVIOUS
  <2>1. CASE [Next]_vars
    BY <2>1, NextHands
  <2>2. CASE UNCHANGED <<engine, ack>>
    BY <2>2 DEF HandInv, HandsDealt, HandsCounted, HandlesAsked, Played
  <2> QED
    BY <2>1, <2>2, ClientsTableStep
<1> QED
  BY <1>1, <1>2, ClientInvCorrect, PTL DEF ClientsSpec

\* BotFindsCard for every instance: ChooseRandomCard never comes to the end of
\* the hand without a card.
THEOREM BotFindsCardCorrect == ClientsSpec => []BotFindsCard
<1>1. Inv /\ ClientInv /\ HandInv(engine) => BotFindsCard
  <2> SUFFICES ASSUME Inv, ClientInv, HandInv(engine), NEW u \in Users,
                      Received(u, "PlayCard"), Head(inbox[u]).arg = bot[u].place
               PROVE  \E c \in bot[u].deck : CanPlayCard(bot[u].deck, c, bot[u].trick)
    BY DEF BotFindsCard
  <2> DEFINE m == Head(wanted[u])
  <2>1. wanted[u] # << >> /\ m.cmd = "PlayCard" /\ m.arg = bot[u].place
    BY NextWanted DEF Received, Asides
  <2>2. Seated(u)
    BY <2>1, BotFacts, FirstMessage
  <2>3. PICK p \in Places : uuid[p] = u
    BY <2>2 DEF Seated
  <2>4. IsBot(bot[u]) /\ View(engine, ack[p], p, bot[u], wanted[u], outbox[u])
    BY <2>3, BotFacts
  <2>5. IsMyTurn(Decode(bot[u], m))
    BY <2>1, <2>4 DEF IsMyTurn, Decode, IsBot
  <2>6. p = Waited(engine) /\ Knows(engine, p, bot[u]) /\ Question(engine, m)
    BY <2>1, <2>4, <2>5, Asked
  <2>7. engine.seq = "PLAYED_CARD"
    BY <2>1, <2>6, QuestionFacts
  <2>8. /\ p = engine.currentPlayer
        /\ bot[u].deck = engine.hands[p] /\ bot[u].trick = engine.trick
    BY <2>6, <2>7 DEF Waited, Knows, DealSteps, PlaySteps, InPlay
  <2>9. \E c \in Cards : CanPlayCard(engine.hands[p], c, engine.trick)
    BY <2>7, <2>8, CardsToPlay DEF SomeCardPlayable
  <2> QED
    BY <2>8, <2>9 DEF CanPlayCard
<1> QED
  BY <1>1, ClientInvCorrect, ClientsHands, PTL
=============================================================================
