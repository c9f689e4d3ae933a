------------------------- MODULE ConservationProofs -------------------------
(***************************************************************************)
(* No card of a deal is lost or duplicated, for every deck: the hands, the *)
(* trick on the table, the dog or discard and the tricks won always share  *)
(* out the whole deck.                                                     *)
(***************************************************************************)
EXTENDS HandProofs

-----------------------------------------------------------------------------
(* Four kinds of piles that share out the deck, and the moves of a deal.   *)

\* With hands h, a trick t on the table, cards aside a and tricks won w: every
\* card is somewhere;
Somewhere(h, t, a, w) ==
  \A c \in Cards : \/ \E p \in Places : c \in h[p]
                   \/ c \in CardsOf(t)
                   \/ c \in CardsOf(a)
                   \/ \E n \in Turns : c \in CardsOf(w[n])

\* no card lies twice aside;
NoRepeat(a) == \A i, j \in DOMAIN a : a[j] = a[i] => j = i

\* what lies aside is nowhere else;
AsideApart(h, t, a, w) ==
  \A c \in CardsOf(a) : /\ \A p \in Places : c \notin h[p]
                        /\ c \notin CardsOf(t)
                        /\ \A n \in Turns : c \notin CardsOf(w[n])

\* and what has been won is nowhere else, and in one trick only.
WonApart(h, t, w) ==
  \A n \in Turns : \A c \in CardsOf(w[n]) :
    /\ \A p \in Places : c \notin h[p]
    /\ c \notin CardsOf(t)
    /\ \A m \in Turns : c \in CardsOf(w[m]) => m = n

\* That the hands and the trick are apart is CardsApart.
Shared(h, t, a, w) ==
  Somewhere(h, t, a, w) /\ NoRepeat(a) /\ AsideApart(h, t, a, w) /\ WonApart(h, t, w)

\* An empty pile has no card.
LEMMA EmptyPile == CardsOf(<< >>) = {}
BY DEF CardsOf

\* A card is added to a pile.
LEMMA AppendCard ==
  ASSUME NEW t \in Seq(Cards), NEW c \in Cards
  PROVE  CardsOf(Append(t, c)) = CardsOf(t) \cup {c}
<1> DEFINE u == Append(t, c)
<1>1. /\ Len(t) \in Nat /\ DOMAIN t = 1..Len(t) /\ DOMAIN u = 1..(Len(t) + 1)
      /\ \A i \in DOMAIN t : u[i] = t[i]
      /\ u[Len(t) + 1] = c
  OBVIOUS
<1> HIDE DEF u
<1>2. DOMAIN u = DOMAIN t \cup {Len(t) + 1}
  BY <1>1
<1>3. CardsOf(u) = CardsOf(t) \cup {c}
  BY <1>1, <1>2 DEF CardsOf
<1> QED
  BY <1>3 DEF u

\* The dog of a deal holds no card twice: it has as many places as cards.
LEMMA DogInjective ==
  ASSUME NEW d \in Distributions, IsDeal(d)
  PROVE  NoRepeat(d.dog)
<1> DEFINE n == Len(d.dog)
<1>1. d.dog \in Seq(Cards) /\ n \in Nat /\ DOMAIN d.dog = 1..n /\ n = NumberOfDogCards
  BY DEF Distributions, IsDeal
<1>2. IsFiniteSet(1..n) /\ Cardinality(1..n) = n
  BY <1>1, FS_Interval
<1>3. CardsOf(d.dog) \in SUBSET Cards /\ IsFiniteSet(CardsOf(d.dog))
  <2>1. CardsOf(d.dog) \in SUBSET Cards
    BY <1>1 DEF CardsOf
  <2> QED
    BY <2>1, FS_Subset, TarotAssumption
<1>4. d.dog \in Surjection(1..n, CardsOf(d.dog))
  <2>1. d.dog \in [1..n -> CardsOf(d.dog)]
    BY <1>1 DEF CardsOf
  <2> QED
    BY <1>1, <2>1 DEF Surjection, CardsOf
<1>5. Cardinality(1..n) = Cardinality(CardsOf(d.dog))
  BY <1>1, <1>2, DealtCards
<1>6. d.dog \in Injection(1..n, CardsOf(d.dog))
  BY <1>2, <1>3, <1>4, <1>5, FS_SurjSameCardinalityImpliesInj
<1> QED
  BY <1>1, <1>6 DEF Injection, IsInjective, NoRepeat

\* A deal shares out the deck between the hands and the dog.
LEMMA DealShares ==
  ASSUME NEW d \in Distributions, IsDeal(d), NEW w, \A n \in Turns : w[n] = << >>
  PROVE  Shared(d.hands, << >>, d.dog, w)
<1>1. CardsOf(d.dog) = Cards \ UNION {d.hands[p] : p \in Places}
  BY DEF IsDeal
<1>2. \A n \in Turns : CardsOf(w[n]) = {}
  BY EmptyPile
<1> QED
  BY <1>1, <1>2, EmptyPile, DogInjective DEF Shared, Somewhere, AsideApart, WonApart

\* A card goes from a hand to the trick.
LEMMA MoveCard ==
  ASSUME NEW h, NEW g, NEW t \in Seq(Cards), NEW a, NEW w, Shared(h, t, a, w),
         NEW p \in Places, NEW c \in Cards, c \in h[p],
         \A q \in Places : q # p => c \notin h[q],
         \A q \in Places : g[q] = IF q = p THEN h[p] \ {c} ELSE h[q]
  PROVE  Shared(g, Append(t, c), a, w)
<1> DEFINE u == Append(t, c)
<1>1. CardsOf(u) = CardsOf(t) \cup {c}
  BY AppendCard
<1>2. \A x, q : q \in Places => (x \in g[q] <=> x \in h[q] /\ x # c)
  <2> SUFFICES ASSUME NEW x, NEW q, q \in Places PROVE x \in g[q] <=> x \in h[q] /\ x # c
    OBVIOUS
  <2>1. CASE q = p
    BY <2>1
  <2>2. CASE q # p
    BY <2>2
  <2> QED
    BY <2>1, <2>2
<1>3. c \notin CardsOf(a) /\ \A n \in Turns : c \notin CardsOf(w[n])
  BY DEF Shared, AsideApart, WonApart
<1> HIDE DEF u
<1>4. Somewhere(g, u, a, w)
  BY <1>1, <1>2 DEF Shared, Somewhere
<1>5. AsideApart(g, u, a, w)
  BY <1>1, <1>2, <1>3 DEF Shared, AsideApart
<1>6. WonApart(g, u, w)
  BY <1>1, <1>2, <1>3 DEF Shared, WonApart
<1> QED
  BY <1>4, <1>5, <1>6 DEF Shared, u

\* The trick goes to a turn that had none.
LEMMA MoveTrick ==
  ASSUME NEW h, NEW t, NEW a, NEW w, NEW v, Shared(h, t, a, w),
         NEW n \in Turns, w[n] = << >>,
         \A c \in CardsOf(t) : \A p \in Places : c \notin h[p],
         \A m \in Turns : v[m] = IF m = n THEN t ELSE w[m]
  PROVE  Shared(h, << >>, a, v)
<1>1. CardsOf(w[n]) = {} /\ CardsOf(<< >>) = {}
  BY EmptyPile
<1>2. \A m \in Turns : m # n => CardsOf(v[m]) = CardsOf(w[m])
  OBVIOUS
<1>3. CardsOf(v[n]) = CardsOf(t)
  OBVIOUS
<1>4. Somewhere(h, << >>, a, v)
  BY <1>1, <1>2, <1>3 DEF Shared, Somewhere
<1>5. AsideApart(h, << >>, a, v)
  BY <1>1, <1>2, <1>3 DEF Shared, AsideApart
<1>6. WonApart(h, << >>, v)
  BY <1>1, <1>2, <1>3 DEF Shared, WonApart
<1> QED
  BY <1>4, <1>5, <1>6 DEF Shared

\* The hands h become g: player p takes the pile a and lays the pile b aside.
Exchanged(h, g, p, a, b) ==
  /\ p \in Places /\ NoRepeat(b) /\ CardsOf(b) \subseteq h[p] \cup CardsOf(a)
  /\ \A q, r \in Places : q # r => h[q] \cap h[r] = {}
  /\ \A q \in Places : g[q] = IF q = p THEN (h[p] \cup CardsOf(a)) \ CardsOf(b) ELSE h[q]

\* The cards aside go to a hand, and others of that hand aside.
LEMMA MoveDiscard ==
  ASSUME NEW h, NEW g, NEW t, NEW a, NEW b, NEW w, Shared(h, t, a, w),
         CardsOf(t) = {}, \A n \in Turns : CardsOf(w[n]) = {},
         NEW p, Exchanged(h, g, p, a, b)
  PROVE  Shared(g, t, b, w)
<1>1. \A c \in Cards : (\E q \in Places : c \in h[q]) \/ c \in CardsOf(a)
  BY DEF Shared, Somewhere
<1>2. \A c \in CardsOf(a) : \A q \in Places : c \notin h[q]
  BY DEF Shared, AsideApart
<1>3. g[p] = (h[p] \cup CardsOf(a)) \ CardsOf(b) /\ p \in Places
  BY DEF Exchanged
<1>4. \A q \in Places : q # p => g[q] = h[q]
  BY DEF Exchanged
<1>5. \A c \in Cards : (\E q \in Places : c \in g[q]) \/ c \in CardsOf(b)
  BY <1>1, <1>3, <1>4
<1>6. \A c \in CardsOf(b) : \A q \in Places : c \notin g[q]
  BY <1>2, <1>3, <1>4 DEF Exchanged
<1> QED
  BY <1>5, <1>6 DEF Shared, Somewhere, AsideApart, WonApart, Exchanged

-----------------------------------------------------------------------------
(* The inductive invariant on the cards. *)

\* The turns that are still to be played have no trick.
Unplayed(e) ==
  \A n \in Turns : e.seq \in BidSteps \/ n >= e.trickCounter => e.ctx.tricks[n] = << >>

AsideOf(e) == IF e.seq \in BidSteps THEN e.ctx.dog ELSE e.ctx.discard

AllShared(e) == Shared(e.hands, e.trick, AsideOf(e), e.ctx.tricks)

ShareInv(e) ==
  /\ e.seq \in DealSteps => AllShared(e)
  /\ e.seq \in BidSteps \cup InPlay => Unplayed(e)

\* Nothing is said of the cards between two deals.
LEMMA IdleCards ==
  ASSUME NEW f, f.seq \in {"READY", "PLAYERS"}
  PROVE  ShareInv(f)
BY DEF ShareInv, DealSteps, BidSteps, InPlay, PlaySteps

\* A step that leaves the piles alone, within the bids or within the play.
LEMMA KeepsCards ==
  ASSUME NEW e, NEW f, ShareInv(e),
         \/ e.seq \in BidSteps /\ f.seq \in BidSteps /\ f.ctx.dog = e.ctx.dog
         \/ /\ e.seq \in InPlay /\ f.seq \in InPlay
            /\ f.ctx.discard = e.ctx.discard /\ f.trickCounter = e.trickCounter,
         f.hands = e.hands, f.trick = e.trick, f.ctx.tricks = e.ctx.tricks
  PROVE  ShareInv(f)
<1>1. e.seq \in DealSteps /\ AllShared(e) /\ Unplayed(e)
  BY DEF ShareInv, DealSteps, InPlay
<1>2. AsideOf(f) = AsideOf(e)
  BY StepKinds DEF AsideOf
<1>3. AllShared(f)
  BY <1>1, <1>2 DEF AllShared
<1>4. Unplayed(f)
  BY <1>1, StepKinds DEF Unplayed
<1> QED
  BY <1>3, <1>4 DEF ShareInv

\* Engine::NewDeal clears the tricks.
LEMMA NewDealTricks ==
  ASSUME NEW e \in Engines, NEW d \in Distributions
  PROVE  EngineNewDeal(e, d).ctx.tricks = [t \in Turns |-> << >>]
<1> DEFINE c     == CtxInitialize(e.ctx)
           dctx  == [c EXCEPT !.dog = d.dog]
           empty == [t \in Turns |-> << >>]
<1>1. c \in Contexts
  BY CtxInitializeType, EngineFields
<1>2. c.tricks = empty
  <2> HIDE DEF empty
  <2>1. c = [e.ctx EXCEPT !.bid = NoBid, !.discard = << >>, !.attackHandle = 0,
                          !.defenseHandle = 0, !.tricks = empty, !.tricksWon = 0,
                          !.points = 0, !.oudlers = 0]
    BY DEF CtxInitialize, empty
  <2> QED
    BY <2>1, EngineFields DEF Contexts
<1> HIDE DEF c, empty
<1>3. dctx.tricks = empty
  BY <1>1, <1>2 DEF Contexts
<1>4. EngineNewDeal(e, d).ctx = dctx
  BY <1>1 DEF EngineNewDeal, CreateDeal, Engines, Contexts, c
<1> QED
  BY <1>3, <1>4 DEF empty

\* Engine::NewDeal shares out the deck, whatever the deal before left.
LEMMA NewDealCards ==
  ASSUME NEW e \in Engines, NEW d \in Distributions, IsDeal(d)
  PROVE  ShareInv(EngineNewDeal(e, d))
<1> DEFINE f == EngineNewDeal(e, d)
<1>1. f.seq = "CARDS" /\ f.hands = d.hands /\ f.ctx.dog = d.dog /\ f.trick = << >>
  BY NewDealFields
<1>2. \A n \in Turns : f.ctx.tricks[n] = << >>
  BY NewDealTricks
<1> HIDE DEF f
<1>3. AsideOf(f) = d.dog
  BY <1>1 DEF AsideOf, BidSteps
<1>4. AllShared(f)
  BY <1>1, <1>2, <1>3, DealShares DEF AllShared
<1>5. ShareInv(f)
  BY <1>2, <1>4 DEF ShareInv, Unplayed
<1> QED
  BY <1>5 DEF f

-----------------------------------------------------------------------------
(* Bids and discard. *)

\* Engine::SetBid leaves the tricks.
LEMMA SetBidTricks ==
  ASSUME NEW e \in Engines, NEW c, NEW slam, NEW p
  PROVE  LET f == EngineSetBid(e, c, slam, p)
         IN  f.trick = e.trick /\ f.ctx.tricks = e.ctx.tricks
<1> DEFINE new == CtxSetBid(e.ctx, c, slam, p)
           f   == EngineSetBid(e, c, slam, p)
<1>1. new.tricks = e.ctx.tricks
  BY EngineFields DEF CtxSetBid, Contexts
<1> HIDE DEF new
<1>2. f.trick = e.trick /\ f.ctx = new
  BY DEF EngineSetBid, new, Engines
<1> QED
  BY <1>1, <1>2

\* After the bids the dog is shown, or it becomes the discard.
LEMMA ManageAfterBidTricks ==
  ASSUME NEW e \in Engines
  PROVE  LET f == ManageAfterBidSequence(e)
         IN  /\ f.trick = e.trick /\ f.ctx.tricks = e.ctx.tricks
             /\ f.seq = "START_DEAL" => f.ctx.discard = e.ctx.dog
<1> DEFINE new == ManageDogAfterBid(e.ctx)
           f   == ManageAfterBidSequence(e)
<1>1. new.tricks = e.ctx.tricks /\ (~ShowsDog(e.ctx) => new.discard = e.ctx.dog)
  BY EngineFields DEF ManageDogAfterBid, Contexts
<1> HIDE DEF new
<1>2. /\ f.trick = e.trick /\ f.ctx = new
      /\ f.seq = IF ShowsDog(e.ctx) THEN "SHOW_DOG" ELSE "START_DEAL"
  BY DEF ManageAfterBidSequence, new, Engines
<1> QED
  BY <1>1, <1>2

\* A partner is recorded without touching the tricks.
LEMMA PartnerTricks ==
  ASSUME NEW e \in Engines, NEW x, NEW s
  PROVE  LET f == [e EXCEPT !.ctx.bid.partner = x, !.seq = s]
         IN  f.trick = e.trick /\ f.ctx.tricks = e.ctx.tricks
<1> DEFINE f   == [e EXCEPT !.ctx.bid.partner = x, !.seq = s]
           new == [e.ctx EXCEPT !.bid.partner = x]
<1>1. new.tricks = e.ctx.tricks
  BY EngineFields DEF Contexts
<1>2. f = [e EXCEPT !.ctx = new, !.seq = s]
  BY DEF Engines, Contexts
<1> HIDE DEF new
<1>3. f.trick = e.trick /\ f.ctx = new
  BY <1>2 DEF Engines
<1> QED
  BY <1>1, <1>3

\* Engine::BidSequence leaves the tricks; if it starts the play the dog becomes
\* the discard.
LEMMA BidSequenceTricks ==
  ASSUME NEW e \in Engines
  PROVE  LET f == BidSequence(e)
         IN  /\ f.trick = e.trick /\ f.ctx.tricks = e.ctx.tricks
             /\ f.seq = "START_DEAL" => f.ctx.discard = e.ctx.dog
<1> DEFINE f == BidSequence(e)
           g == IF IsEndOfTrick(e) THEN CountTrick(e) ELSE e
<1>1. CASE ~(IsEndOfTrick(e) \/ e.ctx.bid.slam)
  BY <1>1 DEF BidSequence, Engines
<1>2. CASE IsEndOfTrick(e) \/ e.ctx.bid.slam
  <2>1. g \in Engines /\ g.trick = e.trick /\ g.ctx = e.ctx
    BY CountTrickCorrect
  <2>2. f = IF g.ctx.bid.contract = PASS THEN [g EXCEPT !.seq = "ALL_PASSED"]
            ELSE IF NbPlayers = 5 /\ g.seq = "SHOW_BID"
            THEN [g EXCEPT !.ctx.bid.partner = g.ctx.bid.taker, !.seq = "KING_CALL"]
            ELSE ManageAfterBidSequence(g)
    BY <1>2 DEF BidSequence
  <2> HIDE DEF g, f
  <2>3. LET x == [g EXCEPT !.seq = "ALL_PASSED"]
        IN  x.trick = g.trick /\ x.ctx = g.ctx /\ x.seq = "ALL_PASSED"
    BY <2>1 DEF Engines
  <2>4. [g EXCEPT !.ctx.bid.partner = g.ctx.bid.taker, !.seq = "KING_CALL"].seq = "KING_CALL"
    BY <2>1 DEF Engines
  <2>5. /\ f.trick = g.trick /\ f.ctx.tricks = g.ctx.tricks
        /\ f.seq = "START_DEAL" => f.ctx.discard = g.ctx.dog
    BY <2>1, <2>2, <2>3, <2>4, PartnerTricks, ManageAfterBidTricks
  <2> QED
    BY <2>1, <2>5 DEF f
<1> QED
  BY <1>1, <1>2

\* Engine::StartDeal leaves the piles.
LEMMA StartDealPiles ==
  ASSUME NEW e \in Engines
  PROVE  LET f == EngineStartDeal(e)
         IN  /\ f.seq = e.seq /\ f.hands = e.hands /\ f.trick = e.trick
             /\ f.ctx.tricks = e.ctx.tricks /\ f.ctx.discard = e.ctx.discard
<1> DEFINE first == IF e.ctx.bid.slam THEN e.ctx.bid.taker ELSE NextPlace(e.dealer)
           new   == [e.ctx EXCEPT !.firstPlayer = first]
           f     == EngineStartDeal(e)
<1> HIDE DEF first
<1>1. new.tricks = e.ctx.tricks /\ new.discard = e.ctx.discard
  BY EngineFields DEF Contexts
<1>2. f = [e EXCEPT !.trickCounter = 0, !.position = 0, !.handleAsked = {},
                    !.currentPlayer = first, !.ctx = new]
  BY DEF EngineStartDeal, first, Engines, Contexts
<1> HIDE DEF new
<1>3. f.seq = e.seq /\ f.hands = e.hands /\ f.trick = e.trick /\ f.ctx = new
  BY <1>2 DEF Engines
<1> QED
  BY <1>1, <1>3

\* The play starts with a shared deck and no trick.
LEMMA StartCards ==
  ASSUME NEW f, f.seq = "START_DEAL",
         Shared(f.hands, f.trick, f.ctx.discard, f.ctx.tricks),
         \A n \in Turns : f.ctx.tricks[n] = << >>
  PROVE  ShareInv(f)
BY DEF ShareInv, AllShared, AsideOf, Unplayed, BidSteps

\* Engine::SetDiscard exchanges the dog and the discard through the taker's hand.
LEMMA SetDiscardCards ==
  ASSUME NEW e \in Engines, EngineInv(e), ShareInv(e), e.seq = "DISCARD",
         NEW discard \in Seq(Cards),
         TestDiscard(e.hands[e.ctx.bid.taker], discard, e.ctx.dog)
  PROVE  LET f == SetDiscard(e, discard)
         IN  /\ Shared(f.hands, f.trick, f.ctx.discard, f.ctx.tricks)
             /\ \A n \in Turns : f.ctx.tricks[n] = << >>
<1> DEFINE f     == SetDiscard(e, discard)
           taker == e.ctx.bid.taker
           held  == e.hands[taker]
           dog   == CardsOf(e.ctx.dog)
           new   == [e.ctx EXCEPT !.discard = discard, !.discardOwner = "ATTACK"]
<1>1. taker \in Places /\ CardsApart(e) /\ e.trick = << >>
  BY DEF EngineInv, TakerInv, PlayInv, CardsInv, BidSteps, DealSteps, HasTaker
<1>2. /\ Shared(e.hands, e.trick, e.ctx.dog, e.ctx.tricks)
      /\ \A n \in Turns : e.ctx.tricks[n] = << >>
  BY DEF ShareInv, AllShared, AsideOf, Unplayed, DealSteps, BidSteps
<1>3. NoRepeat(discard) /\ CardsOf(discard) \subseteq held \cup dog
  BY DEF TestDiscard, NoRepeat, CardsOf
<1>4. new.tricks = e.ctx.tricks /\ new.discard = discard
  BY EngineFields DEF Contexts
<1>5. /\ f.trick = e.trick /\ f.ctx = new
      /\ \A q \in Places :
           f.hands[q] = IF q = taker THEN (held \cup dog) \ CardsOf(discard) ELSE e.hands[q]
  <2>1. e.hands \in [Places -> SUBSET Cards]
    BY EngineFields
  <2> QED
    BY <1>1, <2>1 DEF SetDiscard, Engines, Contexts
<1>6. CardsOf(e.trick) = {} /\ \A n \in Turns : CardsOf(e.ctx.tricks[n]) = {}
  BY <1>1, <1>2, EmptyPile
<1>7. \A q, r \in Places : q # r => e.hands[q] \cap e.hands[r] = {}
  BY <1>1 DEF CardsApart
<1> HIDE DEF f, new
<1>8. Shared(f.hands, e.trick, discard, e.ctx.tricks)
  <2> DEFINE h == e.hands
             g == f.hands
             t == e.trick
             a == e.ctx.dog
             w == e.ctx.tricks
  <2>1. /\ Shared(h, t, a, w) /\ CardsOf(t) = {} /\ \A n \in Turns : CardsOf(w[n]) = {}
        /\ Exchanged(h, g, taker, a, discard)
    BY <1>1, <1>2, <1>3, <1>5, <1>6, <1>7 DEF Exchanged
  <2> HIDE DEF h, g, t, a, w, taker
  <2>2. Shared(g, t, discard, w)
    BY <2>1, MoveDiscard
  <2> QED
    BY <2>2 DEF g, t, w
<1>9. f.trick = e.trick /\ f.ctx.discard = discard /\ f.ctx.tricks = e.ctx.tricks
  BY <1>4, <1>5
<1>10. Shared(f.hands, f.trick, f.ctx.discard, f.ctx.tricks)
  BY <1>8, <1>9
<1>11. \A n \in Turns : f.ctx.tricks[n] = << >>
  BY <1>2, <1>9
<1> QED
  BY <1>10, <1>11 DEF f

-----------------------------------------------------------------------------
(* The play. *)

\* Engine::SetHandle leaves the piles.
LEMMA SetHandleCards ==
  ASSUME NEW e \in Engines, ShareInv(e), e.seq = "HANDLE", NEW handle, NEW p
  PROVE  ShareInv(EngineSetHandle(e, handle, p))
<1> DEFINE f   == EngineSetHandle(e, handle, p)
           new == CtxSetHandle(e.ctx, handle, p)
<1>1. new.tricks = e.ctx.tricks /\ new.discard = e.ctx.discard
  BY EngineFields DEF CtxSetHandle, Contexts
<1> HIDE DEF new
<1>2. /\ f.seq = "SHOW_HANDLE" /\ f.ctx = new /\ f.hands = e.hands
      /\ f.trick = e.trick /\ f.trickCounter = e.trickCounter
  BY DEF EngineSetHandle, new, Engines
<1> HIDE DEF f
<1>3. e.seq \in InPlay /\ f.seq \in InPlay
  BY <1>2 DEF InPlay, PlaySteps
<1>4. ShareInv(f)
  BY <1>1, <1>2, <1>3, KeepsCards
<1> QED
  BY <1>4 DEF f

\* Engine::SetCard moves one card from a hand to the trick.
LEMMA SetCardCards ==
  ASSUME NEW e \in Engines, EngineInv(e), ShareInv(e), e.seq = "PLAYED_CARD",
         e.currentPlayer \in Places, NEW c \in e.hands[e.currentPlayer]
  PROVE  ShareInv(SetCard(e, c, e.currentPlayer))
<1> DEFINE f      == SetCard(e, c, e.currentPlayer)
           player == e.currentPlayer
<1>1. CardsApart(e) /\ Unplayed(e) /\ Shared(e.hands, e.trick, e.ctx.discard, e.ctx.tricks)
  BY DEF EngineInv, CardsInv, ShareInv, AllShared, AsideOf, DealSteps, BidSteps, InPlay,
         PlaySteps
<1>2. e.hands \in [Places -> SUBSET Cards] /\ e.trick \in Seq(Cards) /\ c \in Cards
  BY EngineFields
<1>3. /\ f.seq = "SHOW_CARD" /\ f.ctx = e.ctx /\ f.trickCounter = e.trickCounter
      /\ f.trick = Append(e.trick, c)
      /\ \A q \in Places : f.hands[q] = IF q = player THEN e.hands[player] \ {c} ELSE e.hands[q]
  BY <1>2 DEF SetCard, Engines
<1>4. \A q \in Places : q # player => c \notin e.hands[q]
  BY <1>1 DEF CardsApart
<1> HIDE DEF f
<1>5. Shared(f.hands, f.trick, f.ctx.discard, f.ctx.tricks)
  <2>1. Shared(f.hands, Append(e.trick, c), e.ctx.discard, e.ctx.tricks)
    <3> DEFINE h == e.hands
               g == f.hands
               t == e.trick
               a == e.ctx.discard
               w == e.ctx.tricks
    <3>1. /\ t \in Seq(Cards) /\ Shared(h, t, a, w) /\ player \in Places
          /\ c \in Cards /\ c \in h[player]
          /\ \A q \in Places : q # player => c \notin h[q]
          /\ \A q \in Places : g[q] = IF q = player THEN h[player] \ {c} ELSE h[q]
      BY <1>1, <1>2, <1>3, <1>4
    <3> HIDE DEF h, g, t, a, w, player
    <3>2. Shared(g, Append(t, c), a, w)
      BY <3>1, MoveCard
    <3> QED
      BY <3>2 DEF g, t, a, w
  <2>2. f.trick = Append(e.trick, c) /\ f.ctx = e.ctx
    BY <1>3
  <2> QED
    BY <2>1, <2>2
<1>6. Unplayed(f)
  BY <1>1, <1>3 DEF Unplayed, BidSteps
<1>7. ShareInv(f)
  BY <1>3, <1>5, <1>6 DEF ShareInv, AllShared, AsideOf, BidSteps
<1> QED
  BY <1>7 DEF f

\* TarotContext::SetTrick writes one trick and leaves the discard.
LEMMA SetTrickPiles ==
  ASSUME NEW x \in Contexts, NEW trick, NEW n
  PROVE  LET new == SetTrick(x, trick, n)
         IN  /\ new.discard = x.discard
             /\ \A m \in Turns : new.tricks[m] = IF m = n - 1 THEN trick ELSE x.tricks[m]
<1>1. x.tricks \in [Turns -> Seq(Cards)]
  BY DEF Contexts
<1> QED
  BY <1>1 DEF SetTrick, Contexts

\* The end of a trick: its cards go to a turn that had none.
LEMMA FinishTrickCards ==
  ASSUME NEW e \in Engines, EngineInv(e), ShareInv(e), e.seq = "SHOW_CARD"
  PROVE  LET f == FinishTrick(e)
         IN  /\ ShareInv(f)
             /\ Shared(f.hands, f.trick, f.ctx.discard, f.ctx.tricks)
<1> DEFINE f   == FinishTrick(e)
           g   == CountTrick(e)
           new == SetTrick(g.ctx, g.trick, g.trickCounter)
           win == new.winner[g.trickCounter - 1]
<1>1. /\ CardsApart(e) /\ InTrick(e) /\ Unplayed(e)
      /\ Shared(e.hands, e.trick, e.ctx.discard, e.ctx.tricks)
  BY DEF EngineInv, CardsInv, PlayInv, ShareInv, AllShared, AsideOf, DealSteps, BidSteps,
         InPlay, PlaySteps
<1>2. /\ g \in Engines /\ g.hands = e.hands /\ g.ctx = e.ctx /\ g.trick = e.trick
      /\ g.trickCounter = e.trickCounter + 1
  BY <1>1, CountTrickCorrect DEF InTrick
<1>3. e.trickCounter \in Turns /\ e.trickCounter \in Nat /\ g.trickCounter - 1 = e.trickCounter
  <2>1. e.trickCounter \in 0..(CounterMod - 1) /\ e.trickCounter < HandSize
    BY <1>1, EngineFields DEF InTrick
  <2>2. e.trickCounter \in Turns /\ e.trickCounter \in Nat
    BY <2>1, TarotAssumption, EngineAssumption DEF Turns
  <2> HIDE DEF g
  <2> QED
    BY <1>2, <2>2
<1>4. /\ new.discard = e.ctx.discard
      /\ \A m \in Turns :
           new.tricks[m] = IF m = e.trickCounter THEN e.trick ELSE e.ctx.tricks[m]
  <2>1. e.ctx \in Contexts
    BY EngineFields
  <2> HIDE DEF g
  <2> QED
    BY <1>2, <1>3, <2>1, SetTrickPiles
<1>5. f = [g EXCEPT !.ctx = new, !.currentPlayer = win, !.trick = << >>, !.seq = "END_OF_TRICK"]
  BY DEF FinishTrick
<1> HIDE DEF g, new, win, f
<1>6. /\ f.seq = "END_OF_TRICK" /\ f.ctx = new /\ f.hands = e.hands /\ f.trick = << >>
      /\ f.trickCounter = e.trickCounter + 1
  BY <1>2, <1>5 DEF Engines
<1>7. e.ctx.tricks[e.trickCounter] = << >>
  BY <1>1, <1>3 DEF Unplayed
<1>8. \A c \in CardsOf(e.trick) : \A p \in Places : c \notin e.hands[p]
  BY <1>1 DEF CardsApart, CardsOf
<1>9. Shared(f.hands, f.trick, f.ctx.discard, f.ctx.tricks)
  BY <1>1, <1>3, <1>4, <1>6, <1>7, <1>8, MoveTrick
<1>10. Unplayed(f)
  <2> SUFFICES ASSUME NEW n \in Turns, n >= f.trickCounter PROVE f.ctx.tricks[n] = << >>
    BY <1>6 DEF Unplayed, BidSteps
  <2>1. n # e.trickCounter /\ n >= e.trickCounter
    BY <1>3, <1>6 DEF Turns
  <2> QED
    BY <1>1, <1>4, <1>6, <2>1 DEF Unplayed
<1>11. ShareInv(f)
  BY <1>6, <1>9, <1>10 DEF ShareInv, AllShared, AsideOf, BidSteps
<1> QED
  BY <1>9, <1>11 DEF f

\* GameSequence, when the trick is not over, leaves the piles.
LEMMA AskPlayerCards ==
  ASSUME NEW e \in Engines, ShareInv(e), ~IsEndOfTrick(e), e.seq \in InPlay
  PROVE  ShareInv(EngineGameSequence(e))
<1> DEFINE f == EngineGameSequence(e)
<1>1. /\ f.ctx = e.ctx /\ f.hands = e.hands /\ f.trick = e.trick
      /\ f.trickCounter = e.trickCounter
      /\ f.seq \in {"HANDLE", "PLAYED_CARD"}
  BY DEF EngineGameSequence, Engines
<1> HIDE DEF f
<1>2. f.seq \in InPlay
  BY <1>1 DEF InPlay, PlaySteps
<1>3. ShareInv(f)
  BY <1>1, <1>2, KeepsCards
<1> QED
  BY <1>3 DEF f

\* Engine::EndOfDeal counts the cards where they lie.
LEMMA EndOfDealCards ==
  ASSUME NEW e \in Engines, Shared(e.hands, e.trick, e.ctx.discard, e.ctx.tricks)
  PROVE  ShareInv(EngineEndOfDeal(e))
<1> DEFINE f   == EngineEndOfDeal(e)
           new == AnalyzeGame(e.ctx)
           mid == CountDiscard(e.ctx)
<1>1. mid.tricks = e.ctx.tricks /\ mid.discard = e.ctx.discard /\ DOMAIN mid = DOMAIN e.ctx
  BY EngineFields DEF CountDiscard, Contexts
<1>2. \A x : [mid EXCEPT !.points = x].tricks = mid.tricks
             /\ [mid EXCEPT !.points = x].discard = mid.discard
  <2>1. "tricks" \in DOMAIN e.ctx /\ "discard" \in DOMAIN e.ctx
    BY EngineFields DEF Contexts
  <2> HIDE DEF mid
  <2> QED
    BY <1>1, <2>1
<1>3. new.tricks = e.ctx.tricks /\ new.discard = e.ctx.discard
  <2> HIDE DEF mid
  <2> QED
    BY <1>1, <1>2 DEF AnalyzeGame, RoundPoints, mid
<1> HIDE DEF new
<1>4. /\ f.seq = "END_OF_DEAL" /\ f.ctx = new /\ f.hands = e.hands /\ f.trick = e.trick
  BY DEF EngineEndOfDeal, new, Engines
<1> HIDE DEF f
<1>5. ShareInv(f)
  BY <1>3, <1>4 DEF ShareInv, AllShared, AsideOf, BidSteps, InPlay, PlaySteps
<1> QED
  BY <1>5 DEF f

-----------------------------------------------------------------------------
(* The table: every request keeps the deck shared out. *)

\* What each step of the table starts from and leads to.
Around == Inv /\ ShareInv(engine) /\ Inv'

\* The engine is correct before and after the step.
LEMMA AroundFacts ==
  ASSUME Around
  PROVE  /\ Inv /\ ShareInv(engine)
         /\ engine \in Engines /\ EngineInv(engine)
         /\ engine' \in Engines /\ EngineInv(engine')
BY DEF Around, Inv, TypeOK, TableInv

\* PlayingTable::NewDeal.
LEMMA NewDealStepCards ==
  ASSUME Around, NEW sc, NewDeal(sc)
  PROVE  ShareInv(engine')
<1>1. PICK d \in Deals : engine' = EngineNewDeal(engine, d)
  BY DEF NewDeal
<1>2. d \in Distributions /\ IsDeal(d)
  BY TableAssumption
<1> QED
  BY <1>1, <1>2, AroundFacts, NewDealCards

\* PlayingTable::SendNextBidSequence: the bids go on, or the play starts with
\* the dog as discard.
LEMMA NextBidCards ==
  ASSUME Around, engine.seq \in BidSteps, NEW e \in Engines, NextBidSequence(e),
         e.seq \in BidSteps \cup {"START_DEAL"},
         e.hands = engine.hands, e.ctx.dog = engine.ctx.dog,
         e.trick = engine.trick, e.ctx.tricks = engine.ctx.tricks,
         e.seq = "START_DEAL" => e.ctx.discard = engine.ctx.dog
  PROVE  ShareInv(engine')
<1>1. engine' = AfterBids(e)
  BY DEF NextBidSequence
<1>2. CASE e.seq = "START_DEAL"
  <2>1. engine' = EngineStartDeal(e)
    BY <1>1, <1>2 DEF AfterBids
  <2>2. /\ engine'.seq = "START_DEAL" /\ engine'.hands = engine.hands
        /\ engine'.trick = engine.trick /\ engine'.ctx.tricks = engine.ctx.tricks
        /\ engine'.ctx.discard = engine.ctx.dog
    BY <1>2, <2>1, StartDealPiles
  <2>3. /\ Shared(engine.hands, engine.trick, engine.ctx.dog, engine.ctx.tricks)
        /\ \A n \in Turns : engine.ctx.tricks[n] = << >>
    BY AroundFacts DEF ShareInv, AllShared, AsideOf, Unplayed, DealSteps
  <2> QED
    BY <2>2, <2>3, StartCards
<1>3. CASE e.seq # "START_DEAL"
  <2>1. engine' = e /\ e.seq \in BidSteps
    BY <1>1, <1>3 DEF AfterBids
  <2> QED
    BY <2>1, AroundFacts, KeepsCards
<1> QED
  BY <1>2, <1>3

\* PlayingTable::GameSequence.
LEMMA GameStepCards ==
  ASSUME Around, GameSequence,
         engine.seq \in {"START_DEAL", "HANDLE", "SHOW_HANDLE", "SHOW_CARD", "END_OF_TRICK"}
  PROVE  ShareInv(engine')
<1> DEFINE e == EngineGameSequence(engine)
<1>1. engine' = IF IsLastTrick(e) THEN EngineEndOfDeal(e) ELSE e
  BY DEF GameSequence
<1>2. e \in Engines
  BY AroundFacts, GameSequenceCorrect
<1>3. engine.seq \in InPlay
  BY DEF InPlay, PlaySteps
<1>4. CASE IsEndOfTrick(engine)
  <2>1. e = FinishTrick(engine)
    BY <1>4 DEF EngineGameSequence
  <2>2. engine.seq = "SHOW_CARD"
    <3>1. /\ engine.position \in 0..NbPlayers /\ NbPlayers \in 3..5
          /\ engine.seq \in {"START_DEAL", "END_OF_TRICK"} => engine.position = 0
          /\ engine.seq \in {"HANDLE", "SHOW_HANDLE"} => engine.position < NbPlayers
      BY AroundFacts, EngineFields, TarotAssumption DEF EngineInv, PlayInv
    <3> QED
      BY <1>4, <3>1 DEF IsEndOfTrick
  <2>3. ShareInv(e) /\ Shared(e.hands, e.trick, e.ctx.discard, e.ctx.tricks)
    BY <2>1, <2>2, AroundFacts, FinishTrickCards
  <2> HIDE DEF e
  <2> QED
    BY <1>1, <1>2, <2>3, EndOfDealCards
<1>5. CASE ~IsEndOfTrick(engine)
  <2>1. HasTaker(engine) /\ InTrick(engine) /\ CardsApart(engine)
    BY AroundFacts DEF EngineInv, TakerInv, PlayInv, CardsInv, PlaySteps, BidSteps, DealSteps
  <2>2. ~IsLastTrick(e)
    BY <1>5, <2>1, AroundFacts, AskPlayerCorrect
  <2>3. ShareInv(e)
    BY <1>3, <1>5, AroundFacts, AskPlayerCards
  <2> QED
    BY <1>1, <2>2, <2>3
<1> QED
  BY <1>4, <1>5

\* Every seat has acknowledged the current step.
LEMMA AllSyncedCards ==
  ASSUME Around, AllSynced(engine.seq)
  PROVE  ShareInv(engine')
<1>1. CASE engine.seq = "PLAYERS"
  <2>1. engine' = engine \/ engine' = EngineNewGame(engine)
    BY <1>1 DEF AllSynced, NewGame
  <2>2. EngineNewGame(engine).seq = "READY"
    BY AroundFacts, NewGameCorrect
  <2> QED
    BY <1>1, <2>1, <2>2, IdleCards
<1>2. CASE engine.seq \in {"READY", "ALL_PASSED"}
  <2>1. NewDeal(score)
    BY <1>2 DEF AllSynced
  <2> QED
    BY <2>1, NewDealStepCards
<1>3. CASE engine.seq \in {"CARDS", "SHOW_BID"}
  <2> DEFINE e == BidSequence(engine)
  <2>1. NextBidSequence(e)
    BY <1>3 DEF AllSynced
  <2>2. /\ e \in Engines /\ e.hands = engine.hands /\ e.ctx.dog = engine.ctx.dog
        /\ e.seq \in {"BID", "ALL_PASSED"} \cup
             IF NbPlayers = 5 THEN {"KING_CALL"} ELSE {"SHOW_DOG", "START_DEAL"}
    BY <1>3, AroundFacts, BidSequenceCorrect, BidSequenceCards
  <2>3. /\ e.trick = engine.trick /\ e.ctx.tricks = engine.ctx.tricks
        /\ e.seq = "START_DEAL" => e.ctx.discard = engine.ctx.dog
    BY AroundFacts, BidSequenceTricks
  <2> HIDE DEF e
  <2>4. engine.seq \in BidSteps /\ e.seq \in BidSteps \cup {"START_DEAL"}
    BY <1>3, <2>2 DEF BidSteps
  <2> QED
    BY <2>1, <2>2, <2>3, <2>4, NextBidCards
<1>4. CASE engine.seq = "SHOW_KING_CALL"
  <2> DEFINE e == ManageAfterBidSequence(engine)
  <2>1. NextBidSequence(e)
    BY <1>4 DEF AllSynced
  <2>2. /\ e \in Engines /\ e.hands = engine.hands /\ e.ctx.dog = engine.ctx.dog
        /\ e.seq \in {"SHOW_DOG", "START_DEAL"}
    BY <1>4, AroundFacts, AfterKingCallCorrect, ManageAfterBidCards
  <2>3. /\ e.trick = engine.trick /\ e.ctx.tricks = engine.ctx.tricks
        /\ e.seq = "START_DEAL" => e.ctx.discard = engine.ctx.dog
    BY AroundFacts, ManageAfterBidTricks
  <2> HIDE DEF e
  <2>4. engine.seq \in BidSteps /\ e.seq \in BidSteps \cup {"START_DEAL"}
    BY <1>4, <2>2 DEF BidSteps
  <2> QED
    BY <2>1, <2>2, <2>3, <2>4, NextBidCards
<1>5. CASE engine.seq = "SHOW_DOG"
  <2>1. engine' = DiscardSequence(engine)
    BY <1>5 DEF AllSynced
  <2>2. /\ engine'.seq = "DISCARD" /\ engine'.hands = engine.hands
        /\ engine'.trick = engine.trick /\ engine'.ctx = engine.ctx
    BY <2>1, AroundFacts DEF DiscardSequence, Engines
  <2>3. engine.seq \in BidSteps /\ engine'.seq \in BidSteps
    BY <1>5, <2>2 DEF BidSteps
  <2> QED
    BY <2>2, <2>3, AroundFacts, KeepsCards
<1>6. CASE engine.seq \in {"START_DEAL", "SHOW_HANDLE", "SHOW_CARD", "END_OF_TRICK"}
  <2>1. GameSequence
    BY <1>6 DEF AllSynced
  <2> QED
    BY <1>6, <2>1, GameStepCards
<1>7. CASE engine.seq = "END_OF_DEAL"
  <2>1. EndOfDeal
    BY <1>7 DEF AllSynced
  <2>2. NewDeal(AddPoints(score, engine.points, engine.ctx.bid))
          \/ engine' = EngineNewGame(engine)
    BY <2>1 DEF EndOfDeal
  <2>3. EngineNewGame(engine).seq = "READY"
    BY AroundFacts, NewGameCorrect
  <2> QED
    BY <2>2, <2>3, NewDealStepCards, IdleCards
<1> QED
  BY <1>1, <1>2, <1>3, <1>4, <1>5, <1>6, <1>7 DEF AllSynced

\* "Ack" runs the step that the engine is in, or leaves the engine.
LEMMA AckCards ==
  ASSUME Around, NEW u \in Users, SomeAck(u)
  PROVE  ShareInv(engine')
<1>1. PICK step \in AckSteps : Ack(u, step)
  BY DEF SomeAck
<1>2. CASE \A q \in Places : Sync(u, step)[q]
  <2>1. AllSynced(step)
    BY <1>1, <1>2 DEF Ack
  <2>2. engine.seq = step
    BY <1>1, <1>2, AroundFacts, AckNamesStep
  <2> QED
    BY <2>1, <2>2, AllSyncedCards
<1>3. CASE ~ \A q \in Places : Sync(u, step)[q]
  <2>1. engine' = engine
    BY <1>1, <1>3 DEF Ack
  <2> QED
    BY <2>1, AroundFacts
<1> QED
  BY <1>2, <1>3

\* The answers of the player whose turn it is.
LEMMA AnswerCards ==
  ASSUME Around, NEW u \in Users,
         SomeBid(u) \/ SomeDiscard(u) \/ SomeKingCall(u) \/ SomeHandle(u) \/ SomeCard(u)
  PROVE  ShareInv(engine')
<1>1. CASE SomeBid(u)
  <2>1. PICK b \in BidChoices : ReplyBid(u, b.contract, b.slam)
    BY <1>1 DEF SomeBid
  <2>2. /\ engine.seq = "BID"
        /\ engine' = EngineSetBid(engine, b.contract, b.slam, engine.currentPlayer)
    BY <2>1 DEF ReplyBid, Answers
  <2>3. engine'.seq = "SHOW_BID"
    BY <2>2, AroundFacts DEF EngineSetBid, Engines
  <2>4. /\ engine'.hands = engine.hands /\ engine'.ctx.dog = engine.ctx.dog
        /\ engine'.trick = engine.trick /\ engine'.ctx.tricks = engine.ctx.tricks
    BY <2>2, AroundFacts, SetBidCards, SetBidTricks
  <2>5. engine.seq \in BidSteps /\ engine'.seq \in BidSteps
    BY <2>2, <2>3 DEF BidSteps
  <2> QED
    BY <2>4, <2>5, AroundFacts, KeepsCards
<1>2. CASE SomeDiscard(u)
  <2>1. PICK d \in Discards : Discard(u, d)
    BY <1>2 DEF SomeDiscard
  <2>2. d \in Seq(Cards)
    BY TableAssumption
  <2> DEFINE e == SetDiscard(engine, d)
  <2>3. /\ engine.seq = "DISCARD" /\ engine' = EngineStartDeal(e)
        /\ TestDiscard(engine.hands[engine.ctx.bid.taker], d, engine.ctx.dog)
    BY <2>1 DEF Discard, Answers
  <2>4. e \in Engines /\ e.seq = "START_DEAL"
    BY <2>2, <2>3, AroundFacts, SetDiscardCorrect
  <2>5. /\ Shared(e.hands, e.trick, e.ctx.discard, e.ctx.tricks)
        /\ \A n \in Turns : e.ctx.tricks[n] = << >>
    BY <2>2, <2>3, AroundFacts, SetDiscardCards
  <2> HIDE DEF e
  <2>6. /\ engine'.seq = "START_DEAL" /\ engine'.hands = e.hands /\ engine'.trick = e.trick
        /\ engine'.ctx.tricks = e.ctx.tricks /\ engine'.ctx.discard = e.ctx.discard
    BY <2>3, <2>4, StartDealPiles
  <2> QED
    BY <2>5, <2>6, StartCards
<1>3. CASE SomeKingCall(u)
  <2>1. PICK c \in KingCalls : ReplyKingCall(u, c)
    BY <1>3 DEF SomeKingCall
  <2>2. engine.seq = "KING_CALL" /\ engine' = SetKingCalled(engine, c)
    BY <2>1 DEF ReplyKingCall, Answers
  <2>3. engine'.seq = "SHOW_KING_CALL"
    BY <2>2, AroundFacts, SetKingCalledCorrect
  <2>4. /\ engine'.hands = engine.hands /\ engine'.ctx.dog = engine.ctx.dog
        /\ engine'.trick = engine.trick /\ engine'.ctx.tricks = engine.ctx.tricks
    BY <2>2, AroundFacts, PartnerCards, PartnerTricks DEF SetKingCalled
  <2>5. engine.seq \in BidSteps /\ engine'.seq \in BidSteps
    BY <2>2, <2>3 DEF BidSteps
  <2> QED
    BY <2>4, <2>5, AroundFacts, KeepsCards
<1>4. CASE SomeHandle(u)
  <2>1. CASE NoHandle(u)
    BY <2>1, GameStepCards DEF NoHandle, Answers
  <2>2. CASE \E h \in Handles : ShowHandle(u, h)
    <3>1. PICK h \in Handles : ShowHandle(u, h)
      BY <2>2
    <3>2. /\ engine.seq = "HANDLE"
          /\ engine' = EngineSetHandle(engine, h, engine.currentPlayer)
      BY <3>1 DEF ShowHandle, Answers
    <3> QED
      BY <3>2, AroundFacts, SetHandleCards
  <2> QED
    BY <1>4, <2>1, <2>2 DEF SomeHandle
<1>5. CASE SomeCard(u)
  <2>1. PICK c \in Cards : PlayCard(u, c)
    BY <1>5 DEF SomeCard
  <2>2. /\ engine.seq = "PLAYED_CARD" /\ c \in engine.hands[engine.currentPlayer]
        /\ engine' = SetCard(engine, c, engine.currentPlayer)
    BY <2>1 DEF PlayCard, Answers, CanPlayCard
  <2>3. engine.currentPlayer \in Places
    <3>1. InTrick(engine) /\ engine.position < NbPlayers
      BY <2>2, AroundFacts DEF EngineInv, PlayInv, PlaySteps
    <3>2. engine.position \in Places
      BY <3>1, AroundFacts, EngineFields, TarotAssumption DEF Places
    <3> QED
      BY <3>1, <3>2, ForwardType DEF InTrick
  <2> QED
    BY <2>2, <2>3, AroundFacts, SetCardCards
<1> QED
  BY <1>1, <1>2, <1>3, <1>4, <1>5

\* Every request keeps the deck shared out.
LEMMA NextCards == Inv /\ ShareInv(engine) /\ [Next]_vars => ShareInv(engine)'
<1> SUFFICES ASSUME Inv, ShareInv(engine), [Next]_vars PROVE ShareInv(engine')
  BY DEF ShareInv, AllShared, AsideOf, Unplayed
<1>1. Around
  BY NextInv DEF Around
<1>2. CASE engine' = engine
  BY <1>2
<1>3. ASSUME NEW u \in Users, SomeAck(u) PROVE ShareInv(engine')
  BY <1>1, <1>3, AckCards
<1>4. ASSUME NEW u \in Users, SomeNewGame(u) PROVE ShareInv(engine')
  <2>1. engine'.seq = "READY"
    BY <1>4, RequestNewGameStep
  <2> QED
    BY <2>1, IdleCards
<1>5. ASSUME NEW u \in Users,
             SomeBid(u) \/ SomeDiscard(u) \/ SomeKingCall(u) \/ SomeHandle(u) \/ SomeCard(u)
      PROVE  ShareInv(engine')
  BY <1>1, <1>5, AnswerCards
<1>6. ASSUME NEW u \in Users, AddPlayer(u) \/ RemovePlayer(u) PROVE engine' = engine
  BY <1>6 DEF AddPlayer, RemovePlayer
<1> QED
  BY <1>2, <1>3, <1>4, <1>5, <1>6 DEF Next, vars

-----------------------------------------------------------------------------
(* From piles that are apart to a count of each card. *)

\* A set that holds only x, if anything.
LEMMA CountOf ==
  ASSUME NEW S, NEW x, \A y \in S : y = x
  PROVE  Cardinality(S) = IF x \in S THEN 1 ELSE 0
<1>1. CASE x \in S
  <2>1. S = {x}
    BY <1>1
  <2> QED
    BY <1>1, <2>1, FS_Singleton
<1>2. CASE x \notin S
  <2>1. S = {}
    BY <1>2
  <2> QED
    BY <1>2, <2>1, FS_EmptySet
<1> QED
  BY <1>1, <1>2

\* An empty set counts for nothing.
LEMMA CountNone == ASSUME NEW S, \A y : y \notin S PROVE Cardinality(S) = 0
<1>1. S = {}
  OBVIOUS
<1> QED
  BY <1>1, FS_EmptySet

\* In a deck that is shared out each card is found exactly once.
LEMMA SharedOnce ==
  ASSUME NEW h, NEW t, NEW a, NEW w, Shared(h, t, a, w), NEW c \in Cards,
         \A p, q \in Places : p # q => h[p] \cap h[q] = {},
         \A i \in DOMAIN t : \A p \in Places : t[i] \notin h[p],
         \A i, j \in DOMAIN t : t[i] = t[j] => i = j
  PROVE    Cardinality({p \in Places : c \in h[p]})
         + Cardinality({i \in DOMAIN t : t[i] = c})
         + Cardinality({i \in DOMAIN a : a[i] = c})
         + Cardinality({n \in Turns : c \in CardsOf(w[n])}) = 1
<1> DEFINE held == {p \in Places : c \in h[p]}
           onTable == {i \in DOMAIN t : t[i] = c}
           aside == {i \in DOMAIN a : a[i] = c}
           won == {n \in Turns : c \in CardsOf(w[n])}
<1>1. c \in CardsOf(t) <=> \E i \in DOMAIN t : t[i] = c
  BY DEF CardsOf
<1>2. c \in CardsOf(a) <=> \E i \in DOMAIN a : a[i] = c
  BY DEF CardsOf
<1>3. CASE \E p \in Places : c \in h[p]
  <2>1. PICK p \in Places : c \in h[p]
    BY <1>3
  <2>2. Cardinality(held) = 1
    <3>1. p \in held /\ \A q \in held : q = p
      BY <2>1
    <3> HIDE DEF held
    <3> QED
      BY <3>1, CountOf
  <2>3. \A y : y \notin onTable /\ y \notin aside /\ y \notin won
    BY <1>2, <2>1 DEF Shared, AsideApart, WonApart
  <2> HIDE DEF held, onTable, aside, won
  <2>4. Cardinality(onTable) = 0 /\ Cardinality(aside) = 0 /\ Cardinality(won) = 0
    BY <2>3, CountNone
  <2>5. Cardinality(held) + Cardinality(onTable) + Cardinality(aside) + Cardinality(won) = 1
    BY <2>2, <2>4
  <2> QED
    BY <2>5 DEF held, onTable, aside, won
<1>4. CASE c \in CardsOf(t)
  <2>1. PICK k \in DOMAIN t : t[k] = c
    BY <1>1, <1>4
  <2>2. Cardinality(onTable) = 1
    <3>1. k \in onTable /\ \A i \in onTable : i = k
      BY <2>1
    <3> HIDE DEF onTable
    <3> QED
      BY <3>1, CountOf
  <2>3. \A y : y \notin held /\ y \notin aside /\ y \notin won
    BY <1>2, <1>4, <2>1 DEF Shared, AsideApart, WonApart
  <2> HIDE DEF held, onTable, aside, won
  <2>4. Cardinality(held) = 0 /\ Cardinality(aside) = 0 /\ Cardinality(won) = 0
    BY <2>3, CountNone
  <2>5. Cardinality(held) + Cardinality(onTable) + Cardinality(aside) + Cardinality(won) = 1
    BY <2>2, <2>4
  <2> QED
    BY <2>5 DEF held, onTable, aside, won
<1>5. CASE c \in CardsOf(a)
  <2>1. PICK k \in DOMAIN a : a[k] = c
    BY <1>2, <1>5
  <2>2. Cardinality(aside) = 1
    <3>1. k \in aside /\ \A i \in aside : i = k
      BY <2>1 DEF Shared, NoRepeat
    <3> HIDE DEF aside
    <3> QED
      BY <3>1, CountOf
  <2>3. \A y : y \notin held /\ y \notin onTable /\ y \notin won
    BY <1>1, <1>5 DEF Shared, AsideApart
  <2> HIDE DEF held, onTable, aside, won
  <2>4. Cardinality(held) = 0 /\ Cardinality(onTable) = 0 /\ Cardinality(won) = 0
    BY <2>3, CountNone
  <2>5. Cardinality(held) + Cardinality(onTable) + Cardinality(aside) + Cardinality(won) = 1
    BY <2>2, <2>4
  <2> QED
    BY <2>5 DEF held, onTable, aside, won
<1>6. CASE \E n \in Turns : c \in CardsOf(w[n])
  <2>1. PICK k \in Turns : c \in CardsOf(w[k])
    BY <1>6
  <2>2. Cardinality(won) = 1
    <3>1. k \in won /\ \A i \in won : i = k
      BY <2>1 DEF Shared, WonApart
    <3> HIDE DEF won
    <3> QED
      BY <3>1, CountOf
  <2>3. \A y : y \notin held /\ y \notin onTable /\ y \notin aside
    BY <1>1, <1>2, <2>1 DEF Shared, AsideApart, WonApart
  <2> HIDE DEF held, onTable, aside, won
  <2>4. Cardinality(held) = 0 /\ Cardinality(onTable) = 0 /\ Cardinality(aside) = 0
    BY <2>3, CountNone
  <2>5. Cardinality(held) + Cardinality(onTable) + Cardinality(aside) + Cardinality(won) = 1
    BY <2>2, <2>4
  <2> QED
    BY <2>5 DEF held, onTable, aside, won
<1> QED
  BY <1>3, <1>4, <1>5, <1>6 DEF Shared, Somewhere

\* No card is lost or duplicated during a deal, whatever the deck, the contract,
\* the discard and the order of the requests: Engine::SetDiscard, SetCard and
\* TarotContext::SetTrick only move cards from one pile to another.
THEOREM CardsConservedCorrect == Spec => []CardsConserved
<1>1. Init => ShareInv(engine)
  <2> SUFFICES ASSUME Init PROVE ShareInv(engine)
    OBVIOUS
  <2>1. engine.seq = "PLAYERS"
    BY CreateTableCorrect DEF Init
  <2> QED
    BY <2>1, IdleCards
<1>2. Inv /\ ShareInv(engine) /\ [Next]_vars => ShareInv(engine)'
  BY NextCards
<1>3. Inv /\ ShareInv(engine) => CardsConserved
  <2> SUFFICES ASSUME Inv, ShareInv(engine), engine.seq \in DealSteps, NEW c \in Cards
               PROVE  Occurrences(c) = 1
    BY DEF CardsConserved
  <2>1. CardsApart(engine)
    BY DEF Inv, TableInv, EngineInv, CardsInv
  <2>2. Aside = AsideOf(engine)
    BY DEF Aside, AsideOf, ctx
  <2>3. Shared(engine.hands, engine.trick, Aside, engine.ctx.tricks)
    BY <2>2 DEF ShareInv, AllShared
  <2> HIDE DEF Aside
  <2> QED
    BY <2>1, <2>3, SharedOnce DEF Occurrences, CardsApart, ctx
<1> QED
  BY <1>1, <1>2, <1>3, InvCorrect, PTL DEF Spec
=============================================================================
