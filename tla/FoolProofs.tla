----------------------------- MODULE FoolProofs -----------------------------
(***************************************************************************)
(* The count of a deal: what SetTrick adds up trick by trick is what the   *)
(* attack has won at the end, with the fool in the camp that keeps it, for *)
(* every deck and three or four players.                                   *)
(***************************************************************************)
EXTENDS ConservationProofs, WellFoundedInduction

-----------------------------------------------------------------------------
(* Sums over turns. *)

\* A non-empty set of natural numbers has a least one.
LEMMA LeastNumber ==
  ASSUME NEW T \in SUBSET Nat, T # {}
  PROVE  \E m \in T : \A n \in T : m <= n
<1> DEFINE R == OpToRel(<, Nat)
<1>1. IsWellFoundedOn(R, Nat)
  BY NatLessThanWellFounded
<1>2. \A m, n \in Nat : n < m => <<n, m>> \in R
  BY DEF OpToRel
<1> HIDE DEF R
<1>3. PICK m \in T : \A n \in T : ~(<<n, m>> \in R)
  BY <1>1, WFMin
<1>4. \A n \in T : ~(n < m)
  BY <1>2, <1>3
<1> QED
  BY <1>4

\* g holds the sums of f over the first turns.
Adds(g, f, m) == g[0] = 0 /\ \A n \in 1..m : g[n] = g[n - 1] + f[n - 1]

\* Such sums exist, up to any turn.
LEMMA SumsExist ==
  ASSUME NEW f \in [Turns -> Int], NEW k \in 0..HandSize
  PROVE  \E g \in [0..k -> Int] : Adds(g, f, k)
<1> DEFINE Fails == {m \in Nat : m <= HandSize /\ ~ \E g \in [0..m -> Int] : Adds(g, f, m)}
<1>0. HandSize \in Nat
  BY TarotAssumption
<1> SUFFICES ASSUME Fails # {} PROVE FALSE
  BY <1>0
<1>1. PICK m \in Fails : \A n \in Fails : m <= n
  <2>1. Fails \in SUBSET Nat
    OBVIOUS
  <2> HIDE DEF Fails
  <2> QED
    BY <2>1, LeastNumber
<1>2. m \in Nat /\ m <= HandSize /\ ~ \E g \in [0..m -> Int] : Adds(g, f, m)
  OBVIOUS
<1>3. CASE m = 0
  <2> DEFINE g == [i \in 0..0 |-> 0]
  <2>1. g \in [0..0 -> Int] /\ g[0] = 0 /\ 1..0 = {}
    OBVIOUS
  <2>2. Adds(g, f, 0)
    BY <2>1 DEF Adds
  <2> QED
    BY <1>2, <1>3, <2>1, <2>2
<1>4. CASE m # 0
  <2>1. m - 1 \in Nat /\ m - 1 <= HandSize /\ m - 1 \in Turns /\ m - 1 < m
    BY <1>0, <1>2, <1>4 DEF Turns
  <2>2. m - 1 \notin Fails
    BY <1>1, <1>2, <2>1
  <2>3. PICK h \in [0..(m - 1) -> Int] : Adds(h, f, m - 1)
    BY <2>1, <2>2
  <2> DEFINE g == [i \in 0..m |-> IF i = m THEN h[m - 1] + f[m - 1] ELSE h[i]]
  <2>4. \A i \in 0..m : i # m => i \in 0..(m - 1)
    BY <1>2
  <2>5. g \in [0..m -> Int]
    BY <1>2, <2>1, <2>4
  <2>6. g[0] = 0
    BY <1>2, <1>4, <2>3 DEF Adds
  <2>7. \A n \in 1..m : g[n] = g[n - 1] + f[n - 1]
    <3> SUFFICES ASSUME NEW n \in 1..m PROVE g[n] = g[n - 1] + f[n - 1]
      OBVIOUS
    <3>1. n \in 0..m /\ n - 1 \in 0..m /\ n - 1 # m
      BY <1>2
    <3>2. CASE n = m
      BY <3>1, <3>2
    <3>3. CASE n # m
      <4>1. n \in 1..(m - 1)
        BY <1>2, <3>3
      <4> QED
        BY <2>3, <3>1, <3>3, <4>1 DEF Adds
    <3> QED
      BY <3>2, <3>3
  <2> HIDE DEF g
  <2> QED
    BY <1>2, <2>5, <2>6, <2>7 DEF Adds
<1> QED
  BY <1>3, <1>4

\* f and g are the same on the first k turns.
Agree(f, g, k) == \A t \in 0..(k - 1) : f[t] = g[t]

Meet(a, b, k) == a[k] = b[k]

\* The sums are determined by the turns they cover.
LEMMA SumsUnique ==
  ASSUME NEW f, NEW g, NEW a, NEW b, NEW k \in 0..HandSize,
         Adds(a, f, k), Adds(b, g, k), Agree(f, g, k)
  PROVE  Meet(a, b, k)
<1> SUFFICES a[k] = b[k]
  BY DEF Meet
<1> DEFINE Fails == {m \in Nat : m <= k /\ a[m] # b[m]}
<1>0. HandSize \in Nat /\ k \in Nat
  BY TarotAssumption
<1> SUFFICES ASSUME Fails # {} PROVE FALSE
  BY <1>0
<1>1. PICK m \in Fails : \A n \in Fails : m <= n
  <2>1. Fails \in SUBSET Nat
    OBVIOUS
  <2> HIDE DEF Fails
  <2> QED
    BY <2>1, LeastNumber
<1>2. m \in Nat /\ m <= k /\ a[m] # b[m] /\ m # 0
  BY DEF Adds
<1>3. m - 1 \in Nat /\ m - 1 <= k /\ m - 1 < m /\ m \in 1..k /\ m - 1 \in 0..(k - 1)
  BY <1>0, <1>2
<1>4. a[m - 1] = b[m - 1]
  <2>1. m - 1 \notin Fails
    BY <1>1, <1>2, <1>3
  <2> QED
    BY <1>3, <2>1
<1>5. a[m] = a[m - 1] + f[m - 1] /\ b[m] = b[m - 1] + g[m - 1]
  BY <1>3 DEF Adds
<1> QED
  BY <1>2, <1>3, <1>4, <1>5 DEF Agree

\* SumTo adds f up.
LEMMA SumToAdds ==
  ASSUME NEW f \in [Turns -> Int]
  PROVE  \E g \in [0..HandSize -> Int] :
           Adds(g, f, HandSize) /\ \A k \in 0..HandSize : SumTo(f, k) = g[k]
<1>0. HandSize \in Nat
  BY TarotAssumption
<1> DEFINE Def(s) == [n \in 0..HandSize |-> IF n = 0 THEN 0 ELSE s[n - 1] + f[n - 1]]
           sum == CHOOSE s : s = Def(s)
<1>1. PICK g \in [0..HandSize -> Int] : Adds(g, f, HandSize)
  BY <1>0, SumsExist
<1>2. \A n \in 0..HandSize : g[n] = IF n = 0 THEN 0 ELSE g[n - 1] + f[n - 1]
  BY <1>0, <1>1 DEF Adds
<1>3. g = Def(g)
  BY <1>1, <1>2
<1>4. sum = Def(sum)
  <2> HIDE DEF Def
  <2> QED
    BY <1>3
<1>5. \A k : SumTo(f, k) = sum[k]
  BY DEF SumTo
<1> HIDE DEF sum
<1>6. \A n \in 0..HandSize : sum[n] = IF n = 0 THEN 0 ELSE sum[n - 1] + f[n - 1]
  BY <1>4
<1>7. ASSUME NEW k \in 0..HandSize PROVE sum[k] = g[k]
  <2>1. Adds(sum, f, k)
    BY <1>0, <1>6 DEF Adds
  <2>2. Adds(g, f, k)
    BY <1>0, <1>1 DEF Adds
  <2>3. Agree(f, f, k)
    BY DEF Agree
  <2> QED
    <3>1. Meet(sum, g, k)
      BY <2>1, <2>2, <2>3, SumsUnique
    <3> QED
      BY <3>1 DEF Meet
<1> QED
  BY <1>1, <1>5, <1>7

\* The empty sum, the next sum, and sums that cover the same turns.
LEMMA SumFacts ==
  ASSUME NEW f \in [Turns -> Int]
  PROVE  /\ SumTo(f, 0) = 0
         /\ \A k \in 0..HandSize : SumTo(f, k) \in Int
         /\ \A k \in Turns : SumTo(f, k + 1) = SumTo(f, k) + f[k]
<1>1. PICK g \in [0..HandSize -> Int] :
        Adds(g, f, HandSize) /\ \A k \in 0..HandSize : SumTo(f, k) = g[k]
  BY SumToAdds
<1>2. HandSize \in Nat
  BY TarotAssumption
<1>3. \A k \in Turns : k \in 0..HandSize /\ k + 1 \in 1..HandSize /\ k + 1 \in 0..HandSize
                       /\ (k + 1) - 1 = k
  BY <1>2 DEF Turns
<1> QED
  BY <1>1, <1>2, <1>3 DEF Adds

\* A change of the later turns leaves a sum.
LEMMA SumSame ==
  ASSUME NEW f \in [Turns -> Int], NEW g \in [Turns -> Int], NEW k \in 0..HandSize, Agree(f, g, k)
  PROVE  SumTo(f, k) = SumTo(g, k)
<1>0. HandSize \in Nat
  BY TarotAssumption
<1>1. PICK a \in [0..HandSize -> Int] :
        Adds(a, f, HandSize) /\ \A n \in 0..HandSize : SumTo(f, n) = a[n]
  BY SumToAdds
<1>2. PICK b \in [0..HandSize -> Int] :
        Adds(b, g, HandSize) /\ \A n \in 0..HandSize : SumTo(g, n) = b[n]
  BY SumToAdds
<1>3. Adds(a, f, k) /\ Adds(b, g, k)
  BY <1>0, <1>1, <1>2 DEF Adds
<1>4. Meet(a, b, k)
  BY <1>3, SumsUnique
<1> QED
  BY <1>1, <1>2, <1>4 DEF Meet

-----------------------------------------------------------------------------
(* The count after k tricks. *)

\* What the attack has after k tricks: the tricks it won, and the fool.
Tally(x, k) ==
  /\ x.tricksWon \in 0..k
  /\ x.points = SumTo(PointsWon(x), k) + 8 * SumTo(FoolMoves(x), k)
  /\ x.oudlers = SumTo(OudlersWon(x), k) + SumTo(FoolMoves(x), k)

\* What the attack has before the first trick.
Blank(x) == x.points = 0 /\ x.oudlers = 0 /\ x.tricksWon = 0

\* The contexts that are counted alike.
SameCount(x, y) ==
  /\ y.points = x.points /\ y.oudlers = x.oudlers /\ y.tricksWon = x.tricksWon
  /\ y.bid = x.bid /\ y.firstPlayer = x.firstPlayer
  /\ y.tricks = x.tricks /\ y.owner = x.owner /\ y.winner = x.winner

\* The deal is counted once, at its end.
Counted(e) ==
  LET mine    == e.ctx.discardOwner = "ATTACK"
      moves   == SumTo(FoolMoves(e.ctx), HandSize)
      oudlers == SumTo(OudlersWon(e.ctx), HandSize)
                   + (IF mine THEN PileOudlers(e.ctx.discard) ELSE 0) + moves
      half    == SumTo(PointsWon(e.ctx), HandSize)
                   + (IF mine THEN PilePoints(e.ctx.discard) ELSE 0) + 8 * moves
  IN  /\ e.points.oudlers = oudlers
      /\ 2 * e.points.pointsAttack - half \in (IF half % 2 = 0 THEN {0} ELSE {-1, 1})

\* The inductive invariant: nothing is counted during the bids, then the count
\* is that of the tricks played so far.
FoolInv(e) ==
  /\ e.seq \in BidSteps => Blank(e.ctx)
  /\ e.seq \in InPlay => Tally(e.ctx, e.trickCounter)
  /\ e.seq = "END_OF_DEAL" => Counted(e)

\* What is added up is an integer, turn by turn.
LEMMA TurnTypes ==
  ASSUME NEW x \in Contexts
  PROVE  /\ PointsWon(x) \in [Turns -> Int]
         /\ OudlersWon(x) \in [Turns -> Int]
         /\ FoolMoves(x) \in [Turns -> Int]
<1>1. ASSUME NEW t \in Turns PROVE x.tricks[t] \in Seq(Cards)
  BY DEF Contexts
<1>2. ASSUME NEW t \in Turns PROVE PilePoints(x.tricks[t]) \in Int
  BY <1>1, PilePointsType
<1>3. ASSUME NEW t \in Turns PROVE PileOudlers(x.tricks[t]) \in Int
  BY <1>1, PileOudlersType
<1>4. PointsWon(x) \in [Turns -> Int]
  BY <1>2 DEF PointsWon
<1>5. OudlersWon(x) \in [Turns -> Int]
  BY <1>3 DEF OudlersWon
<1>6. \A t \in Turns : FoolMove(x, t) \in {0, 1, -1}
  BY DEF FoolMove
<1>7. FoolMoves(x) \in [Turns -> Int]
  BY <1>6 DEF FoolMoves
<1> QED
  BY <1>4, <1>5, <1>7

\* Before the first trick the count is blank.
LEMMA BlankTally == ASSUME NEW x \in Contexts, Blank(x) PROVE Tally(x, 0)
<1>1. /\ SumTo(PointsWon(x), 0) = 0 /\ SumTo(OudlersWon(x), 0) = 0
      /\ SumTo(FoolMoves(x), 0) = 0
  BY TurnTypes, SumFacts
<1> QED
  BY <1>1 DEF Tally, Blank

\* A context that is counted alike has the same tally.
LEMMA SameTally ==
  ASSUME NEW x, NEW y, SameCount(x, y), NEW k, Tally(x, k)
  PROVE  Tally(y, k)
<1>1. PointsWon(y) = PointsWon(x) /\ OudlersWon(y) = OudlersWon(x)
  BY DEF SameCount, PointsWon, OudlersWon
<1>2. \A t : TrickOpener(y, t) = TrickOpener(x, t)
  BY DEF SameCount, TrickOpener
<1>3. \A t : FoolMove(y, t) = FoolMove(x, t)
  BY <1>2 DEF SameCount, FoolMove, FoolKeptByAttack, FoolPlayer
<1>4. FoolMoves(y) = FoolMoves(x)
  BY <1>3 DEF FoolMoves
<1> QED
  BY <1>1, <1>4 DEF Tally, SameCount

-----------------------------------------------------------------------------
(* TarotContext::SetTrick. *)

\* What SetTrick adds for the trick of turn k.
LEMMA SetTrickFields ==
  ASSUME NEW x \in Contexts, NEW trick, NEW k \in Turns
  PROVE  LET y    == SetTrick(x, trick, k + 1)
             won  == IsAttack(x.bid, TrickWinner(x, trick, k))
             swap == IF FoolSwap(x, trick, k) THEN 1 ELSE 0
         IN  /\ y.bid = x.bid /\ y.firstPlayer = x.firstPlayer
             /\ \A t \in Turns : t # k => /\ y.tricks[t] = x.tricks[t]
                                          /\ y.owner[t] = x.owner[t]
                                          /\ y.winner[t] = x.winner[t]
             /\ y.tricks[k] = trick
             /\ y.owner[k] = IF won THEN "ATTACK" ELSE "DEFENSE"
             /\ y.tricksWon = IF won THEN x.tricksWon + 1 ELSE x.tricksWon
             /\ y.points = IF won THEN x.points + PilePoints(trick) - 8 * swap
                                  ELSE x.points + 8 * swap
             /\ y.oudlers = IF won THEN x.oudlers + PileOudlers(trick) - swap
                                   ELSE x.oudlers + swap
<1> DEFINE w    == TrickWinner(x, trick, k)
           won  == IsAttack(x.bid, w)
           swap == IF FoolSwap(x, trick, k) THEN 1 ELSE 0
           team == IF won THEN "ATTACK" ELSE "DEFENSE"
           pts  == IF won THEN x.points + PilePoints(trick) - 8 * swap ELSE x.points + 8 * swap
           ouds == IF won THEN x.oudlers + PileOudlers(trick) - swap ELSE x.oudlers + swap
           n    == IF won THEN x.tricksWon + 1 ELSE x.tricksWon
           y    == SetTrick(x, trick, k + 1)
<1>1. (k + 1) - 1 = k
  BY DEF Turns
<1>2. y = [x EXCEPT !.tricks = [@ EXCEPT ![k] = trick], !.owner = [@ EXCEPT ![k] = team],
                    !.winner = [@ EXCEPT ![k] = w],
                    !.tricksWon = n, !.points = pts, !.oudlers = ouds]
  BY <1>1 DEF SetTrick, Contexts
<1> HIDE DEF w, won, swap, team, pts, ouds, n, y
<1>3. /\ y.bid = x.bid /\ y.firstPlayer = x.firstPlayer
      /\ y.tricks = [x.tricks EXCEPT ![k] = trick] /\ y.owner = [x.owner EXCEPT ![k] = team]
      /\ y.winner = [x.winner EXCEPT ![k] = w]
      /\ y.tricksWon = n /\ y.points = pts /\ y.oudlers = ouds
  BY <1>2 DEF Contexts
<1>4. DOMAIN x.tricks = Turns /\ DOMAIN x.owner = Turns /\ DOMAIN x.winner = Turns
  BY DEF Contexts
<1>5. /\ \A t \in Turns : t # k => /\ y.tricks[t] = x.tricks[t]
                                   /\ y.owner[t] = x.owner[t]
                                   /\ y.winner[t] = x.winner[t]
      /\ y.tricks[k] = trick /\ y.owner[k] = team
  BY <1>3, <1>4
<1> QED
  BY <1>3, <1>5 DEF y, team, pts, ouds, n, won, swap, w

\* The fool moves to the camp that wins the trick of turn k, or from it, exactly
\* when SetTrick swaps it: FoolMove, read off the context that SetTrick leaves,
\* is the exchange that SetTrick made.
LEMMA SwapIsMove ==
  ASSUME NEW x \in Contexts, NEW trick \in Seq(Cards), NEW k \in Turns, NEW y,
         Len(trick) = NbPlayers, TrickOpener(x, k) \in Places,
         x.bid.taker \in Places, x.bid.partner = NOWHERE, x.tricksWon \in 0..k,
         y.bid = x.bid, y.tricks[k] = trick, TrickOpener(y, k) = TrickOpener(x, k),
         y.owner[k] = IF IsAttack(x.bid, TrickWinner(x, trick, k)) THEN "ATTACK" ELSE "DEFENSE",
         y.tricksWon = IF IsAttack(x.bid, TrickWinner(x, trick, k))
                       THEN x.tricksWon + 1 ELSE x.tricksWon
  PROVE  FoolMove(y, k) =
           IF ~FoolSwap(x, trick, k) THEN 0
           ELSE IF IsAttack(x.bid, TrickWinner(x, trick, k)) THEN -1 ELSE 1
<1> DEFINE won    == IsAttack(x.bid, TrickWinner(x, trick, k))
           leader == IsAttack(x.bid, GetOwner(TrickOpener(x, k), LeaderIndex(trick)))
           player == GetOwner(TrickOpener(x, k), FoolIndex(trick))
           slam   == FoolWinsSlam(x, trick, k)
           last   == k = HandSize - 1
<1>1. FoolPlayer(y, k) = player
  BY DEF FoolPlayer
<1>2. last <=> IsDealFinished(k + 1)
  BY TarotAssumption DEF Turns, IsDealFinished
<1>3. CASE ~HasFool(trick)
  <2>1. ~FoolSwap(x, trick, k)
    BY <1>3 DEF FoolSwap
  <2>2. FoolMove(y, k) = 0
    BY <1>3 DEF FoolMove
  <2> QED
    BY <2>1, <2>2
<1>4. CASE HasFool(trick)
  <2>1. player \in Places
    <3>1. FoolIndex(trick) \in DOMAIN trick
      BY <1>4 DEF HasFool, FoolIndex
    <3>2. FoolIndex(trick) - 1 \in Places
      BY <3>1, TarotAssumption DEF Places
    <3> QED
      BY <3>2, ForwardType DEF GetOwner
  <2>2. IsAttack(y.bid, player) <=> player = x.bid.taker
    BY <2>1, PlacesFacts DEF IsAttack
  <2>3. won <=> slam \/ leader
    BY DEF TrickWinner, IsAttack
  <2>4. slam <=> last /\ x.tricksWon = HandSize - 1 /\ player = x.bid.taker
    BY <1>2, <1>4 DEF FoolWinsSlam
  <2>5. FoolSwap(x, trick, k) <=>
          /\ ~slam
          /\ IF last THEN leader <=> player = x.bid.taker
                     ELSE ~(leader <=> player = x.bid.taker)
    <3>1. leader \in BOOLEAN
      BY DEF IsAttack
    <3> QED
      BY <1>2, <1>4, <3>1 DEF FoolSwap
  <2>6. FoolKeptByAttack(y, k) <=>
          IF last THEN (y.tricksWon = HandSize /\ player = x.bid.taker) \/ ~(player = x.bid.taker)
                  ELSE player = x.bid.taker
    BY <1>1, <2>2 DEF FoolKeptByAttack
  <2>7. last => (y.tricksWon = HandSize <=> won /\ x.tricksWon = HandSize - 1)
    <3>1. x.tricksWon \in 0..k /\ HandSize \in Nat
      BY TarotAssumption
    <3> HIDE DEF won
    <3> QED
      BY <3>1 DEF won
  <2>8. FoolMove(y, k) = IF FoolKeptByAttack(y, k) /\ ~won THEN 1
                         ELSE IF ~FoolKeptByAttack(y, k) /\ won THEN -1 ELSE 0
    <3>1. HasFool(y.tricks[k])
      BY <1>4
    <3>2. y.owner[k] = "ATTACK" <=> won
      OBVIOUS
    <3>3. y.owner[k] = "DEFENSE" <=> ~won
      OBVIOUS
    <3> HIDE DEF won
    <3> QED
      BY <3>1, <3>2, <3>3 DEF FoolMove
  <2> HIDE DEF won, leader, player, slam, last
  <2>9. FoolMove(y, k) = IF ~FoolSwap(x, trick, k) THEN 0 ELSE IF won THEN -1 ELSE 1
    BY <2>3, <2>4, <2>5, <2>6, <2>7, <2>8
  <2> QED
    BY <2>9 DEF won
<1> QED
  BY <1>3, <1>4

\* The trick of turn k is added to the count of the tricks before it.
LEMMA SetTrickTally ==
  ASSUME NEW x \in Contexts, NEW trick \in Seq(Cards), NEW k \in Turns,
         Len(trick) = NbPlayers, TrickOpener(x, k) \in Places,
         x.bid.taker \in Places, x.bid.partner = NOWHERE,
         SetTrick(x, trick, k + 1) \in Contexts, Tally(x, k)
  PROVE  Tally(SetTrick(x, trick, k + 1), k + 1)
<1> DEFINE y    == SetTrick(x, trick, k + 1)
           won  == IsAttack(x.bid, TrickWinner(x, trick, k))
           swap == IF FoolSwap(x, trick, k) THEN 1 ELSE 0
           pts  == PilePoints(trick)
           ouds == PileOudlers(trick)
           move == FoolMove(y, k)
<1>1. /\ y.bid = x.bid /\ y.firstPlayer = x.firstPlayer
      /\ \A t \in Turns : t # k => /\ y.tricks[t] = x.tricks[t]
                                   /\ y.owner[t] = x.owner[t]
                                   /\ y.winner[t] = x.winner[t]
      /\ y.tricks[k] = trick
      /\ y.owner[k] = IF won THEN "ATTACK" ELSE "DEFENSE"
      /\ y.tricksWon = IF won THEN x.tricksWon + 1 ELSE x.tricksWon
      /\ y.points = IF won THEN x.points + pts - 8 * swap ELSE x.points + 8 * swap
      /\ y.oudlers = IF won THEN x.oudlers + ouds - swap ELSE x.oudlers + swap
  BY SetTrickFields
<1>2. y \in Contexts
  OBVIOUS
<1>3. swap \in {0, 1} /\ pts \in Int /\ ouds \in Int
  BY PilePointsType, PileOudlersType
<1> HIDE DEF y, swap, pts, ouds
<1>4. /\ k \in Nat /\ k < HandSize /\ HandSize \in Nat
      /\ \A t \in 0..k : t \in Turns /\ (t # 0 => t - 1 \in Turns /\ t - 1 # k)
      /\ \A t \in 0..(k - 1) : t \in 0..k /\ t # k /\ t # HandSize - 1
      /\ k \in 0..k /\ k \in 0..HandSize /\ k + 1 \in 0..HandSize
  BY TarotAssumption DEF Turns
<1>5. \A t \in 0..k : TrickOpener(y, t) = TrickOpener(x, t)
  BY <1>1, <1>4 DEF TrickOpener
<1>6. move = IF swap = 0 THEN 0 ELSE IF won THEN -1 ELSE 1
  <2>1. x.tricksWon \in 0..k
    BY DEF Tally
  <2>2. TrickOpener(y, k) = TrickOpener(x, k)
    BY <1>4, <1>5
  <2>3. move = IF ~FoolSwap(x, trick, k) THEN 0 ELSE IF won THEN -1 ELSE 1
    BY <1>1, <2>1, <2>2, SwapIsMove
  <2>4. swap = 0 <=> ~FoolSwap(x, trick, k)
    BY DEF swap
  <2> HIDE DEF move, won
  <2> QED
    BY <2>3, <2>4
<1>7. /\ PointsWon(y)[k] = IF won THEN pts ELSE 0
      /\ OudlersWon(y)[k] = IF won THEN ouds ELSE 0
      /\ FoolMoves(y)[k] = move
  <2>1. y.owner[k] = "ATTACK" <=> won
    BY <1>1
  <2> HIDE DEF won, move
  <2> QED
    BY <1>1, <2>1 DEF PointsWon, OudlersWon, FoolMoves, pts, ouds, move
<1>8. /\ Agree(PointsWon(x), PointsWon(y), k)
      /\ Agree(OudlersWon(x), OudlersWon(y), k)
      /\ Agree(FoolMoves(x), FoolMoves(y), k)
  <2>1. ASSUME NEW t \in 0..(k - 1)
        PROVE  /\ t \in Turns /\ t # HandSize - 1 /\ TrickOpener(y, t) = TrickOpener(x, t)
               /\ y.tricks[t] = x.tricks[t] /\ y.owner[t] = x.owner[t]
    BY <1>1, <1>4, <1>5
  <2>2. ASSUME NEW t \in 0..(k - 1) PROVE FoolMove(x, t) = FoolMove(y, t)
    <3>1. FoolPlayer(y, t) = FoolPlayer(x, t)
      BY <2>1 DEF FoolPlayer
    <3>2. FoolKeptByAttack(y, t) <=> FoolKeptByAttack(x, t)
      BY <1>1, <2>1, <3>1 DEF FoolKeptByAttack
    <3> QED
      BY <2>1, <3>2 DEF FoolMove
  <2>3. Agree(FoolMoves(x), FoolMoves(y), k)
    BY <2>1, <2>2 DEF Agree, FoolMoves
  <2>4. Agree(PointsWon(x), PointsWon(y), k) /\ Agree(OudlersWon(x), OudlersWon(y), k)
    BY <2>1 DEF Agree, PointsWon, OudlersWon
  <2> QED
    BY <2>3, <2>4
<1> DEFINE P == SumTo(PointsWon(x), k)
           O == SumTo(OudlersWon(x), k)
           F == SumTo(FoolMoves(x), k)
<1>9. /\ SumTo(PointsWon(y), k) = P /\ SumTo(OudlersWon(y), k) = O
      /\ SumTo(FoolMoves(y), k) = F
      /\ P \in Int /\ O \in Int /\ F \in Int
  <2>1. /\ PointsWon(x) \in [Turns -> Int] /\ PointsWon(y) \in [Turns -> Int]
        /\ OudlersWon(x) \in [Turns -> Int] /\ OudlersWon(y) \in [Turns -> Int]
        /\ FoolMoves(x) \in [Turns -> Int] /\ FoolMoves(y) \in [Turns -> Int]
        /\ k \in 0..HandSize
    BY <1>2, <1>4, TurnTypes
  <2>2. P \in Int /\ SumTo(PointsWon(y), k) = P
    BY <1>8, <2>1, SumSame, SumFacts
  <2>3. O \in Int /\ SumTo(OudlersWon(y), k) = O
    BY <1>8, <2>1, SumSame, SumFacts
  <2>4. F \in Int /\ SumTo(FoolMoves(y), k) = F
    BY <1>8, <2>1, SumSame, SumFacts
  <2> QED
    BY <2>2, <2>3, <2>4
<1>10. /\ SumTo(PointsWon(y), k + 1) = P + (IF won THEN pts ELSE 0)
       /\ SumTo(OudlersWon(y), k + 1) = O + (IF won THEN ouds ELSE 0)
       /\ SumTo(FoolMoves(y), k + 1) = F + move
  <2> HIDE DEF move, won
  <2> QED
    BY <1>2, <1>7, <1>9, TurnTypes, SumFacts
<1>11. x.points = P + 8 * F /\ x.oudlers = O + F /\ x.tricksWon \in 0..k
  BY DEF Tally
<1> HIDE DEF move, won, P, O, F
<1>12. y.tricksWon \in 0..(k + 1)
  BY <1>1, <1>4, <1>11
<1>13. /\ \A p, f, d \in Int : \A m \in {0, 1} :
             /\ (p + 8 * f) + d - 8 * m = (p + d) + 8 * (f + (0 - m))
             /\ (p + 8 * f) + 8 * m = (p + 0) + 8 * (f + m)
             /\ (p + f) + d - m = (p + d) + (f + (0 - m))
             /\ (p + f) + m = (p + 0) + (f + m)
  OBVIOUS
<1>14. /\ y.points = SumTo(PointsWon(y), k + 1) + 8 * SumTo(FoolMoves(y), k + 1)
       /\ y.oudlers = SumTo(OudlersWon(y), k + 1) + SumTo(FoolMoves(y), k + 1)
  <2>1. CASE won
    <3>1. move = 0 - swap
      BY <1>3, <1>6, <2>1
    <3>2. /\ y.points = (P + 8 * F) + pts - 8 * swap
          /\ y.oudlers = (O + F) + ouds - swap
          /\ SumTo(PointsWon(y), k + 1) = P + pts
          /\ SumTo(OudlersWon(y), k + 1) = O + ouds
          /\ SumTo(FoolMoves(y), k + 1) = F + (0 - swap)
      BY <1>1, <1>10, <1>11, <2>1, <3>1
    <3> QED
      BY <1>3, <1>9, <1>13, <3>2
  <2>2. CASE ~won
    <3>1. move = swap
      BY <1>3, <1>6, <2>2
    <3>2. /\ y.points = (P + 8 * F) + 8 * swap
          /\ y.oudlers = (O + F) + swap
          /\ SumTo(PointsWon(y), k + 1) = P + 0
          /\ SumTo(OudlersWon(y), k + 1) = O + 0
          /\ SumTo(FoolMoves(y), k + 1) = F + swap
      BY <1>1, <1>10, <1>11, <2>2, <3>1
    <3> QED
      BY <1>3, <1>9, <1>13, <3>2
  <2> QED
    BY <2>1, <2>2
<1>15. Tally(y, k + 1)
  BY <1>12, <1>14 DEF Tally
<1> QED
  BY <1>15 DEF y

-----------------------------------------------------------------------------
(* The end of the deal. *)

\* TarotContext::AnalyzeGame: the discard is counted, and a half point that is
\* left is rounded one way or the other.
LEMMA AnalyzeGameFields ==
  ASSUME NEW x \in Contexts
  PROVE  LET y    == AnalyzeGame(x)
             mine == x.discardOwner = "ATTACK"
             half == x.points + (IF mine THEN PilePoints(x.discard) ELSE 0)
         IN  /\ y.bid = x.bid /\ y.firstPlayer = x.firstPlayer /\ y.tricksWon = x.tricksWon
             /\ y.tricks = x.tricks /\ y.owner = x.owner /\ y.winner = x.winner
             /\ y.discard = x.discard /\ y.discardOwner = x.discardOwner
             /\ y.oudlers = x.oudlers + (IF mine THEN PileOudlers(x.discard) ELSE 0)
             /\ half \in Int
             /\ y.points \in Int /\ y.points % 2 = 0
             /\ y.points - half \in (IF half % 2 = 0 THEN {0} ELSE {-1, 1})
<1> DEFINE mine == x.discardOwner = "ATTACK"
           half == x.points + (IF mine THEN PilePoints(x.discard) ELSE 0)
           ouds == x.oudlers + (IF mine THEN PileOudlers(x.discard) ELSE 0)
           mid  == CountDiscard(x)
           y    == AnalyzeGame(x)
<1>1. x.points \in Int /\ x.oudlers \in Int /\ x.discard \in Seq(Cards)
  BY DEF Contexts
<1>2. half \in Int /\ ouds \in Int
  BY <1>1, PilePointsType, PileOudlersType
<1>3. mid = [x EXCEPT !.points = half, !.oudlers = ouds]
  <2>1. CASE mine
    BY <2>1 DEF CountDiscard
  <2>2. CASE ~mine
    <3>1. half = x.points /\ ouds = x.oudlers
      BY <1>1, <2>2
    <3> HIDE DEF half, ouds
    <3> QED
      BY <2>2, <3>1 DEF CountDiscard, Contexts
  <2> QED
    BY <2>1, <2>2
<1> HIDE DEF half, ouds
<1>4. /\ mid \in Contexts /\ mid.points = half /\ mid.oudlers = ouds
      /\ mid.bid = x.bid /\ mid.firstPlayer = x.firstPlayer /\ mid.tricksWon = x.tricksWon
      /\ mid.tricks = x.tricks /\ mid.owner = x.owner /\ mid.winner = x.winner
      /\ mid.discard = x.discard /\ mid.discardOwner = x.discardOwner
  BY <1>2, <1>3 DEF Contexts
<1> HIDE DEF mid
<1>5. y = IF half % 2 = 0 THEN mid
          ELSE IF half >= 2 * PointsToDo(ouds) THEN [mid EXCEPT !.points = half + 1]
                                               ELSE [mid EXCEPT !.points = half - 1]
  BY <1>4 DEF AnalyzeGame, RoundPoints, mid
<1>6. PICK r \in {half, half + 1, half - 1} :
        /\ y = [mid EXCEPT !.points = r]
        /\ IF half % 2 = 0 THEN r = half ELSE r # half
  <2>1. half % 2 = 0 => mid = [mid EXCEPT !.points = half]
    BY <1>4 DEF Contexts
  <2> QED
    BY <1>2, <1>5, <2>1
<1>7. /\ r \in Int /\ r % 2 = 0
      /\ r - half \in (IF half % 2 = 0 THEN {0} ELSE {-1, 1})
  BY <1>2, <1>6
<1> HIDE DEF y
<1>8. /\ y.points = r /\ y.oudlers = ouds
      /\ y.bid = x.bid /\ y.firstPlayer = x.firstPlayer /\ y.tricksWon = x.tricksWon
      /\ y.tricks = x.tricks /\ y.owner = x.owner /\ y.winner = x.winner
      /\ y.discard = x.discard /\ y.discardOwner = x.discardOwner
  BY <1>4, <1>6 DEF Contexts
<1> QED
  BY <1>2, <1>7, <1>8 DEF y, half, ouds

\* Engine::EndOfDeal counts what the tricks have added up to.
LEMMA EndOfDealCounted ==
  ASSUME NEW e \in Engines, Tally(e.ctx, HandSize)
  PROVE  FoolInv(EngineEndOfDeal(e))
<1> DEFINE f    == EngineEndOfDeal(e)
           x    == e.ctx
           y    == AnalyzeGame(x)
           mine == x.discardOwner = "ATTACK"
           half == x.points + (IF mine THEN PilePoints(x.discard) ELSE 0)
<1>1. x \in Contexts
  BY EngineFields
<1>2. /\ y.bid = x.bid /\ y.firstPlayer = x.firstPlayer /\ y.tricksWon = x.tricksWon
      /\ y.tricks = x.tricks /\ y.owner = x.owner /\ y.winner = x.winner
      /\ y.discard = x.discard /\ y.discardOwner = x.discardOwner
      /\ y.oudlers = x.oudlers + (IF mine THEN PileOudlers(x.discard) ELSE 0)
      /\ half \in Int
      /\ y.points \in Int /\ y.points % 2 = 0
      /\ y.points - half \in (IF half % 2 = 0 THEN {0} ELSE {-1, 1})
  BY <1>1, AnalyzeGameFields
<1>3. /\ f.seq = "END_OF_DEAL" /\ f.ctx = y /\ f.points = GamePoints(x)
  BY DEF EngineEndOfDeal, Engines
<1>4. f.points.pointsAttack = y.points \div 2 /\ f.points.oudlers = y.oudlers
  BY <1>3 DEF GamePoints
<1> HIDE DEF f, y
<1>5. PointsWon(y) = PointsWon(x) /\ OudlersWon(y) = OudlersWon(x)
  BY <1>2 DEF PointsWon, OudlersWon
<1>6. FoolMoves(y) = FoolMoves(x)
  <2>1. \A t : TrickOpener(y, t) = TrickOpener(x, t)
    BY <1>2 DEF TrickOpener
  <2>2. \A t : FoolMove(y, t) = FoolMove(x, t)
    BY <1>2, <2>1 DEF FoolMove, FoolKeptByAttack, FoolPlayer
  <2> QED
    BY <2>2 DEF FoolMoves
<1> DEFINE P == SumTo(PointsWon(x), HandSize)
           O == SumTo(OudlersWon(x), HandSize)
           F == SumTo(FoolMoves(x), HandSize)
           a == IF mine THEN PilePoints(x.discard) ELSE 0
           b == IF mine THEN PileOudlers(x.discard) ELSE 0
<1>7. P \in Int /\ O \in Int /\ F \in Int
  <2>1. HandSize \in 0..HandSize
    BY TarotAssumption
  <2> QED
    BY <1>1, <2>1, TurnTypes, SumFacts
<1>8. a \in Int /\ b \in Int
  BY <1>1, PilePointsType, PileOudlersType, ContextFields
<1>9. x.points = P + 8 * F /\ x.oudlers = O + F
  BY DEF Tally
<1> HIDE DEF P, O, F, a, b
<1>10. P + a + 8 * F = half /\ O + b + F = y.oudlers
  <2>1. half = (P + 8 * F) + a /\ y.oudlers = (O + F) + b
    BY <1>2, <1>9 DEF a, b
  <2> HIDE DEF half
  <2> QED
    BY <1>7, <1>8, <2>1
<1>11. 2 * f.points.pointsAttack = y.points
  <2>1. \A n \in Int : n % 2 = 0 => 2 * (n \div 2) = n
    OBVIOUS
  <2> QED
    BY <1>2, <1>4, <2>1
<1> HIDE DEF half
<1>12. Counted(f)
  <2>1. f.points.oudlers = O + b + F
    BY <1>4, <1>10
  <2>2. 2 * f.points.pointsAttack - (P + a + 8 * F)
          \in (IF (P + a + 8 * F) % 2 = 0 THEN {0} ELSE {-1, 1})
    BY <1>2, <1>10, <1>11
  <2> QED
    BY <1>2, <1>3, <1>5, <1>6, <2>1, <2>2 DEF Counted, P, O, F, a, b
<1>13. FoolInv(f)
  BY <1>3, <1>12 DEF FoolInv, BidSteps, InPlay, PlaySteps
<1> QED
  BY <1>13 DEF f

-----------------------------------------------------------------------------
(* The methods of the engine. *)

\* Outside a deal there is nothing to count.
LEMMA IdleFool ==
  ASSUME NEW e, e.seq \in {"PLAYERS", "READY"}
  PROVE  FoolInv(e)
BY DEF FoolInv, BidSteps, InPlay, PlaySteps

\* During the bids the count stays blank, and the play starts from it.
LEMMA BlankFool ==
  ASSUME NEW f \in Engines, Blank(f.ctx),
         f.seq \in BidSteps \/ (f.seq = "START_DEAL" /\ f.trickCounter = 0)
  PROVE  FoolInv(f)
<1>1. Tally(f.ctx, 0)
  BY EngineFields, BlankTally
<1> QED
  BY <1>1 DEF FoolInv, BidSteps, InPlay, PlaySteps

\* A step of the play that adds no trick.
LEMMA KeepsFool ==
  ASSUME NEW e, NEW f, FoolInv(e), e.seq \in InPlay, f.seq \in InPlay,
         f.trickCounter = e.trickCounter, SameCount(e.ctx, f.ctx)
  PROVE  FoolInv(f)
<1>1. Tally(f.ctx, f.trickCounter)
  BY SameTally DEF FoolInv
<1> QED
  BY <1>1 DEF FoolInv, BidSteps, InPlay, PlaySteps

\* Engine::NewDeal clears the count.
LEMMA NewDealBlank ==
  ASSUME NEW e \in Engines, NEW d \in Distributions
  PROVE  Blank(EngineNewDeal(e, d).ctx)
<1> DEFINE c     == CtxInitialize(e.ctx)
           dctx  == [c EXCEPT !.dog = d.dog]
<1>1. c \in Contexts
  BY CtxInitializeType, EngineFields
<1>2. c.points = 0 /\ c.oudlers = 0 /\ c.tricksWon = 0
  BY EngineFields DEF CtxInitialize, Contexts
<1> HIDE DEF c
<1>3. Blank(dctx)
  BY <1>1, <1>2 DEF Contexts, Blank
<1>4. EngineNewDeal(e, d).ctx = dctx
  BY <1>1 DEF EngineNewDeal, CreateDeal, Engines, Contexts, c
<1> QED
  BY <1>3, <1>4

\* Engine::SetBid leaves the count.
LEMMA SetBidBlank ==
  ASSUME NEW e \in Engines, Blank(e.ctx), NEW c, NEW slam, NEW p
  PROVE  Blank(EngineSetBid(e, c, slam, p).ctx)
<1> DEFINE new == CtxSetBid(e.ctx, c, slam, p)
<1>1. Blank(new)
  BY EngineFields DEF CtxSetBid, Contexts, Blank
<1> HIDE DEF new
<1>2. EngineSetBid(e, c, slam, p).ctx = new
  BY DEF EngineSetBid, new, Engines
<1> QED
  BY <1>1, <1>2

\* TarotContext::ManageDogAfterBid leaves the count.
LEMMA ManageAfterBidBlank ==
  ASSUME NEW e \in Engines, Blank(e.ctx)
  PROVE  Blank(ManageAfterBidSequence(e).ctx)
<1> DEFINE new == ManageDogAfterBid(e.ctx)
<1>1. Blank(new)
  BY EngineFields DEF ManageDogAfterBid, Contexts, Blank
<1> HIDE DEF new
<1>2. ManageAfterBidSequence(e).ctx = new
  BY DEF ManageAfterBidSequence, new, Engines
<1> QED
  BY <1>1, <1>2

\* Engine::BidSequence leaves the count.
LEMMA BidSequenceBlank ==
  ASSUME NEW e \in Engines, Blank(e.ctx), NbPlayers # 5
  PROVE  Blank(BidSequence(e).ctx)
<1> DEFINE f == BidSequence(e)
           g == IF IsEndOfTrick(e) THEN CountTrick(e) ELSE e
<1>1. CASE ~(IsEndOfTrick(e) \/ e.ctx.bid.slam)
  BY <1>1 DEF BidSequence, Engines
<1>2. CASE IsEndOfTrick(e) \/ e.ctx.bid.slam
  <2>1. g \in Engines /\ g.ctx = e.ctx
    BY CountTrickCorrect
  <2>2. f = IF g.ctx.bid.contract = PASS THEN [g EXCEPT !.seq = "ALL_PASSED"]
            ELSE ManageAfterBidSequence(g)
    BY <1>2 DEF BidSequence
  <2> HIDE DEF g, f
  <2>3. [g EXCEPT !.seq = "ALL_PASSED"].ctx = g.ctx
    BY <2>1 DEF Engines
  <2>4. Blank(f.ctx)
    BY <2>1, <2>2, <2>3, ManageAfterBidBlank
  <2> QED
    BY <2>4 DEF f
<1> QED
  BY <1>1, <1>2

\* Engine::StartDeal leaves the count, and the tricks start from zero.
LEMMA StartDealBlank ==
  ASSUME NEW e \in Engines, Blank(e.ctx)
  PROVE  /\ Blank(EngineStartDeal(e).ctx)
         /\ EngineStartDeal(e).trickCounter = 0
         /\ EngineStartDeal(e).seq = e.seq
<1> DEFINE first == IF e.ctx.bid.slam THEN e.ctx.bid.taker ELSE NextPlace(e.dealer)
           new   == [e.ctx EXCEPT !.firstPlayer = first]
           f     == EngineStartDeal(e)
<1> HIDE DEF first
<1>1. Blank(new)
  BY EngineFields DEF Contexts, Blank
<1>2. f = [e EXCEPT !.trickCounter = 0, !.position = 0, !.handleAsked = {},
                    !.currentPlayer = first, !.ctx = new]
  BY DEF EngineStartDeal, first, Engines, Contexts
<1> HIDE DEF new
<1>3. f.seq = e.seq /\ f.trickCounter = 0 /\ f.ctx = new
  BY <1>2 DEF Engines
<1> QED
  BY <1>1, <1>3

\* Engine::SetDiscard leaves the count.
LEMMA SetDiscardBlank ==
  ASSUME NEW e \in Engines, Blank(e.ctx), NEW discard
  PROVE  Blank(SetDiscard(e, discard).ctx)
<1> DEFINE new == [e.ctx EXCEPT !.discard = discard, !.discardOwner = "ATTACK"]
<1>1. Blank(new)
  BY EngineFields DEF Contexts, Blank
<1>2. SetDiscard(e, discard).ctx = new
  BY EngineFields DEF SetDiscard, Engines, Contexts
<1> QED
  BY <1>1, <1>2

\* Engine::SetHandle leaves the count.
LEMMA SetHandleFool ==
  ASSUME NEW e \in Engines, FoolInv(e), e.seq = "HANDLE", NEW handle, NEW p
  PROVE  FoolInv(EngineSetHandle(e, handle, p))
<1> DEFINE f   == EngineSetHandle(e, handle, p)
           new == CtxSetHandle(e.ctx, handle, p)
<1>1. SameCount(e.ctx, new)
  BY EngineFields DEF CtxSetHandle, Contexts, SameCount
<1> HIDE DEF new
<1>2. f.seq = "SHOW_HANDLE" /\ f.ctx = new /\ f.trickCounter = e.trickCounter
  BY DEF EngineSetHandle, new, Engines
<1> HIDE DEF f
<1>3. e.seq \in InPlay /\ f.seq \in InPlay
  BY <1>2 DEF InPlay, PlaySteps
<1>4. FoolInv(f)
  BY <1>1, <1>2, <1>3, KeepsFool
<1> QED
  BY <1>4 DEF f

\* The other steps of the play leave the context.
LEMMA SameContextFool ==
  ASSUME NEW e, NEW f, FoolInv(e), e.seq \in InPlay, f.seq \in InPlay,
         f.trickCounter = e.trickCounter, f.ctx = e.ctx
  PROVE  FoolInv(f)
BY KeepsFool DEF SameCount

\* The end of a trick adds it to the count.
LEMMA FinishTrickFool ==
  ASSUME NEW e \in Engines, EngineInv(e), FoolInv(e), e.seq = "SHOW_CARD", IsEndOfTrick(e),
         NbPlayers # 5
  PROVE  LET f == FinishTrick(e)
         IN  FoolInv(f) /\ f.seq = "END_OF_TRICK" /\ Tally(f.ctx, f.trickCounter)
             /\ (IsLastTrick(f) => f.trickCounter = HandSize)
<1> DEFINE f   == FinishTrick(e)
           g   == CountTrick(e)
           k   == e.trickCounter
           new == SetTrick(g.ctx, g.trick, g.trickCounter)
<1>1. HasTaker(e) /\ InTrick(e) /\ CardsApart(e) /\ Tally(e.ctx, k)
  BY DEF EngineInv, TakerInv, PlayInv, CardsInv, PlaySteps, BidSteps, DealSteps, FoolInv, InPlay
<1>2. g \in Engines /\ g.ctx = e.ctx /\ g.trick = e.trick /\ g.trickCounter = k + 1
  BY <1>1, CountTrickCorrect DEF InTrick
<1>3. f \in Engines /\ f.seq = "END_OF_TRICK" /\ f.trickCounter = k + 1
  BY <1>1, FinishTrickCorrect
<1>4. /\ k \in Turns /\ Len(e.trick) = NbPlayers /\ TrickOpener(e.ctx, k) \in Places
      /\ e.ctx \in Contexts /\ e.trick \in Seq(Cards)
      /\ e.ctx.bid.taker \in Places /\ e.ctx.bid.partner = NOWHERE
  BY <1>1, EngineFields, TarotAssumption, EngineAssumption
     DEF IsEndOfTrick, InTrick, HasTaker, Turns
<1>5. f.ctx = SetTrick(e.ctx, e.trick, k + 1)
  <2>1. f.ctx = new
    BY <1>2 DEF FinishTrick, Engines
  <2> HIDE DEF g, f
  <2> QED
    BY <1>2, <2>1
<1> HIDE DEF f
<1>6. f.ctx \in Contexts
  BY <1>3, EngineFields
<1>7. Tally(f.ctx, k + 1)
  BY <1>1, <1>4, <1>5, <1>6, SetTrickTally
<1>8. IsLastTrick(f) => f.trickCounter = HandSize
  BY <1>3, <1>4, TarotAssumption DEF IsLastTrick, IsDealFinished, Turns
<1>9. FoolInv(f)
  BY <1>3, <1>7 DEF FoolInv, BidSteps
<1> QED
  BY <1>3, <1>7, <1>8, <1>9 DEF f

-----------------------------------------------------------------------------
(* The table: every request keeps the count. *)

\* What each step of a table of three or four starts from and leads to.
Counting == Inv /\ FoolInv(engine) /\ Inv' /\ NbPlayers # 5

\* The engine is correct before and after the step.
LEMMA CountingFacts ==
  ASSUME Counting
  PROVE  /\ Inv /\ FoolInv(engine) /\ NbPlayers # 5
         /\ engine \in Engines /\ EngineInv(engine)
         /\ engine' \in Engines /\ EngineInv(engine')
         /\ engine.seq \in BidSteps => Blank(engine.ctx)
BY DEF Counting, Inv, TypeOK, TableInv, FoolInv

\* PlayingTable::NewDeal.
LEMMA NewDealStepFool ==
  ASSUME Counting, NEW sc, NewDeal(sc)
  PROVE  FoolInv(engine')
<1>1. PICK d \in Deals : engine' = EngineNewDeal(engine, d)
  BY DEF NewDeal
<1>2. d \in Distributions
  BY TableAssumption
<1>3. engine'.seq \in BidSteps /\ Blank(engine'.ctx)
  BY <1>1, <1>2, CountingFacts, NewDealFields, NewDealBlank DEF BidSteps
<1> QED
  BY <1>3, CountingFacts, BlankFool

\* PlayingTable::SendNextBidSequence, after the bids.
LEMMA NextBidFool ==
  ASSUME Counting, engine.seq \in {"CARDS", "SHOW_BID"}, NextBidSequence(BidSequence(engine))
  PROVE  FoolInv(engine')
<1> DEFINE e == BidSequence(engine)
<1>1. /\ e \in Engines
      /\ e.seq \in {"BID", "ALL_PASSED"} \cup
           IF NbPlayers = 5 THEN {"KING_CALL"} ELSE {"SHOW_DOG", "START_DEAL"}
  BY CountingFacts, BidSequenceCorrect
<1>2. Blank(e.ctx)
  BY CountingFacts, BidSequenceBlank DEF BidSteps
<1>3. engine' = AfterBids(e)
  BY DEF NextBidSequence
<1> HIDE DEF e
<1>4. CASE e.seq = "START_DEAL"
  <2>1. engine' = EngineStartDeal(e)
    BY <1>3, <1>4 DEF AfterBids
  <2>2. /\ Blank(engine'.ctx) /\ engine'.trickCounter = 0 /\ engine'.seq = "START_DEAL"
    BY <1>1, <1>2, <1>4, <2>1, StartDealBlank
  <2> QED
    BY <2>2, CountingFacts, BlankFool
<1>5. CASE e.seq # "START_DEAL"
  <2>1. engine' = e /\ e.seq \in BidSteps
    BY <1>1, <1>3, <1>5 DEF AfterBids, BidSteps
  <2> QED
    BY <1>2, <2>1, CountingFacts, BlankFool
<1> QED
  BY <1>4, <1>5

\* PlayingTable::GameSequence.
LEMMA GameStepFool ==
  ASSUME Counting, GameSequence,
         engine.seq \in {"START_DEAL", "HANDLE", "SHOW_HANDLE", "SHOW_CARD", "END_OF_TRICK"}
  PROVE  FoolInv(engine')
<1> DEFINE e == EngineGameSequence(engine)
<1>1. engine' = IF IsLastTrick(e) THEN EngineEndOfDeal(e) ELSE e
  BY DEF GameSequence
<1>2. e \in Engines
  BY CountingFacts, GameSequenceCorrect
<1>3. engine.seq \in InPlay
  BY DEF InPlay, PlaySteps
<1>4. CASE IsEndOfTrick(engine)
  <2>1. e = FinishTrick(engine)
    BY <1>4 DEF EngineGameSequence
  <2>2. engine.seq = "SHOW_CARD"
    <3>1. /\ engine.position \in 0..NbPlayers /\ NbPlayers \in 3..5
          /\ engine.seq \in {"START_DEAL", "END_OF_TRICK"} => engine.position = 0
          /\ engine.seq \in {"HANDLE", "SHOW_HANDLE"} => engine.position < NbPlayers
      BY CountingFacts, EngineFields, TarotAssumption DEF EngineInv, PlayInv
    <3> QED
      BY <1>4, <3>1 DEF IsEndOfTrick
  <2>3. /\ FoolInv(e) /\ Tally(e.ctx, e.trickCounter)
        /\ IsLastTrick(e) => e.trickCounter = HandSize
    BY <1>4, <2>1, <2>2, CountingFacts, FinishTrickFool
  <2> HIDE DEF e
  <2> QED
    BY <1>1, <1>2, <2>3, EndOfDealCounted
<1>5. CASE ~IsEndOfTrick(engine)
  <2>1. HasTaker(engine) /\ InTrick(engine) /\ CardsApart(engine)
    BY CountingFacts DEF EngineInv, TakerInv, PlayInv, CardsInv, PlaySteps, BidSteps, DealSteps
  <2>2. ~IsLastTrick(e)
    BY <1>5, <2>1, CountingFacts, AskPlayerCorrect
  <2>3. /\ e.ctx = engine.ctx /\ e.trickCounter = engine.trickCounter
        /\ e.seq \in {"HANDLE", "PLAYED_CARD"}
    BY <1>5, CountingFacts DEF EngineGameSequence, Engines
  <2> HIDE DEF e
  <2>4. e.seq \in InPlay
    BY <2>3 DEF InPlay, PlaySteps
  <2> QED
    BY <1>1, <1>3, <2>2, <2>3, <2>4, CountingFacts, SameContextFool
<1> QED
  BY <1>4, <1>5

\* Every seat has acknowledged the current step.
LEMMA AllSyncedFool ==
  ASSUME Counting, AllSynced(engine.seq)
  PROVE  FoolInv(engine')
<1>1. CASE engine.seq = "PLAYERS"
  <2>1. engine' = engine \/ engine' = EngineNewGame(engine)
    BY <1>1 DEF AllSynced, NewGame
  <2>2. EngineNewGame(engine).seq = "READY"
    BY CountingFacts, NewGameCorrect
  <2> QED
    BY <1>1, <2>1, <2>2, IdleFool
<1>2. CASE engine.seq \in {"READY", "ALL_PASSED"}
  <2>1. NewDeal(score)
    BY <1>2 DEF AllSynced
  <2> QED
    BY <2>1, NewDealStepFool
<1>3. CASE engine.seq \in {"CARDS", "SHOW_BID"}
  <2>1. NextBidSequence(BidSequence(engine))
    BY <1>3 DEF AllSynced
  <2> QED
    BY <1>3, <2>1, NextBidFool
<1>4. engine.seq # "SHOW_KING_CALL"
  BY CountingFacts DEF EngineInv, BidsInv
<1>5. CASE engine.seq = "SHOW_DOG"
  <2>1. engine' = DiscardSequence(engine)
    BY <1>5 DEF AllSynced
  <2>2. engine'.seq \in BidSteps /\ engine'.ctx = engine.ctx
    BY <2>1, CountingFacts DEF DiscardSequence, Engines, BidSteps
  <2>3. Blank(engine'.ctx)
    BY <1>5, <2>2, CountingFacts DEF BidSteps
  <2> QED
    BY <2>2, <2>3, CountingFacts, BlankFool
<1>6. CASE engine.seq \in {"START_DEAL", "SHOW_HANDLE", "SHOW_CARD", "END_OF_TRICK"}
  <2>1. GameSequence
    BY <1>6 DEF AllSynced
  <2> QED
    BY <1>6, <2>1, GameStepFool
<1>7. CASE engine.seq = "END_OF_DEAL"
  <2>1. EndOfDeal
    BY <1>7 DEF AllSynced
  <2>2. NewDeal(AddPoints(score, engine.points, engine.ctx.bid))
          \/ engine' = EngineNewGame(engine)
    BY <2>1 DEF EndOfDeal
  <2>3. EngineNewGame(engine).seq = "READY"
    BY CountingFacts, NewGameCorrect
  <2> QED
    BY <2>2, <2>3, NewDealStepFool, IdleFool
<1> QED
  BY <1>1, <1>2, <1>3, <1>4, <1>5, <1>6, <1>7 DEF AllSynced

\* "Ack" runs the step that the engine is in, or leaves the engine.
LEMMA AckFool ==
  ASSUME Counting, NEW u \in Users, SomeAck(u)
  PROVE  FoolInv(engine')
<1>1. PICK step \in AckSteps : Ack(u, step)
  BY DEF SomeAck
<1>2. CASE \A q \in Places : Sync(u, step)[q]
  <2>1. AllSynced(step)
    BY <1>1, <1>2 DEF Ack
  <2>2. engine.seq = step
    BY <1>1, <1>2, CountingFacts, AckNamesStep
  <2> QED
    BY <2>1, <2>2, AllSyncedFool
<1>3. CASE ~ \A q \in Places : Sync(u, step)[q]
  <2>1. engine' = engine
    BY <1>1, <1>3 DEF Ack
  <2> QED
    BY <2>1, CountingFacts
<1> QED
  BY <1>2, <1>3

\* The answers of the player whose turn it is.
LEMMA AnswerFool ==
  ASSUME Counting, NEW u \in Users,
         SomeBid(u) \/ SomeDiscard(u) \/ SomeKingCall(u) \/ SomeHandle(u) \/ SomeCard(u)
  PROVE  FoolInv(engine')
<1>1. CASE SomeBid(u)
  <2>1. PICK b \in BidChoices : ReplyBid(u, b.contract, b.slam)
    BY <1>1 DEF SomeBid
  <2>2. /\ engine.seq = "BID"
        /\ engine' = EngineSetBid(engine, b.contract, b.slam, engine.currentPlayer)
    BY <2>1 DEF ReplyBid, Answers
  <2>3. engine'.seq = "SHOW_BID"
    BY <2>2, CountingFacts DEF EngineSetBid, Engines
  <2>4. Blank(engine'.ctx)
    BY <2>2, CountingFacts, SetBidBlank DEF BidSteps
  <2> QED
    BY <2>3, <2>4, CountingFacts, BlankFool DEF BidSteps
<1>2. CASE SomeDiscard(u)
  <2>1. PICK d \in Discards : Discard(u, d)
    BY <1>2 DEF SomeDiscard
  <2>2. d \in Seq(Cards)
    BY TableAssumption
  <2> DEFINE e == SetDiscard(engine, d)
  <2>3. /\ engine.seq = "DISCARD" /\ engine' = EngineStartDeal(e)
        /\ TestDiscard(engine.hands[engine.ctx.bid.taker], d, engine.ctx.dog)
    BY <2>1 DEF Discard, Answers
  <2>4. e \in Engines /\ e.seq = "START_DEAL"
    BY <2>2, <2>3, CountingFacts, SetDiscardCorrect
  <2>5. Blank(e.ctx)
    BY <2>3, CountingFacts, SetDiscardBlank DEF BidSteps
  <2> HIDE DEF e
  <2>6. Blank(engine'.ctx) /\ engine'.trickCounter = 0 /\ engine'.seq = "START_DEAL"
    BY <2>3, <2>4, <2>5, StartDealBlank
  <2> QED
    BY <2>6, CountingFacts, BlankFool
<1>3. ~SomeKingCall(u)
  <2>1. engine.seq # "KING_CALL"
    BY CountingFacts DEF EngineInv, BidsInv
  <2> QED
    BY <2>1 DEF SomeKingCall, ReplyKingCall, Answers
<1>4. CASE SomeHandle(u)
  <2>1. CASE NoHandle(u)
    BY <2>1, GameStepFool DEF NoHandle, Answers
  <2>2. CASE \E h \in Handles : ShowHandle(u, h)
    <3>1. PICK h \in Handles : ShowHandle(u, h)
      BY <2>2
    <3>2. /\ engine.seq = "HANDLE"
          /\ engine' = EngineSetHandle(engine, h, engine.currentPlayer)
      BY <3>1 DEF ShowHandle, Answers
    <3> QED
      BY <3>2, CountingFacts, SetHandleFool
  <2> QED
    BY <1>4, <2>1, <2>2 DEF SomeHandle
<1>5. CASE SomeCard(u)
  <2>1. PICK c \in Cards : PlayCard(u, c)
    BY <1>5 DEF SomeCard
  <2>2. engine.seq = "PLAYED_CARD" /\ engine' = SetCard(engine, c, engine.currentPlayer)
    BY <2>1 DEF PlayCard, Answers
  <2>3. /\ engine'.seq = "SHOW_CARD" /\ engine'.ctx = engine.ctx
        /\ engine'.trickCounter = engine.trickCounter
    BY <2>2, CountingFacts DEF SetCard, Engines
  <2>4. engine.seq \in InPlay /\ engine'.seq \in InPlay
    BY <2>2, <2>3 DEF InPlay, PlaySteps
  <2> QED
    BY <2>3, <2>4, CountingFacts, SameContextFool
<1> QED
  BY <1>1, <1>2, <1>3, <1>4, <1>5

\* Every request keeps the count.
LEMMA NextFool ==
  NbPlayers # 5 => (Inv /\ FoolInv(engine) /\ [Next]_vars => FoolInv(engine)')
<1> SUFFICES ASSUME NbPlayers # 5, Inv, FoolInv(engine), [Next]_vars PROVE FoolInv(engine')
  BY DEF FoolInv, Blank, Tally, Counted, PointsWon, OudlersWon, FoolMoves, FoolMove,
         FoolKeptByAttack, FoolPlayer, SumTo
<1>1. Counting
  BY NextInv DEF Counting
<1>2. CASE engine' = engine
  BY <1>2
<1>3. ASSUME NEW u \in Users, SomeAck(u) PROVE FoolInv(engine')
  BY <1>1, <1>3, AckFool
<1>4. ASSUME NEW u \in Users, SomeNewGame(u) PROVE FoolInv(engine')
  <2>1. engine'.seq = "READY"
    BY <1>4, RequestNewGameStep
  <2> QED
    BY <2>1, IdleFool
<1>5. ASSUME NEW u \in Users,
             SomeBid(u) \/ SomeDiscard(u) \/ SomeKingCall(u) \/ SomeHandle(u) \/ SomeCard(u)
      PROVE  FoolInv(engine')
  BY <1>1, <1>5, AnswerFool
<1>6. ASSUME NEW u \in Users, AddPlayer(u) \/ RemovePlayer(u) PROVE engine' = engine
  BY <1>6 DEF AddPlayer, RemovePlayer
<1> QED
  BY <1>2, <1>3, <1>4, <1>5, <1>6 DEF Next, vars

\* With three or four players the attack is credited with exactly the cards of
\* its tricks and of its discard, the fool in the camp that the comments of
\* TarotContext::SetTrick give it to, whatever the deck, the deal and the order
\* of the requests.  (With five players it is not: the partner's fool is
\* treated as a defender's.)
THEOREM FoolCorrect == ASSUME NbPlayers # 5 PROVE Spec => []FoolAccounting
<1>1. Init => FoolInv(engine)
  <2> SUFFICES ASSUME Init PROVE FoolInv(engine)
    OBVIOUS
  <2>1. engine.seq = "PLAYERS"
    BY CreateTableCorrect DEF Init
  <2> QED
    BY <2>1, IdleFool
<1>2. Inv /\ FoolInv(engine) /\ [Next]_vars => FoolInv(engine)'
  BY NextFool
<1>3. FoolInv(engine) => FoolAccounting
  BY DEF FoolInv, Counted, FoolAccounting, ctx
<1> QED
  BY <1>1, <1>2, <1>3, InvCorrect, PTL DEF Spec
=============================================================================
