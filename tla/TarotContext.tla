---------------------------- MODULE TarotContext ----------------------------
(***************************************************************************)
(* TarotContext.cpp: what is known of one deal.  A context is a record,    *)
(* and each method an operator from a context to the context it leaves.    *)
(*                                                                         *)
(* As in the code the arrays winner and owner keep the values of the       *)
(* previous deal until the tricks of this deal overwrite them.  The called *)
(* king is not kept: nothing reads mKingCalled.                            *)
(***************************************************************************)
EXTENDS Deck

Turns == 0..(HandSize - 1)

NoBid == [taker |-> NOWHERE, partner |-> NOWHERE, contract |-> NO_ANY, slam |-> FALSE]

Bids == [taker : PlaceOrNowhere, partner : PlaceOrNowhere,
         contract : Contracts, slam : BOOLEAN]

Contexts ==
  [ bid           : Bids,
    dog           : Seq(Cards),
    discard       : Seq(Cards),
    discardOwner  : Teams,
    attackHandle  : Nat,                       \* cards shown by the attack
    defenseHandle : Nat,
    firstPlayer   : PlaceOrNowhere,
    tricks        : [Turns -> Seq(Cards)],     \* mTricks
    owner         : [Turns -> Teams],          \* mTricks[i].GetOwner()
    winner        : [Turns -> PlaceOrNowhere], \* mWinner
    tricksWon     : Nat,                       \* by the attack
    points        : Int,                       \* mStatsAttack.points, in half points
    oudlers       : Int ]                      \* mStatsAttack.oudlers

\* What the constructors leave.
NewContext ==
  [ bid |-> NoBid, dog |-> << >>, discard |-> << >>, discardOwner |-> "NO_TEAM",
    attackHandle |-> 0, defenseHandle |-> 0, firstPlayer |-> NOWHERE,
    tricks |-> [t \in Turns |-> << >>], owner |-> [t \in Turns |-> "NO_TEAM"],
    winner |-> [t \in Turns |-> NOWHERE], tricksWon |-> 0, points |-> 0, oudlers |-> 0 ]

\* TarotContext::Initialize.
CtxInitialize(ctx) ==
  [ctx EXCEPT !.bid = NoBid, !.discard = << >>, !.attackHandle = 0, !.defenseHandle = 0,
              !.tricks = [t \in Turns |-> << >>], !.tricksWon = 0,
              !.points = 0, !.oudlers = 0]

\* The attack: the taker and, with five players, his partner.
IsAttack(bid, p) == p = bid.taker \/ p = bid.partner

\* TarotContext::SetBid: only a bid above the highest one counts.
CtxSetBid(ctx, c, slam, p) ==
  IF c > ctx.bid.contract
  THEN [ctx EXCEPT !.bid.contract = c, !.bid.taker = p, !.bid.slam = slam]
  ELSE ctx

\* The contract that TarotContext::SetBid announces to the table.
AnnouncedContract(ctx, c) == IF c > ctx.bid.contract THEN c ELSE PASS

\* TarotContext::SetHandle.
CtxSetHandle(ctx, handle, p) ==
  IF IsAttack(ctx.bid, p)
  THEN [ctx EXCEPT !.attackHandle = Len(handle)]
  ELSE [ctx EXCEPT !.defenseHandle = Len(handle)]

\* TarotContext::ManageDogAfterBid: is the dog shown, and the context left.
ShowsDog(ctx) == ctx.bid.contract \notin {GUARD_WITHOUT, GUARD_AGAINST}

ManageDogAfterBid(ctx) ==
  IF ShowsDog(ctx) THEN ctx
  ELSE [ctx EXCEPT !.discard = ctx.dog,
                   !.discardOwner = IF ctx.bid.contract = GUARD_AGAINST
                                    THEN "DEFENSE" ELSE "ATTACK"]

\* TarotContext::CheckKingCall: a king, or a lower figure for a taker who
\* holds all four cards of each figure above it.
CheckKingCall(hand, c) ==
  \A v \in JACK..KING :
    (\A w \in v..KING : c.value # w) => CountValue(hand, v) = 4

-----------------------------------------------------------------------------
(* The end of a trick, TarotContext::SetTrick. *)

\* TarotContext::GetOwner: who played the i-th card of a trick opened by first.
GetOwner(first, i) == Forward(first, i - 1)

\* The player who opened the trick of this turn.
TrickOpener(ctx, turn) == IF turn = 0 THEN ctx.firstPlayer ELSE ctx.winner[turn - 1]

\* The fool wins the last trick for a taker who has won all the others.
FoolWinsSlam(ctx, trick, turn) ==
  /\ HasFool(trick)
  /\ IsDealFinished(turn + 1)
  /\ ctx.tricksWon = HandSize - 1
  /\ GetOwner(TrickOpener(ctx, turn), FoolIndex(trick)) = ctx.bid.taker

TrickWinner(ctx, trick, turn) ==
  IF FoolWinsSlam(ctx, trick, turn)
  THEN ctx.bid.taker
  ELSE GetOwner(TrickOpener(ctx, turn), LeaderIndex(trick))

\* Faulty variant of FoolSwap: the last trick is not a special case.
FoolSwapAlways(ctx, trick, turn) ==
  LET opener == TrickOpener(ctx, turn)
  IN  /\ HasFool(trick)
      /\ ~FoolWinsSlam(ctx, trick, turn)
      /\ IsAttack(ctx.bid, GetOwner(opener, LeaderIndex(trick)))
           # (GetOwner(opener, FoolIndex(trick)) = ctx.bid.taker)

\* foolSwap: the fool changes camps, against a card of half a point.  It is
\* kept by its owner, except in the last trick where it is lost.
FoolSwap(ctx, trick, turn) ==
  LET opener     == TrickOpener(ctx, turn)
      foolAttack == GetOwner(opener, FoolIndex(trick)) = ctx.bid.taker
      wonAttack  == IsAttack(ctx.bid, GetOwner(opener, LeaderIndex(trick)))
  IN  /\ HasFool(trick)
      /\ ~FoolWinsSlam(ctx, trick, turn)
      /\ IF IsDealFinished(turn + 1) THEN wonAttack = foolAttack
                                     ELSE wonAttack # foolAttack

SetTrick(ctx, trick, trickCounter) ==
  LET turn   == trickCounter - 1
      winner == TrickWinner(ctx, trick, turn)
      attack == IsAttack(ctx.bid, winner)
      swap   == IF FoolSwap(ctx, trick, turn) THEN 1 ELSE 0
  IN  [ctx EXCEPT
         !.tricks[turn]  = trick,
         !.owner[turn]   = IF attack THEN "ATTACK" ELSE "DEFENSE",
         !.winner[turn]  = winner,
         !.tricksWon     = IF attack THEN @ + 1 ELSE @,
         !.points        = IF attack THEN @ + PilePoints(trick) - 8 * swap
                                     ELSE @ + 8 * swap,
         !.oudlers       = IF attack THEN @ + PileOudlers(trick) - swap
                                     ELSE @ + swap]

-----------------------------------------------------------------------------
(* The end of a deal, TarotContext::AnalyzeGame. *)

PointsRecords ==
  [ pointsAttack : Int, oudlers : Int, handlePoints : Int,
    slamDone : BOOLEAN, littleEndianOwner : Teams ]

\* Points::Clear.
NoPoints ==
  [ pointsAttack |-> 0, oudlers |-> 0, handlePoints |-> 0,
    slamDone |-> FALSE, littleEndianOwner |-> "NO_TEAM" ]

\* The attack's count with the discard, if it belongs to the attack.
CountDiscard(ctx) ==
  IF ctx.discardOwner = "ATTACK"
  THEN [ctx EXCEPT !.points  = @ + PilePoints(ctx.discard),
                   !.oudlers = @ + PileOudlers(ctx.discard)]
  ELSE ctx

\* With 3 or 5 players a half point may be left: it goes to the winner.
RoundPoints(ctx) ==
  IF ctx.points % 2 = 0 THEN ctx
  ELSE IF ctx.points >= 2 * PointsToDo(ctx.oudlers)
       THEN [ctx EXCEPT !.points = @ + 1]
       ELSE [ctx EXCEPT !.points = @ - 1]

AnalyzeGame(ctx) == RoundPoints(CountDiscard(ctx))

\* The trick that decides the "petit au bout": the last one, or the one
\* before it when a slam ended with the fool.
LastTrick(ctx, slamDone) ==
  IF slamDone /\ HasFool(ctx.tricks[HandSize - 1]) THEN HandSize - 2 ELSE HandSize - 1

GamePoints(ctx) ==
  LET slamDone == ctx.tricksWon \in {0, HandSize}
      last     == LastTrick(ctx, slamDone)
      counted  == AnalyzeGame(ctx)
  IN  [ pointsAttack      |-> counted.points \div 2,
        oudlers           |-> counted.oudlers,
        handlePoints      |-> GetHandlePoints(GetHandleType(ctx.attackHandle))
                              + GetHandlePoints(GetHandleType(ctx.defenseHandle)),
        slamDone          |-> slamDone,
        littleEndianOwner |-> IF HasOneOfTrump(ctx.tricks[last])
                              THEN ctx.owner[last] ELSE "NO_TEAM" ]
=============================================================================
