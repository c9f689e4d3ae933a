SPECIFICATION SeatedSpec
CONSTANTS
  NbPlayers = 3
  HandSize = 2
  Cards <- MCCards
  SimpleSize = 1
  DoubleSize = 2
  TripleSize = 3
  CounterMod = 3
  u0 = u0
  u1 = u1
  u2 = u2
  u3 = u3
  Users <- MCPlayers
  INVALID_UID = INVALID_UID
  AdminMode = FALSE
  Deals <- MCDeals
  LateSteps = {}
  BidChoices <- MCBids
  KingCalls = {}
  Discards <- MCDiscards
  Handles <- MCHandles
  MaxDeals = 1
  MaxDealt = 1
  MaxLeaves = 0
INVARIANTS
  ZeroSum
  CardsConserved
  TurnOrder
  SomeCardPlayable
  HandleAskedFirst
  TakerKnown
  FoolAccounting
