SPECIFICATION Spec
CONSTANTS
  NbPlayers = 3
  HandSize = 2
  Cards <- MCCards
  SimpleSize = 1
  DoubleSize = 2
  TripleSize = 3
  CounterMod = 3
  u0 = u0
  u1 = u1
  u2 = u2
  u3 = u3
  Users <- MCPlayers
  INVALID_UID = INVALID_UID
  AdminMode = TRUE
  Deals <- MCGameDeal
  LateSteps = {"CARDS", "SHOW_BID"}
  BidChoices <- MCFewBids
  KingCalls = {}
  Discards <- MCDiscards
  Handles = {}
  MaxDeals = 2
  MaxDealt = 2
  MaxLeaves = 1
SYMMETRY MCSymmetry
INVARIANTS
  TypeOK
  DealInGame
  HandleAskedFirst
  TableInv
PROPERTIES
  ImplementsBarrier
  HandleAskedOnce
