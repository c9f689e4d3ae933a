SPECIFICATION SeatedSpec
CONSTANTS
  NbPlayers = 5
  HandSize = 2
  Cards <- MCCards
  SimpleSize = 1
  DoubleSize = 2
  TripleSize = 3
  CounterMod = 3
  u0 = u0
  u1 = u1
  u2 = u2
  u3 = u3
  u4 = u4
  Users <- MCUsers
  INVALID_UID = INVALID_UID
  AdminMode = FALSE
  Deals <- MCOneDeal
  LateSteps = {}
  BidChoices <- MCBids
  KingCalls <- MCKingCalls
  Discards <- MCDiscards
  Handles = {}
  MaxDeals = 1
  MaxDealt = 1
  MaxLeaves = 0
INVARIANTS
  FoolAccounting
