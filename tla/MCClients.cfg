SPECIFICATION JoinedSpec
CONSTANTS
  NbPlayers = 3
  HandSize = 2
  Cards <- MCCards
  SimpleSize = 1
  DoubleSize = 2
  TripleSize = 3
  CounterMod = 3
  u0 = u0
  u1 = u1
  u2 = u2
  u3 = u3
  Users <- MCPlayers
  INVALID_UID = INVALID_UID
  AdminMode = FALSE
  Deals <- MCBotDeal
  LateSteps = {}
  BidChoices <- MCBotBids
  KingCalls = {}
  Discards <- MCDiscards
  Handles = {}
  ClientDogCards = 1
  ChatTargets <- MCChatTargets
  MaxNews = 1
  MaxDeals = 1
  MaxDealt = 2
  MaxLeaves = 0
INVARIANTS
  BotKnowsTable
  BotIsNeverRefused
  BotFindsCard
  BotKeepsUp
PROPERTIES
  DealFollowsDeal
CHECK_DEADLOCK FALSE
