SPECIFICATION Spec
CONSTANTS
  Agents <- MCAgents
  Texts <- MCTexts
  NoText = "none"
  Handles <- MCHandles
  NoHandle = ""
  IdByName <- MCIdByName
  TopLimit = 1
  ViralThreshold = 2
  FeedLimit = 2
  ReplyLimit = 1
  Markets = {"m1"}
  Liquidity = 6
  SeedPercent <- MCSeeds
  InitialBalance = 6
  MovePercent = 10
  LaborForce = 2
  MetricPercent = 5
  Stance <- MCStance
  ExposureCap = 2
  Mentions <- MCMentions
  Class <- MCClass
  AgentOrder <- MCOrder
  EnvironmentLists <- MCEnvironments
  Rounds = 3
  Concurrencies = {1, 2}
  Scheduled <- MCScheduled
  MaxMemory = 2
  MaxAttempts = 2
  MaxCalls = 2
  Budget <- MCBudget
  ReplyTexts = {"against"}
  TradeAmounts <- MCTradeAmounts
  Quantities <- MCQuantities
INVARIANT ScheduledHeardOnce
INVARIANT GraphAgrees
INVARIANT TablesAgree
INVARIANT ViralOnce
INVARIANT WorthConserved
INVARIANT TradesExplainPortfolios
INVARIANT StoryIsConsistent
PROPERTY PeersPull
\* The run ends.
CHECK_DEADLOCK FALSE
