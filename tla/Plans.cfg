CONSTANTS
  i1 = i1  i2 = i2  p1 = p1  p2 = p2  o1 = o1  o2 = o2  o3 = o3
  None = None  Any = Any
  Tickers = {"1000PEPE", "BTC"}  Copied = {"1000PEPE"}
  Alias <- MCAlias
  Captions <- MCCaptions
  Raws <- MCRaws
  Candidates <- MCCandidates
  Posts = {p1, p2}  Opens = {o1, o2, o3}
  Symbols = {"1000PEPE"}  Listed = {"1000PEPE"}  Sides = {"LONG", "SHORT"}
  PostOf <- MCPostOf
  ChannelOf <- OneChannel
  Reported <- MCReported
  SideOf <- AllLong
  Relations = {"NEW", "ADD_OR_REENTRY"}
  Recovered = {}
  MaxByHand = 1
  Tick = 2  MinQty = 1  MinNotional = 40
  Policy <- MCPolicy
  LevFilter <- MCLevFilter
  Tiers <- MCTiers
  Intents = {i1, i2}
  Contents <- AllContents
  Batches <- Together
  Quotes = {36, 39, 40, 43, 44, 47, 52}
  Budget = 220
  LongRisk <- MCLongRisk
  Gate = TRUE
  Skips = TRUE
  Cap = 260
  MarketMax = 6  LimitMax = 8  MaxSlices = 7
SPECIFICATION PlanOrSignal
CHECK_DEADLOCK FALSE
INVARIANTS LiveRiskWithinBudget CapHolds PlanIsConsistent ModelGivesNoAuthority TwinsWaitForPerson
 
