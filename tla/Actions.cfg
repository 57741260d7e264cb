CONSTANTS
  i1 = i1  i2 = i2  c1 = c1  r1 = r1  w1 = w1  btc = btc  e1 = e1  e2 = e2
  NoJob = NoJob
  Intents = {i2}
  Actions = {c1, r1, w1}
  Symbols = {btc}
  Legs = {e1, e2}
  Primary = e1
  SymbolOf <- MCSymbolOf
  TtlIntents = {i2}
  MarketIntents <- MCMarket
  KindOf <- MCKindOf
  ActSymbol <- MCActSymbol
  SourceOf <- MCSourceOf
  MaxPolls = 1
  MaxCrashes = 1
SPECIFICATION OneActionSpec
CHECK_DEADLOCK FALSE
INVARIANTS ClosingIsFlat FrozenHasNoRestingEntry
PROPERTIES AmbiguityQuarantines CoordinatorClosesEmpty LockIsReleased
