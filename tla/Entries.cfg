CONSTANTS
  i1 = i1  i2 = i2  c1 = c1  r1 = r1  w1 = w1  btc = btc  e1 = e1  e2 = e2
  NoJob = NoJob
  Intents = {i1, i2}
  Actions = {}
  Symbols = {btc}
  Legs = {e1, e2}
  Primary = e1
  SymbolOf <- MCSymbolOf
  TtlIntents = {}
  MarketIntents <- NoMarket
  KindOf <- MCKindOf
  ActSymbol <- MCActSymbol
  SourceOf <- MCSourceOf
  MaxPolls = 0
  MaxCrashes = 1
SPECIFICATION TwoOpensSpec
CHECK_DEADLOCK FALSE
INVARIANTS OneExposedOwner
PROPERTIES KeepsCustody
SYMMETRY Interchangeable
