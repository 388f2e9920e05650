CONSTANTS
  Trade = {trade1}
  NoTrade = NoTrade
  Capacity = 2
  MaxTrades = 2
  CounterRange = 3
SPECIFICATION Spec
INVARIANT DrainedOnReturn
