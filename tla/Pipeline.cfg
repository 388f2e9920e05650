\* A queue of two and up to four trades of two kinds: the queue fills, drains
\* and fills again, and two neighbours can be told apart.
CONSTANTS
  Trade = {trade1, trade2}
  NoTrade = NoTrade
  Capacity = 2
  MaxTrades = 4
  CounterRange = 3
SPECIFICATION FairSpec
INVARIANTS
  TypeOK
  FifoHandoff
  LossIsTheLateTail
  ReportMatchesWork
PROPERTIES
  RefinesOrderedSink
  ReplayReturns
