\* Two trades of two kinds in at most two frames, through a queue of one:
\* either engine can be held up, and either can leave the second trade behind.
CONSTANTS
  Trade = {trade1, trade2}
  NoTrade = NoTrade
  Capacity = 1
  MaxTrades = 2
  MaxFrames = 2
  CounterRange = 2
  Undecided = Undecided
SPECIFICATION FairCommandSpec
INVARIANTS
  SuccessMeansSameWork
  DifferenceHasCause
PROPERTY
  CommandReturns
