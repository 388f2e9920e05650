\* Three slots, so that the ring wraps at every offset, and two values.
CONSTANTS
  Trade = {trade1, trade2}
  NoTrade = NoTrade
  Capacity = 3
SPECIFICATION Spec
INVARIANTS
  TypeOK
  SlotsMatchWindow
PROPERTY
  RefinesSpscQueue
