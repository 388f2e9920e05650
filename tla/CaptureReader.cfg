\* Three connections for two places in the map, and numbers and counters of
\* two bits, so that gaps of different streams wrap the counter; or a fixture
\* of up to three events, cut anywhere.
CONSTANTS
  Connection = {c1, c2, c3}
  Width = 4
  maximum_sequence_streams = 2
  MaxLines = 5
  One = c1
  MaxEvents = 3
SPECIFICATION FixtureSpec
INVARIANTS
  TypeOK
  GapsCountTheSkipped
  CleanMeansComplete
  FixtureIsRead
