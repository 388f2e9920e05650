\* The histogram: values of three bits, three of them above the highest power
\* of two, and enough samples for the percentiles to fall on different ranks.
\* The calendar: a whole era of 400 years and the leap years around it.
\* Decimals: ten bits and one place; numbers before the point go past the range
\* of the unsigned type, and their products wrap up to ten times.
\* Command lines: two commands, up to three options with their values.
CONSTANTS
  Bits = 3
  MaxSamples = 6
  FirstYear = 1970
  LastYear = 2404
  Hours = 2
  Minutes = 2
  Seconds = 2
  TimePlaces = 2
  TimeLimit = 67108863
  TimeDigit = {6}
  Width = 10
  Places = 1
  Digit = {0, 1, 2, 5, 9}
  MaxWhole = 1030
  Command = {"replay", "benchmark"}
  Option = {"input", "output", "engine", "runs", "other"}
  Argument = {"", "7", "standard"}
  MaxTokens = 6
SPECIFICATION Spec
INVARIANTS
  NearestRankCovers
  QuantileIsPowerAbove
  FormulaCountsDays
  TimestampIsExact
  ParseIsExact
  RoundTrip
  OptionsInAnyOrder
