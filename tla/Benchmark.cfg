\* Two harnesses with the same output, one warm-up and one measured pair each,
\* and replays that may lose the only trade.
CONSTANTS
  Harness = {first, second}
  None = None
  Warmups = 1
  Runs = 1
  Events = 1
SPECIFICATION Spec
INVARIANTS
  TypeOK
  SoleBundleIsConsistent
PROPERTY
  NeverReplaced
