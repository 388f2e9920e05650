CONSTANTS
  Harness = {first, second}
  None = None
  Warmups = 0
  Runs = 1
  Events = 1
SPECIFICATION Spec
INVARIANT PublishedReportsAreMeasured
