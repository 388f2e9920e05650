CONSTANTS
  Signal = {SIGINT}
  None = None
  maximum_consecutive_failures = 2
  maximum_message_size = 2
  MaxFrames = 1
SPECIFICATION Spec
INVARIANT EveryLineComplete
