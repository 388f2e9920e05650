\* Two frames of up to two chunks each, two failures in a row to give up: a
\* frame can reset the failure count half way, and the frames can come on
\* different connections, of which the reader follows one.  The reader's
\* limit is above a message of one chunk, escaped, and below one of two or
\* torn bytes with a record behind them.
CONSTANTS
  Signal = {SIGINT, SIGTERM}
  None = None
  maximum_consecutive_failures = 2
  maximum_message_size = 2
  MaxFrames = 2
  maximum_sequence_streams = 1
  maximum_record_size = 7
SPECIFICATION RecordingSpec
INVARIANTS
  TypeOK
  WholeMessages
  ReconnectsAreCounted
  StatusTellsOutcome
  RecordedIsPublished
  CaptureIsReplayed
PROPERTIES
  SignalEndsCapture
  
