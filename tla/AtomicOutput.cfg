\* Two processes given the same output, and one run after a power loss.
CONSTANTS
  Process = {first, second, third}
  None = None
  MaxWrites = 2
SPECIFICATION Spec
INVARIANTS
  TypeOK
  AcknowledgedIsPublished
  SuccessIsDurable
  UnlinksItsOwnPart
  NothingThrownAway
PROPERTY
  NeverReplaced
