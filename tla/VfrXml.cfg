SPECIFICATION Spec
CONSTANTS
  None = None
  Unreadable = Unreadable
  Texts = {"1", "2"}
  Blocks <- MCBlocks
  MaxBlocks = 4
  MaxFiles = 2
  Untyped = {0, 1}
INVARIANT FirstPassAgrees
INVARIANT AssignedIsAgreed
CHECK_DEADLOCK FALSE
PROPERTY ConversionEnds
