\* Buffers of up to five blocks, every allocation may fail.
CONSTANTS
  HdrSize = 2
  TailSize = 1
  MAX_UINT32 = 15
  MaxBufferSize = 15
  Blocks <- MCBlocks
  Names = {"knobA", "knobB"}
  ReallocMayFail = TRUE
SPECIFICATION Spec
INVARIANT SlotInBounds
INVARIANT ReadsInBounds
INVARIANT SuccessIsComplete
INVARIANT LeakOnlyOnRealloc
INVARIANT CorruptionIsReported
