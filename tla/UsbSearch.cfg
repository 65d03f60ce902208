\* Up to four drives, every way each of them can fail.
CONSTANT MaxHandles = 4
SPECIFICATION Spec
INVARIANT ReturnsClean
INVARIANT SuccessHasFile
