\* The pages: two-digit boot indices, a failing console, version queries that fail, pasted
\* payloads that are accepted and refused; the serial buffer doubles twice.
CONSTANTS
  a = a
  b = b
  old = old
  new = new
  newer = newer
  Vars <- MCVars
  Values <- MCValues
  Missing = Missing
  Garbage = Garbage
  MAX_UINT32 = 2
  Packets <- MCMenuPackets
  WritesMayFail = FALSE
  Keys = {"0", "1", "2", "3", "h", "y", "Y", "x", "ESC", "CR", "BS", "LF"}
  ConsoleMayFail = TRUE
  MaxFmps = 2
  MAX_BOOT_OPTION_INPUT_DIGITS = 2
  MaxBootOptions = 12
  EFI_PAGE_SIZE = 2
  MaxInput = 3
SPECIFICATION Spec
INVARIANT TypeOK
INVARIANT NoResidue
INVARIANT BootTargetListed
INVARIANT SerialInBounds
INVARIANT PasteIsFresh
INVARIANT NoMenuAfterWrite
