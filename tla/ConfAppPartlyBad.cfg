\* A payload whose second setting is malformed.
CONSTANTS
  a = a
  b = b
  old = old
  new = new
  newer = newer
  Vars <- MCVars
  Values <- MCValues
  Missing = Missing
  Garbage = Garbage
  MAX_UINT32 = 2
  Packets <- PartlyBadPackets
  WritesMayFail = FALSE
  Keys = {"1", "2", "3", "h", "ESC", "CR"}
  ConsoleMayFail = FALSE
  MaxFmps = 0
  MAX_BOOT_OPTION_INPUT_DIGITS = 1
  MaxBootOptions = 0
  EFI_PAGE_SIZE = 2
  MaxInput = 0
SPECIFICATION Spec
INVARIANT NoMenuAfterWrite
