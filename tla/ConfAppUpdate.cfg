\* Updates: every kind of payload, writes that fail, power loss between any two writes.
CONSTANTS
  a = a
  b = b
  old = old
  new = new
  newer = newer
  Vars <- MCVars
  Values <- MCValues
  Missing = Missing
  Garbage = Garbage
  MAX_UINT32 = 2
  Packets <- MCAllPackets
  WritesMayFail = TRUE
  Keys = {"1", "2", "3", "h", "ESC", "CR"}
  ConsoleMayFail = FALSE
  MaxFmps = 0
  MAX_BOOT_OPTION_INPUT_DIGITS = 1
  MaxBootOptions = 0
  EFI_PAGE_SIZE = 2
  MaxInput = 1
SPECIFICATION FairSpec
INVARIANT AppliedInFull
INVARIANT TornUpdateIsBounded
PROPERTY ImplementsConfigUpdate
PROPERTY UpdateEnds
