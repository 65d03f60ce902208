SPECIFICATION Spec
CONSTANTS
  None = None
  Error = Error
  Schemas <- MCSchemas
  UserCsvs <- MCUserCsvs
  UserBins <- MCUserBins
  UserMods <- MCUserMods
  MaxCommands = 3
CHECK_DEADLOCK FALSE
INVARIANT GenBinLayers
INVARIANT CsvReproduces
PROPERTY FailureLeavesNoPart
 
