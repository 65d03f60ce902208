\* Three builds, then the firmware of one of them; variables may change between the
\* two reads of the shim, and the policy may be of another build.
SPECIFICATION Spec
CONSTANTS
  None = None
  Error = Error
  Schemas <- MCSchemas
  NameLength <- MCNameLength
  subknobs <- MCSubs
  get_child_value <- MCGetChild
  size_in_bytes <- MCSizeInBytes
  read_csv <- MCReadCsv
  object_to_binary <- MCObjectToBinary
  binary_to_object <- MCBinaryToObject
  check_bounds <- MCCheckBounds
  write_vl <- MCCmdWriteVl
  Settings <- MCSettings
  CsvFiles <- MCCsvFiles
  NoChange = FALSE
  MaxDirs = 2
  MaxBuilds = 3
  Blobs <- MCBlobs
  OtherPolicies <- MCOtherPolicies
CHECK_DEADLOCK FALSE
INVARIANT BuildMatches
INVARIANT PolicyInBounds
INVARIANT GetterReadsKnob
PROPERTY OverrideWhole
