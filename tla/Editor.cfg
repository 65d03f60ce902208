\* Three kinds of sessions: editing one file, loading and saving it, opening files.
SPECIFICATION Spec
CONSTANTS
  None = None
  Error = Error
  Broken = Broken
  Schemas <- MCSchemas
  knobs <- MCSchemas
  subknobs <- MCSubs
  subknob_text <- SubText
  set_subknob_text <- SetSubText
  object_to_string <- ObjectToString
  string_to_object <- StringToObjectOf
  uefi_variables_to_knobs <- UefiVariablesToKnobs
  vlist_to_binary <- VlistToBinary
  get_delta_vlist <- GetDeltaVlist
  read_vlist_from_buffer <- ReadVlistFromBuffer
  read_csv <- ReadCsv
  write_csv <- WriteChanged
  empty_file <- EmptyFile
  print_diff_raises <- MCDiffRaises
  FileNames <- MCFileNames
  Offered <- MCOffered
  Sessions <- MCSessions
  UserCsvs <- MCUserCsvs
  UserBins <- MCUserBins
  UserSvds <- MCUserSvds
  Entries <- MCEntries
  PageSize = 3
CHECK_DEADLOCK FALSE
INVARIANT LeavesInSync
INVARIANT PagesBelong
INVARIANT NonEmptyPage
INVARIANT WhatYouSeeIsSaved
