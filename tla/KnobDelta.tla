------------------------------- MODULE KnobDelta -------------------------------
(***************************************************************************)
(* KnobDelta.py: the values of a variable list are compared with those of  *)
(* an XML file and, for a flavor other than the base, of a CSV file.       *)
(***************************************************************************)
EXTENDS CompareConfigs

INSTANCE CfgData WITH
  knobs <- Schemas, subknobs <- Subs, subknob_text <- SubText, set_subknob_text <- SetSubText,
  object_to_string <- ObjectToString, string_to_object <- StringToObjectOf,
  uefi_variables_to_knobs <- UefiVariablesToKnobs, vlist_to_binary <- VlistToBinary,
  get_delta_vlist <- GetDeltaVlist, read_vlist_from_buffer <- ReadVlistFromBuffer,
  read_csv <- ReadCsv, write_csv <- WriteChanged, empty_file <- EmptyFile

\* load_bin_file_configs
LoadBinFileConfigs(x, list) == LoadDefaultFromBin(LoadXml(x), list)

\* load_xml_file_configs: None stands for a CSV file that is not found.
LoadXmlFileConfigs(x, isBase, csv) ==
  CASE isBase -> [cfg |-> LoadXml(x), err |-> FALSE]
    [] ~isBase /\ csv = None -> [cfg |-> LoadXml(x), err |-> TRUE]
    [] ~isBase /\ csv # None -> OverrideDefaultValue(LoadXml(x), csv)

\* The program: how it ended, "loading" and "comparing" being the places where it
\* may raise, and the members it prints.
Printed(found) == IF found = Error THEN [end |-> "comparing", found |-> {}] ELSE [end |-> "done", found |-> found]
Compared(x, dflt, target) ==
  IF target.err \/ dflt.err THEN [end |-> "loading", found |-> {}]
  ELSE Printed(CompareMuSetting(x, dflt.cfg, target.cfg))
Delta(x, isBase, list, csv) ==
  Compared(x, LoadXmlFileConfigs(x, isBase, csv), LoadBinFileConfigs(x, list))
=============================================================================
