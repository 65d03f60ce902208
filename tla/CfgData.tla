-------------------------------- MODULE CfgData --------------------------------
(***************************************************************************)
(* The configuration object of GenNCCfgData.py (class CGenNCCfgData), which*)
(* the editor and the command line tool work on: a schema with the values  *)
(* of its knobs, and the "shim", a list with the text of every subknob.    *)
(*                                                                         *)
(* Every operation is a function from the object to the object it leaves   *)
(* behind, also when it raises (err).                                      *)
(*                                                                         *)
(* GenNCCfgData.py imports VariableList.py.  Constants in lower case are   *)
(* what it takes from there; the module VariableList has their definitions *)
(* and whoever uses this module gives them those.                          *)
(***************************************************************************)
EXTENDS Python, Integers, SequencesExt

CONSTANTS knobs,                         \* knobs[x]: the knobs of XML file x
          subknobs,                      \* subknobs[x]: the subknobs of all its knobs
          subknob_text(_, _, _),         \* the text of subknob.value
          set_subknob_text(_, _, _, _),  \* the values after subknob.value is set from a text, or Error
          object_to_string(_, _),        \* by a format; Error when it raises
          string_to_object(_, _),
          uefi_variables_to_knobs(_, _, _), \* the values, and whether it raised on the way
          vlist_to_binary(_, _),
          get_delta_vlist(_, _),
          read_vlist_from_buffer(_),
          read_csv(_, _, _),             \* the values, the knobs updated, and whether it raised
          write_csv(_, _, _),            \* the file, and whether it raised
          empty_file                     \* a CSV file nothing is written to

Defaulted(x) == [k \in DOMAIN knobs[x] |-> knobs[x][k].dflt]

Shim(x, vals) == [i \in DOMAIN subknobs[x] |-> subknob_text(x, vals, i)]

\* load_xml: the values are the defaults, the shim is built from them.
LoadXml(x) == [xml |-> x, vals |-> Defaulted(x), shim |-> Shim(x, Defaulted(x))]

SyncShimAndSchema(c) == [c EXCEPT !.shim = Shim(c.xml, c.vals)]

\* set_item_value: the value of one subknob; the shim is the caller's business.
ItemSet(c, i, text, new) ==
  IF new = Error THEN [cfg |-> c, err |-> TRUE, text |-> text]
  ELSE [cfg |-> [c EXCEPT !.vals = new], err |-> FALSE, text |-> subknob_text(c.xml, new, i)]
SetItemValue(c, i, text) == ItemSet(c, i, text, set_subknob_text(c.xml, c.vals, i, text))

\* reformat_value_str: the text as the format would write it, or Error.
TextOf(f, obj) == IF obj = Error THEN Error ELSE object_to_string(f, obj)
ReformatValueStr(x, i, text) == TextOf(subknobs[x][i].fmt, string_to_object(subknobs[x][i].fmt, text))

OptionsOf(f) ==
  CASE f.kind = "enum" -> {f.values[j].pretty : j \in DOMAIN f.values}
    [] f.kind = "bool" -> {object_to_string(f, b) : b \in BOOLEAN}
    [] OTHER -> {}

\* get_cfg_item_options: what the editor offers for an enum or a bool.
GetCfgItemOptions(x, i) == OptionsOf(subknobs[x][i].fmt)

-----------------------------------------------------------------------------
(* Loading *)

\* get_var_list_for_instance: the variables that are knobs of this schema.
IsKnob(own, v) == \E i \in DOMAIN own : own[i].guid = v.guid /\ own[i].name = v.name
GetVarListForInstance(own, list) ==
  LET upto[n \in 0..Len(list)] ==
        IF n = 0 THEN <<>>
        ELSE IF IsKnob(own, list[n]) THEN Append(upto[n - 1], list[n]) ELSE upto[n - 1]
  IN  upto[Len(list)]

\* The values have been changed in place; an exception skips the synchronisation.
Synced(c, read) ==
  IF read.err THEN [c EXCEPT !.vals = read.vals] ELSE SyncShimAndSchema([c EXCEPT !.vals = read.vals])
AfterLoad(c, read) == [cfg |-> Synced(c, read), err |-> read.err]

LoadVariables(c, own, list) ==
  IF own = Error \/ list = Error THEN [cfg |-> c, err |-> TRUE]
  ELSE AfterLoad(c, uefi_variables_to_knobs(c.xml, c.vals, GetVarListForInstance(own, list)))

\* load_default_from_bin
LoadDefaultFromBin(c, buf) ==
  LoadVariables(c, vlist_to_binary(c.xml, c.vals), read_vlist_from_buffer(buf))

\* load_from_svd: one setting after the other, each like a binary of its own; a
\* setting without an Id (None) is passed over.
LoadSetting(st, buf) == IF st.err \/ buf = None THEN st ELSE LoadDefaultFromBin(st.cfg, buf)
LoadFromSvd(c, settings) ==
  LET after[n \in 0..Len(settings)] ==
        IF n = 0 THEN [cfg |-> c, err |-> FALSE] ELSE LoadSetting(after[n - 1], settings[n])
  IN  after[Len(settings)]

UnsyncedCsv(c, read) == [cfg |-> [c EXCEPT !.vals = read.vals], err |-> read.err, count |-> read.count]
OverrideDefaultValueNoSync(c, csv) == UnsyncedCsv(c, read_csv(c.xml, c.vals, csv))

\* override_default_value: read_csv and, unless it raised, the synchronisation.
Overridden(c, read) == [cfg |-> Synced(c, read), err |-> read.err, count |-> read.count]
OverrideDefaultValue(c, csv) == Overridden(c, read_csv(c.xml, c.vals, csv))

-----------------------------------------------------------------------------
(* Saving *)

GenerateBinaryArray(c) == vlist_to_binary(c.xml, c.vals)

GenerateDeltaBinaryArray(c) == get_delta_vlist(c.xml, c.vals)

NothingWritten == [file |-> empty_file, err |-> TRUE]
DeltaFile(c, opened, w) == [cfg |-> c, opened |-> opened, err |-> w.err, file |-> w.file]
WrittenDelta(loaded, opened, full) ==
  DeltaFile(loaded.cfg, opened \/ ~loaded.err,
            IF loaded.err THEN NothingWritten ELSE write_csv(loaded.cfg.xml, loaded.cfg.vals, full))

GenerateDeltaFileFromBinOpensFirst(c, new, full) == WrittenDelta(LoadDefaultFromBin(c, new), TRUE, full)

\* generate_delta_file_from_bin: the object loads the binary first; the change file
\* holds what then differs from the defaults of the XML.
GenerateDeltaFileFromBin(c, new, full) == WrittenDelta(LoadDefaultFromBin(c, new), FALSE, full)
=============================================================================
