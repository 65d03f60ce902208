-------------------------------- MODULE Firmware --------------------------------
(***************************************************************************)
(* From the files of a build to the value a driver reads: a build that     *)
(* succeeds leaves headers in its directories (UpdateConfigHdr), the       *)
(* firmware compiled from one of them boots, and the getters of that       *)
(* header read the policy (ConfigPolicy).                                  *)
(***************************************************************************)
EXTENDS UpdateConfigHdr, ConfigPolicy

CONSTANT write_vl(_, _)  \* the command write_vl of VariableList

vars == <<buildVars, platformVars>>

Init == BuildInit /\ PlatformInit

\* The headers of a directory are compiled, those of the profiles if the build has
\* any, and the builds are over.
BuiltFrom(i) ==
  [xml |-> generated[i].data.xml,
   profiles |-> IF build.csvs[i] = <<>> THEN <<>> ELSE generated[i].profiles.values,
   csvs |-> build.csvs[i]]

Ship ==
  /\ image = None /\ returned = "ok"
  /\ \E i \in 1..build.dirs : Flash(BuiltFrom(i))
  /\ build' = None /\ builds' = 0 /\ at' = Idle /\ schemaVals' = None
  /\ generated' = [i \in 1..MaxDirs |-> NoHeaders] /\ returned' = "none"

Next ==
  \/ image = None /\ BuildNext /\ UNCHANGED platformVars
  \/ Ship
  \/ PlatformNext /\ UNCHANGED buildVars

Spec == Init /\ [][Next]_vars

-----------------------------------------------------------------------------
\* The list write_vl of VariableList.py makes of a CSV file.
ListOf == [c \in DOMAIN CsvFiles |-> [x \in DOMAIN Schemas |-> write_vl(x, CsvFiles[c]).file]]

\* The bytes a list has for knob k of x, or the default.
ListedBytes(x, k, list) ==
  LET entries == {i \in DOMAIN list : list[i].name = <<Schemas[x][k].name, <<>> >>}
  IN IF entries = {} THEN DefaultBytes[x][k] ELSE list[CHOOSE i \in entries : TRUE].data

-----------------------------------------------------------------------------
(* What is taken for granted of VariableList.py *)

\* The bytes of the knobs after a CSV file was read into a schema without values, for
\* the files that can be read.
FileBytes(x, c) == BytesOf(x, OrDefault(x, ReadProfile(x, c).vals))
Readable(x) == {c \in DOMAIN CsvFiles : ~ReadProfile(x, c).err}

\* What a knob may hold before and after a variable was copied to it.
BaseBytes(x, k) == {DefaultBytes[x][k]} \union {FileBytes(x, c)[k] : c \in Readable(x)}
StoredBytes(x, k) ==
  {Overlaid(var, now) : var \in {b \in Blobs[x][k] : Len(b) <= size_in_bytes(Schemas[x][k].fmt)}, now \in BaseBytes(x, k)}

\* Defaults and profiles pack to as many bytes as the knob has, to values within the
\* bounds, and, in a profile, to what write_vl writes.
ASSUME ProfilesAssumption ==
  \A x \in DOMAIN Schemas : \A k \in DOMAIN Schemas[x] :
    /\ \A b \in BaseBytes(x, k) : b \in Seq(Int) /\ Len(b) = size_in_bytes(Schemas[x][k].fmt) /\ InBounds(x, k, b)
    /\ \A c \in Readable(x) : FileBytes(x, c)[k] = ListedBytes(x, k, ListOf[c][x])

LeafFits(x, i, v) ==
  LET f == subknobs[x][i].fmt
  IN IF f.kind = "enum" THEN v \in Numbers(f)
     ELSE /\ LeafMin(x, i) = f.min \/ LeafMin(x, i) <= v
          /\ LeafMax(x, i) = f.max \/ v <= LeafMax(x, i)

\* check_bounds of a knob comes down to its leaves; a number that is read from bytes
\* is within the bounds of its format.
ASSUME LeavesAssumption ==
  \A x \in DOMAIN Schemas : \A k \in DOMAIN Schemas[x] : \A b \in StoredBytes(x, k) :
    /\ \A i \in Leaves(x, k) :
         subknobs[x][i].fmt.kind = "enum" => get_child_value(ValueOf(x, k, b), subknobs[x][i].path) \in Int
    /\ (\A i \in Leaves(x, k) : LeafFits(x, i, get_child_value(ValueOf(x, k, b), subknobs[x][i].path))) => InBounds(x, k, b)

-----------------------------------------------------------------------------
\* What the active profile says of a knob.
PromisedBytes(k) ==
  IF creator.profile = 0 THEN DefaultBytes[image.xml][k]
  ELSE ListedBytes(image.xml, k, ListOf[image.csvs[creator.profile]][image.xml])

\* A getter that succeeds hands out the bytes the creator published for its knob, on
\* the first call, which fills the cache, and on later ones (the offsets of
\* write_uefi_getter_implementations in the list of get_variable_list_size).  Unless
\* a variable was taken they are the bytes write_vl makes of the CSV file of the
\* active profile, with nothing left of the profile read before it ("Reset the
\* schema to defaults" in generate_profiles).  A policy of another build is excepted.
GetterReadsKnob ==
  got # None /\ got.status = "success" /\ (policy # None => Len(policy) = GetConfPolicySize(image.xml)) =>
    /\ Published /\ got.data = knobValues[got.at]
    /\ got.at \notin creator.took => got.data = PromisedBytes(got.at)
=============================================================================
