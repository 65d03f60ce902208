----------------------------- MODULE KnobService -----------------------------
(***************************************************************************)
(* KnobService.py: what the headers generated from an XML file declare,    *)
(* use and compute.  A header is the record of what later code depends on: *)
(* the constants it declares or uses, the tables, and the functions, which *)
(* are operators here.                                                     *)
(*                                                                         *)
(* KnobService.py imports VariableList.py.  Constants in lower case are    *)
(* what it takes from there, by the names they have there.  The module     *)
(* VariableList has their definitions, and the instance that is checked    *)
(* gives them those.                                                       *)
(***************************************************************************)
EXTENDS Integers, FiniteSets, SequencesExt

CONSTANTS None, Error,
          Schemas,               \* Schemas[x]: the knobs of XML file x
          subknobs,              \* subknobs[x]: the subknobs of all its knobs
          get_child_value(_, _), \* the part of a value that a path leads to
          size_in_bytes(_),      \* of a format
          read_csv(_, _, _),     \* the values and whether it raised
          NameLength(_)          \* the number of characters of a knob's name

\* A schema is a sequence of knobs and has one at least; a subknob belongs to one of
\* them, and an enum has at least one value.
ASSUME SchemasAssumption ==
  \A x \in DOMAIN Schemas :
    /\ Len(Schemas[x]) \in Nat \ {0} /\ DOMAIN Schemas[x] = 1..Len(Schemas[x])
    /\ \A k \in DOMAIN Schemas[x] : NameLength(Schemas[x][k].name) \in Nat /\ size_in_bytes(Schemas[x][k].fmt) \in Nat
    /\ \A i \in DOMAIN subknobs[x] : subknobs[x][i].fmt.kind = "enum" =>
         LET values == subknobs[x][i].fmt.values
         IN /\ Len(values) \in Nat \ {0} /\ DOMAIN values = 1..Len(values)
            /\ \A n \in DOMAIN values : values[n].number \in Int

Defaults(x) == [k \in DOMAIN Schemas[x] |-> Schemas[x][k].dflt]
NoValues(x) == [k \in DOMAIN Schemas[x] |-> None]

-----------------------------------------------------------------------------
(* Constants.  Those of an enum have its name in front, unless the names pass
   unchanged. *)

EnumConstant(f, name, noChange) ==
  [kind |-> "enum", of |-> IF noChange THEN <<>> ELSE f.values, name |-> name, sub |-> 0]
Bound(side, i) == [kind |-> side, of |-> <<>>, name |-> "", sub |-> i]

Leaves(x, k) == {i \in DOMAIN subknobs[x] : subknobs[x][i].k = k /\ subknobs[x][i].leaf}
EnumLeaves(x) == {i \in DOMAIN subknobs[x] : subknobs[x][i].fmt.kind = "enum"}
LeafMin(x, i) == get_child_value(Schemas[x][subknobs[x][i].k].min, subknobs[x][i].path)
LeafMax(x, i) == get_child_value(Schemas[x][subknobs[x][i].k].max, subknobs[x][i].path)
HasMin(x, i) == subknobs[x][i].leaf /\ subknobs[x][i].fmt.kind # "enum" /\ LeafMin(x, i) # subknobs[x][i].fmt.min
HasMax(x, i) == subknobs[x][i].leaf /\ subknobs[x][i].fmt.kind # "enum" /\ LeafMax(x, i) # subknobs[x][i].fmt.max

EnumConstants(f, noChange) == {EnumConstant(f, f.values[n].name, noChange) : n \in DOMAIN f.values}
DeclaredEnums(x, noChange) == UNION {EnumConstants(subknobs[x][i].fmt, noChange) : i \in EnumLeaves(x)}

\* KNOB__..__MIN and KNOB__..__MAX: only where they differ from those of the format.
DeclaredBounds(x) ==
  {Bound("min", i) : i \in {j \in DOMAIN subknobs[x] : HasMin(x, j)}}
  \union {Bound("max", i) : i \in {j \in DOMAIN subknobs[x] : HasMax(x, j)}}

\* generate_public_header
PublicHeader(x, typesOnly, noChange) ==
  DeclaredEnums(x, noChange) \union (IF typesOnly THEN {} ELSE DeclaredBounds(x))

\* EnumFormat.object_to_string with c_format: the first value with that number.
CText(f, o) ==
  LET hits == {n \in DOMAIN f.values : f.values[n].number = o}
  IN IF hits = {} THEN {} ELSE {EnumConstant(f, f.values[CHOOSE n \in hits : \A m \in hits : n <= m].name, FALSE)}
UsedIn(x, vals) ==
  UNION {CText(subknobs[x][i].fmt, get_child_value(vals[subknobs[x][i].k], subknobs[x][i].path)) :
           i \in {j \in EnumLeaves(x) : vals[subknobs[x][j].k] # None}}

-----------------------------------------------------------------------------
(* Validators *)

Numbers(f) == {f.values[n].number : n \in DOMAIN f.values}
Lowest(f) == CHOOSE n \in Numbers(f) : \A m \in Numbers(f) : n <= m
Highest(f) == CHOOSE n \in Numbers(f) : \A m \in Numbers(f) : n >= m
IsSwitch(f) == Highest(f) - Lowest(f) > Len(f.values)

ValidateEnumValueNoGaps(f, v) ==
  IF IsSwitch(f) THEN \E n \in DOMAIN f.values : f.values[n].number = v
  ELSE Lowest(f) <= v /\ v <= Highest(f)

\* validate_enum_value_: a switch, or the two ends and each gap between them.
ValidateEnumValue(f, v) ==
  IF IsSwitch(f) THEN \E n \in DOMAIN f.values : f.values[n].number = v
  ELSE /\ Lowest(f) <= v /\ v <= Highest(f)
       /\ \A gap \in Lowest(f)..(Highest(f) - 1) : gap \notin Numbers(f) => v # gap

\* validate_knob_content_: enums by their function, other leaves against the bounds
\* that are declared; a knob without any of these is always valid.
ValidateKnobContent(x, k, o) ==
  \A i \in Leaves(x, k) :
    LET v == get_child_value(o, subknobs[x][i].path)
    IN /\ subknobs[x][i].fmt.kind = "enum" => ValidateEnumValue(subknobs[x][i].fmt, v)
       /\ HasMin(x, i) => LeafMin(x, i) <= v
       /\ HasMax(x, i) => v <= LeafMax(x, i)

\* What generate_cached_implementation uses; it is never told that names pass
\* unchanged.
DataHeader(x) ==
  UsedIn(x, Defaults(x)) \union DeclaredBounds(x)
  \union UNION {EnumConstants(subknobs[x][i].fmt, FALSE) : i \in {j \in EnumLeaves(x) : IsSwitch(subknobs[x][j].fmt)}}

-----------------------------------------------------------------------------
(* The policy and the getters.  A policy is a sequence of bytes; those that are not
   data of a knob are -1. *)

CachedPolicyHeaderSize == 4
Filler(n) == [i \in 1..n |-> -1]

\* get_variable_list_size: GUID, attributes, CRC, the two sizes, the name with its
\* terminator in two bytes each, and the data.
GetVariableListSize(kn) == 16 + 4 + 4 + 4 + 4 + (NameLength(kn.name) + 1) * 2 + size_in_bytes(kn.fmt)

\* ListEnds(x)[n]: how many bytes the lists of the first n knobs take.
ListEnds(x) ==
  LET end[n \in 0..Len(Schemas[x])] == IF n = 0 THEN 0 ELSE end[n - 1] + GetVariableListSize(Schemas[x][n])
  IN end

GetConfPolicySize(x) == ListEnds(x)[Len(Schemas[x])]

\* Offset of the getter of knob k, without the header: the entry without its data
\* and the CRC behind it; the next one moves past both.
GetterOffset(x, k) == ListEnds(x)[k] - (4 + size_in_bytes(Schemas[x][k].fmt))

\* init_config_policy_cache: GetPolicy copies a policy that is not larger than the size
\* it is given, which is that of the whole cache; but it copies it behind the header, so
\* that the last bytes of a larger one are written beyond the cache, over whatever the
\* driver has there.  A policy of another size leaves the signature out and its success
\* in.
InitConfigPolicyCache(x, cache, policy) ==
  LET size == GetConfPolicySize(x)
  IN CASE policy = None -> [status |-> "not_found", cache |-> cache]
       [] policy # None /\ Len(policy) > size + CachedPolicyHeaderSize -> [status |-> "too_small", cache |-> cache]
       [] policy # None /\ Len(policy) <= size + CachedPolicyHeaderSize ->
            LET bytes == policy \o SubSeq(cache.bytes, Len(policy) + 1, size)
            IN [status |-> "success",
                cache |-> [signed |-> Len(policy) = size, bytes |-> SubSeq(bytes, 1, size),
                           beyond |-> cache.beyond \union (size + 1)..Len(policy)]]

\* config_get_: the cache is filled before the first read; a build without ASSERT
\* goes on with whatever the function returned.
ConfigGet(x, k, cache, policy) ==
  LET init == IF cache.signed THEN [status |-> "success", cache |-> cache] ELSE InitConfigPolicyCache(x, cache, policy)
      from == GetterOffset(x, k)
      size == size_in_bytes(Schemas[x][k].fmt)
  IN [status |-> IF init.status # "success" THEN init.status
                 ELSE IF from + size > GetConfPolicySize(x) THEN "compromised" ELSE "success",
      cache |-> init.cache,
      data |-> SubSeq(init.cache.bytes, from + 1, from + size)]

-----------------------------------------------------------------------------
(* Profiles *)

GenerateProfileNoReset(x, vals, csv) == read_csv(x, vals, csv)

\* One turn of the loop of generate_profiles: the values of the schema are reset, and
\* the knobs that have one after the reading are the overrides.
GenerateProfile(x, vals, csv) == read_csv(x, NoValues(x), csv)

\* The checks of main on -pn and -pid: names is None or the length of each, ids is
\* None or [hex, number] of each.
CheckNames(names, count) ==
  names = None \/ (Len(names) = count /\ \A n \in DOMAIN names : names[n] = 2)
CheckIds(ids, count) ==
  ids = None \/ (Len(ids) = count /\ \A n \in DOMAIN ids : ids[n].hex /\ ids[n].number <= 255)

\* The tables of names and numbers; without an option they count from 0.
ProfileNames(names, count) == IF names = None THEN [i \in 1..count |-> 2] ELSE names
ProfileIds(ids, count) == IF ids = None THEN [i \in 1..count |-> i - 1] ELSE [i \in DOMAIN ids |-> ids[i].number]
=============================================================================
