----------------------------- MODULE ConfigPolicy -----------------------------
(***************************************************************************)
(* The generated code at boot.  A policy creator (outside this repository, *)
(* modelled as the documents describe it) takes the values the data header *)
(* has, the overrides of the active profile, and for each knob the variable*)
(* that ConfigKnobShimLib finds; what its validator refuses is set back to *)
(* the default; the policy is published.  A driver reads knobs with the    *)
(* generated getters, which keep a copy of the policy.  Other code writes  *)
(* variables at any time, and the system may be reset at any time.         *)
(***************************************************************************)
EXTENDS KnobService

CONSTANTS object_to_binary(_, _), binary_to_object(_, _, _), check_bounds(_, _, _, _),  \* of VariableList
          Blobs,          \* Blobs[x][k]: what other code may write to the variable of knob k
          OtherPolicies   \* the policies a creator of another build publishes

\* A policy that has the size of this build's is one of this build.
ASSUME BlobsAssumption ==
  /\ \A x \in DOMAIN Schemas : \A k \in DOMAIN Schemas[x] : Blobs[x][k] \subseteq Seq(Int)
  /\ None \notin Seq(Int) /\ OtherPolicies \subseteq Seq(Int)
  /\ \A p \in OtherPolicies, x \in DOMAIN Schemas : Len(p) # GetConfPolicySize(x)

VARIABLES image,      \* the headers of the firmware: [xml, profiles, csvs], None before it is built
          nvram,      \* the variable of each knob, or None
          knobValues, \* gKnobCachedValues: the bytes of each knob
          creator,    \* the policy creator: [step, at, size, status, profile, took]
          policy,     \* what the Policy Service has, or None
          cached,     \* CachedPolicy of the driver, and the places beyond it that were written
          got         \* the last getter call: [at, status, data], or None

platformVars == <<image, nvram, knobValues, creator, policy, cached, got>>

BytesOf(x, vals) == [k \in DOMAIN Schemas[x] |-> object_to_binary(Schemas[x][k].fmt, vals[k])]
DefaultBytes == [x \in DOMAIN Schemas |-> BytesOf(x, Defaults(x))]
OrDefault(x, vals) == [k \in DOMAIN vals |-> IF vals[k] = None THEN Schemas[x][k].dflt ELSE vals[k]]

\* Profile 0 is none.
ProfileBytes(n) ==
  IF n = 0 THEN DefaultBytes[image.xml] ELSE BytesOf(image.xml, OrDefault(image.xml, image.profiles[n]))

Count == Len(Schemas[image.xml])
Knob(k) == Schemas[image.xml][k]
SizeOf(k) == size_in_bytes(Knob(k).fmt)

\* The value that the bytes of knob k of x stand for.
ValueOf(x, k, bytes) == binary_to_object(Schemas[x][k].fmt, bytes, <<0, 0>>)

\* The variable list of all knobs.
PolicyOf(values) ==
  FlattenSeq([k \in 1..Count |->
                Filler(GetVariableListSize(Knob(k)) - SizeOf(k) - 4) \o values[k] \o Filler(4)])

-----------------------------------------------------------------------------
Booting == [step |-> "profile", at |-> 1, size |-> 0, status |-> "none", profile |-> 0, took |-> {}]
NoCache(x) == [signed |-> FALSE, bytes |-> Filler(GetConfPolicySize(x)), beyond |-> {}]

PlatformInit ==
  /\ image = None /\ nvram = <<>> /\ knobValues = <<>> /\ creator = Booting
  /\ policy = None /\ cached = [signed |-> FALSE, bytes |-> <<>>, beyond |-> {}] /\ got = None

Boot(x) ==
  /\ knobValues' = DefaultBytes[x] /\ creator' = Booting /\ policy' = None
  /\ cached' = NoCache(x) /\ got' = None

\* The platform is flashed, with no variables yet.
Flash(built) ==
  /\ image' = built /\ nvram' = [k \in DOMAIN Schemas[built.xml] |-> None] /\ Boot(built.xml)

\* Everything but the variables is lost.
Reset == Boot(image.xml) /\ UNCHANGED <<image, nvram>>

\* Other code writes or deletes a variable.
SetVariable(k, blob) ==
  /\ nvram' = [nvram EXCEPT ![k] = blob]
  /\ UNCHANGED <<image, knobValues, creator, policy, cached, got>>

-----------------------------------------------------------------------------
(* The policy creator *)

NextKnob(status) ==
  IF creator.at = Count THEN [creator EXCEPT !.step = "publish", !.status = status]
  ELSE [creator EXCEPT !.step = "size", !.at = @ + 1, !.status = status]

\* The active profile, or none.
ApplyProfile ==
  /\ creator.step = "profile"
  /\ \E n \in 0..Len(image.profiles) :
       /\ knobValues' = ProfileBytes(n)
       /\ creator' = [creator EXCEPT !.step = "size", !.profile = n]
  /\ UNCHANGED <<image, nvram, policy, cached, got>>

\* GetConfigKnobOverride, first half: the size of the variable has to be that of
\* the knob.
ReadSize ==
  /\ creator.step = "size"
  /\ creator' = IF nvram[creator.at] = None THEN NextKnob("not_found")
                ELSE IF Len(nvram[creator.at]) # SizeOf(creator.at) THEN NextKnob("bad_buffer_size")
                ELSE [creator EXCEPT !.step = "data", !.size = Len(nvram[creator.at])]
  /\ UNCHANGED <<image, nvram, knobValues, policy, cached, got>>

Took(n) == [creator EXCEPT !.step = "validate", !.size = n, !.took = @ \union {creator.at}]

ReadDataTruncates ==
  LET var == nvram[creator.at]
      now == knobValues[creator.at]
      n == IF Len(var) < creator.size THEN Len(var) ELSE creator.size
  IN /\ creator.step = "data"
     /\ \/ /\ var # None
           /\ knobValues' = [knobValues EXCEPT ![creator.at] = SubSeq(var, 1, n) \o SubSeq(now, n + 1, Len(now))]
           /\ creator' = Took(n)
        \/ /\ var = None
           /\ creator' = NextKnob("not_found")
           /\ UNCHANGED knobValues
     /\ UNCHANGED <<image, nvram, policy, cached, got>>

\* What a buffer holds after a variable was copied to it.
Overlaid(var, now) == var \o SubSeq(now, Len(var) + 1, Len(now))

\* Second half: GetVariable fills the buffer if it is large enough.
ReadData ==
  LET var == nvram[creator.at]
      now == knobValues[creator.at]
      fits == var # None /\ Len(var) <= creator.size
  IN /\ creator.step = "data"
     /\ \/ /\ fits
           /\ knobValues' = [knobValues EXCEPT ![creator.at] = Overlaid(var, now)]
           /\ creator' = Took(Len(var))
        \/ /\ ~fits
           /\ creator' = NextKnob(IF var = None THEN "not_found" ELSE "buffer_too_small")
           /\ UNCHANGED knobValues
     /\ UNCHANGED <<image, nvram, policy, cached, got>>

\* The knob's validator is run on an override.
Validate ==
  LET valid == ValidateKnobContent(image.xml, creator.at, ValueOf(image.xml, creator.at, knobValues[creator.at]))
  IN /\ creator.step = "validate"
     /\ knobValues' = IF valid THEN knobValues
                      ELSE [knobValues EXCEPT ![creator.at] = DefaultBytes[image.xml][creator.at]]
     /\ creator' = NextKnob("success")
     /\ UNCHANGED <<image, nvram, policy, cached, got>>

Publish ==
  /\ creator.step = "publish"
  /\ policy' \in {PolicyOf(knobValues)} \union OtherPolicies
  /\ creator' = [creator EXCEPT !.step = "done"]
  /\ UNCHANGED <<image, nvram, knobValues, cached, got>>

-----------------------------------------------------------------------------
(* The driver: it may run before the creator is done *)

Get(k) ==
  LET call == ConfigGet(image.xml, k, cached, policy)
  IN /\ cached' = call.cache
     /\ got' = [at |-> k, status |-> call.status, data |-> call.data]
     /\ UNCHANGED <<image, nvram, knobValues, creator, policy>>

PlatformNext ==
  /\ image # None
  /\ \/ Reset \/ ApplyProfile \/ ReadSize \/ ReadData \/ Validate \/ Publish
     \/ \E k \in 1..Count : Get(k) \/ \E blob \in Blobs[image.xml][k] \union {None} : SetVariable(k, blob)

-----------------------------------------------------------------------------
InBounds(x, k, bytes) ==
  check_bounds(Schemas[x][k].fmt, ValueOf(x, k, bytes), Schemas[x][k].min, Schemas[x][k].max)

Published == policy # None /\ creator.step = "done"

\* A published value is one the tools would accept: the generated validators
\* (validate_enum_value_ and validate_knob_content_ of KnobService.py), which look
\* only at enums and at bounds that differ from those of the format, let nothing
\* pass that check_bounds of VariableList.py refuses, whatever the variables hold.
PolicyInBounds == Published => \A k \in 1..Count : InBounds(image.xml, k, knobValues[k])

\* A variable is taken as a whole or not at all: when GetConfigKnobOverride changes
\* the buffer it holds the variable and nothing else, although the size was read in
\* another call than the data, unless the variable has become shorter in between.
OverrideWhole ==
  [][ReadData => \/ knobValues' = knobValues \/ knobValues'[creator.at] = nvram[creator.at]
                 \/ Len(nvram[creator.at]) < creator.size]_platformVars
=============================================================================
