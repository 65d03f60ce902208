----------------------- MODULE ConfigVariableListLib -----------------------
(***************************************************************************)
(* The parser of binary variable lists                                     *)
(* (Library/ConfigVariableListLib/ConfigVariableListLib.c): a buffer holds *)
(* one block after the other, each with a header that gives its sizes and  *)
(* a CRC at its end.  RetrieveActiveConfigVarList returns all of them in   *)
(* an array that grows, the two QuerySingle functions return the first     *)
(* block of a name.  The pool may be exhausted at every allocation.        *)
(*                                                                         *)
(* What the next block is, is decided when the parser gets there.  ASSERT  *)
(* is compiled out, as in a release build.                                 *)
(***************************************************************************)
EXTENDS Naturals, Sequences

CONSTANTS
  HdrSize,         \* sizeof (CONFIG_VAR_LIST_HDR)
  TailSize,        \* sizes of Guid, Attributes and CRC32 together
  MAX_UINT32,
  MaxBufferSize,   \* bound on the size of the buffers callers pass
  Blocks,          \* what can be found at the place of a block, see BlockType
  Names,           \* the names callers ask for
  ReallocMayFail   \* whether the array may fail to grow

\* What RetrieveActiveConfigVarList asks for
Nameless == "nameless"

\* alike: the names that have the characters of the block's name in front.  With its
\* terminator that is the name itself, without one every name that begins with it.
BlockType == [NameSize : Nat, DataSize : Nat, alike : SUBSET Names, crcOk : BOOLEAN]

ASSUME SizesAssumption ==
  HdrSize \in Nat \ {0} /\ TailSize \in Nat /\ MAX_UINT32 \in Nat /\ MaxBufferSize \in Nat

ASSUME BlocksAssumption ==
  /\ Blocks \subseteq BlockType
  /\ Nameless \notin Names
  /\ \A b \in Blocks : b.NameSize \div 2 = 0 => b.alike = Names

ASSUME ReallocAssumption == ReallocMayFail \in BOOLEAN

VARIABLES
  pc,               \* where the parser is, see Pcs
  caller,           \* the function that was called: "retrieve", "unicode" or "ascii"
  ConfigVarName,    \* the name asked for; Nameless for "retrieve"
  BufferSize,       \* VariableListBufferSize
  ListIndex,
  AllocatedCount,
  listPtr,          \* *ConfigVarListPtr is not NULL
  firstName,        \* the Name field of the first entry: "uninit", "null" or "set"
  kept,             \* the entries counted by *ConfigVarListCount, as positions in walked
  Status,
  heap,             \* the pool allocations of this library that are not freed
  walked,           \* history: the blocks converted so far
  corruptMet,       \* history: a block could not be converted
  reallocFailed     \* history: the array could not grow in this call or an earlier one

vars == <<pc, caller, ConfigVarName, BufferSize, ListIndex, AllocatedCount, listPtr,
          firstName, kept, Status, heap, walked, corruptMet, reallocFailed>>

Pcs == {"idle", "loop", "check", "exit", "done"}

ParseErrors == {"INVALID_PARAMETER", "OUT_OF_RESOURCES", "BUFFER_TOO_SMALL",
                "COMPROMISED_DATA", "NOT_FOUND"}

\* Allocations: the array, the Unicode copy of an ASCII name, an entry's Name and Data
List == <<"list", 0>>
UniVarName == <<"uniVarName", 0>>
NameOf(i) == <<"name", i>>
DataOf(i) == <<"data", i>>

TypeOK ==
  /\ pc \in Pcs
  /\ caller \in {"retrieve", "unicode", "ascii"}
  /\ ConfigVarName \in Names \union {Nameless}
  /\ BufferSize \in Nat
  /\ ListIndex \in Nat
  /\ AllocatedCount \in Nat
  /\ listPtr \in BOOLEAN
  /\ firstName \in {"uninit", "null", "set"}
  /\ kept \in Seq(Nat)
  /\ Status \in {"SUCCESS"} \union ParseErrors
  /\ walked \in Seq(Blocks)
  /\ corruptMet \in BOOLEAN
  /\ reallocFailed \in BOOLEAN

Init ==
  /\ pc = "idle"
  /\ caller = "retrieve"
  /\ ConfigVarName = Nameless
  /\ BufferSize = 0
  /\ ListIndex = 0
  /\ AllocatedCount = 1
  /\ listPtr = FALSE
  /\ firstName = "uninit"
  /\ kept = << >>
  /\ Status = "SUCCESS"
  /\ heap = {}
  /\ walked = << >>
  /\ corruptMet = FALSE
  /\ reallocFailed = FALSE

-----------------------------------------------------------------------------
(* Conversion of one block.                                                *)

\* The bytes the block takes
Extent(b) == HdrSize + TailSize + b.NameSize + b.DataSize

\* Mutant: the sum wraps around instead of being checked.
GetVarListSizeWraps(b) == {Extent(b) % (MAX_UINT32 + 1)}

\* The size of a block, none if a 32-bit sum overflows.
GetVarListSize(b) == IF Extent(b) <= MAX_UINT32 THEN {Extent(b)} ELSE {}

\* ConvertVariableListToVariableEntry up to its allocations; an overflow is BUFFER_TOO_SMALL too.
ConvertStatus(b, LeftSize) ==
  IF \/ LeftSize < HdrSize
     \/ GetVarListSize(b) = {}
     \/ \E NeededSize \in GetVarListSize(b) : NeededSize > LeftSize
  THEN "BUFFER_TOO_SMALL"
  ELSE IF ~b.crcOk THEN "COMPROMISED_DATA" ELSE "SUCCESS"

-----------------------------------------------------------------------------
(* The calls.                                                              *)

Begin(size, fn, name) ==
  /\ caller' = fn
  /\ ConfigVarName' = name
  /\ BufferSize' = size
  /\ ListIndex' = 0
  /\ AllocatedCount' = 1
  /\ firstName' = "uninit"
  /\ kept' = << >>
  /\ walked' = << >>
  /\ corruptMet' = FALSE
  /\ UNCHANGED reallocFailed

\* RetrieveActiveConfigVarList; size 0 stands for a missing buffer too.
RetrieveActiveConfigVarList ==
  /\ pc = "idle"
  /\ \E size \in 0..MaxBufferSize, pool \in BOOLEAN :
       /\ Begin(size, "retrieve", Nameless)
       /\ listPtr' = (size > 0 /\ pool)
       /\ Status' = IF size = 0 THEN "INVALID_PARAMETER"
                    ELSE IF pool THEN "SUCCESS" ELSE "OUT_OF_RESOURCES"
       /\ pc' = IF size > 0 /\ pool THEN "loop" ELSE "exit"
       /\ heap' = IF size > 0 /\ pool THEN heap \union {List} ELSE heap

\* QuerySingleActiveConfigUnicodeVarList: the entry is the caller's.
QuerySingleActiveConfigUnicodeVarList ==
  /\ pc = "idle"
  /\ \E size \in 0..MaxBufferSize, name \in Names :
       /\ Begin(size, "unicode", name)
       /\ listPtr' = (size > 0)
       /\ Status' = IF size = 0 THEN "INVALID_PARAMETER" ELSE "SUCCESS"
       /\ pc' = IF size = 0 THEN "exit" ELSE "loop"
  /\ UNCHANGED heap

\* QuerySingleActiveConfigAsciiVarList: the copy of the name is never freed.
QuerySingleActiveConfigAsciiVarList ==
  /\ pc = "idle"
  /\ \E size \in 0..MaxBufferSize, name \in Names, pool \in BOOLEAN :
       /\ Begin(size, "ascii", name)
       /\ listPtr' = (size > 0)
       /\ Status' = IF ~pool THEN "OUT_OF_RESOURCES"
                    ELSE IF size = 0 THEN "INVALID_PARAMETER" ELSE "SUCCESS"
       /\ pc' = IF ~pool THEN "done" ELSE IF size = 0 THEN "exit" ELSE "loop"
       /\ heap' = IF pool THEN heap \union {UniVarName} ELSE heap

-----------------------------------------------------------------------------
(* ParseActiveConfigVarList.                                               *)

callArgs == <<caller, ConfigVarName, BufferSize>>

\* A block that cannot be converted ends the loop.
ConvertFails ==
  /\ pc = "loop" /\ ListIndex < BufferSize
  /\ \E b \in Blocks :
       \/ /\ ConvertStatus(b, BufferSize - ListIndex) # "SUCCESS"
          /\ Status' = ConvertStatus(b, BufferSize - ListIndex)
       \/ /\ ConvertStatus(b, BufferSize - ListIndex) = "SUCCESS"
          /\ Status' = "OUT_OF_RESOURCES"
  /\ corruptMet' = (Status' # "OUT_OF_RESOURCES")
  /\ pc' = "check"
  /\ UNCHANGED <<callArgs, ListIndex, AllocatedCount, listPtr, firstName, kept, heap, walked,
                 reallocFailed>>

\* StrnCmp over the NameSize / 2 characters of the block.
Matches(b, name) == name \in b.alike

Converted(b) ==
  /\ ConvertStatus(b, BufferSize - ListIndex) = "SUCCESS"
  /\ \E NeededSize \in GetVarListSize(b) : ListIndex' = ListIndex + NeededSize
  /\ walked' = Append(walked, b)

\* Another name: Name and Data are freed again.
SkipEntry ==
  /\ pc = "loop" /\ ListIndex < BufferSize
  /\ caller # "retrieve"
  /\ \E b \in Blocks : Converted(b) /\ ~Matches(b, ConfigVarName)
  /\ firstName' = "null"
  /\ UNCHANGED <<pc, callArgs, AllocatedCount, listPtr, kept, Status, heap, corruptMet,
                 reallocFailed>>

Keep ==
  /\ kept' = Append(kept, Len(walked) + 1)
  /\ firstName' = "set"

NewEntry == {NameOf(Len(walked) + 1), DataOf(Len(walked) + 1)}

\* Mutant: the walk goes on after a match.
FoundEntryGoesOn ==
  /\ pc = "loop" /\ ListIndex < BufferSize
  /\ caller # "retrieve"
  /\ \E b \in Blocks : Converted(b) /\ Matches(b, ConfigVarName)
  /\ Keep
  /\ heap' = heap \union NewEntry
  /\ UNCHANGED <<pc, callArgs, AllocatedCount, listPtr, Status, corruptMet, reallocFailed>>

FoundEntry ==
  /\ pc = "loop" /\ ListIndex < BufferSize
  /\ caller # "retrieve"
  /\ \E b \in Blocks : Converted(b) /\ Matches(b, ConfigVarName)
  /\ Keep
  /\ heap' = heap \union NewEntry
  /\ pc' = "check"
  /\ UNCHANGED <<callArgs, AllocatedCount, listPtr, Status, corruptMet, reallocFailed>>

\* Mutant: the array grows once it is more than full.
HalfFullLate(count) == AllocatedCount < count

HalfFull(count) == AllocatedCount <= count * 2

AppendEntry ==
  /\ pc = "loop" /\ ListIndex < BufferSize
  /\ caller = "retrieve"
  /\ \E b \in Blocks : Converted(b)
  /\ Keep
  /\ heap' = heap \union NewEntry
  /\ \/ /\ ~HalfFull(Len(kept) + 1)
        /\ UNCHANGED <<pc, AllocatedCount, listPtr, Status, reallocFailed>>
     \/ /\ HalfFull(Len(kept) + 1)
        /\ AllocatedCount' = 2 * AllocatedCount
        /\ UNCHANGED <<pc, listPtr, Status, reallocFailed>>
     \/ /\ HalfFull(Len(kept) + 1)
        /\ ReallocMayFail
        /\ listPtr' = FALSE
        /\ Status' = "OUT_OF_RESOURCES"
        /\ pc' = "exit"
        /\ reallocFailed' = TRUE
        /\ UNCHANGED AllocatedCount
  /\ UNCHANGED <<callArgs, corruptMet>>

EndOfBuffer ==
  /\ pc = "loop" /\ ListIndex >= BufferSize
  /\ pc' = "check"
  /\ UNCHANGED <<callArgs, ListIndex, AllocatedCount, listPtr, firstName, kept, Status, heap,
                 walked, corruptMet, reallocFailed>>

\* Mutant: the name alone tells how the loop ended.
CheckFoundByName ==
  /\ pc = "check"
  /\ Status' = IF firstName = "set" THEN "SUCCESS" ELSE "NOT_FOUND"
  /\ pc' = IF Status' = "SUCCESS" THEN "done" ELSE "exit"
  /\ UNCHANGED <<callArgs, ListIndex, AllocatedCount, listPtr, firstName, kept, heap, walked,
                 corruptMet, reallocFailed>>

\* The test of the first Name after the loop; it may be memory nobody has written.
CheckFound ==
  /\ pc = "check"
  /\ \/ firstName \in {"uninit", "null"} /\ Status' = "NOT_FOUND"
     \/ firstName \in {"uninit", "set"} /\ UNCHANGED Status
  /\ pc' = IF Status' = "SUCCESS" THEN "done" ELSE "exit"
  /\ UNCHANGED <<callArgs, ListIndex, AllocatedCount, listPtr, firstName, kept, heap, walked,
                 corruptMet, reallocFailed>>

KeptMemory == {NameOf(kept[i]) : i \in DOMAIN kept} \union {DataOf(kept[i]) : i \in DOMAIN kept}

\* Mutant: the Data fields are forgotten.
FreedAtExitNamesOnly ==
  IF ~listPtr THEN {}
  ELSE {NameOf(kept[i]) : i \in DOMAIN kept}
         \union (IF caller = "retrieve" THEN {List} ELSE {})

\* What the error exit frees: nothing can be reached through a NULL list.
FreedAtExit ==
  IF ~listPtr THEN {}
  ELSE KeptMemory \union (IF caller = "retrieve" THEN {List} ELSE {})

ErrorExit ==
  /\ pc = "exit"
  /\ heap' = heap \ FreedAtExit
  /\ kept' = << >>
  /\ listPtr' = (listPtr /\ caller # "retrieve")
  /\ pc' = "done"
  /\ UNCHANGED <<callArgs, ListIndex, AllocatedCount, firstName, Status, walked, corruptMet,
                 reallocFailed>>

\* The caller frees what it was given.
CallerFrees ==
  /\ pc = "done"
  /\ heap' = IF Status = "SUCCESS" THEN heap \ (KeptMemory \union {List}) ELSE heap
  /\ kept' = << >>
  /\ listPtr' = FALSE
  /\ pc' = "idle"
  /\ UNCHANGED <<callArgs, ListIndex, AllocatedCount, firstName, Status, walked, corruptMet,
                 reallocFailed>>

ParseActiveConfigVarList ==
  \/ ConvertFails \/ SkipEntry \/ FoundEntry \/ AppendEntry \/ EndOfBuffer \/ CheckFound
  \/ ErrorExit

Next ==
  \/ RetrieveActiveConfigVarList
  \/ QuerySingleActiveConfigUnicodeVarList
  \/ QuerySingleActiveConfigAsciiVarList
  \/ ParseActiveConfigVarList
  \/ CallerFrees

Spec == Init /\ [][Next]_vars

-----------------------------------------------------------------------------

(***************************************************************************)
(* The entry a block is converted into exists: the array, which starts     *)
(* with one entry and is doubled when half full, always has room for the   *)
(* next one, and a query, which has one entry only, stops at its first     *)
(* match.                                                                  *)
(***************************************************************************)
SlotInBounds ==
  pc = "loop" => IF caller = "retrieve" THEN Len(kept) < AllocatedCount ELSE kept = << >>

(***************************************************************************)
(* No byte beyond the buffer is read: every block that was converted lies  *)
(* within it, whatever sizes its header claims, and so does the next index *)
(* of the walk.                                                            *)
(***************************************************************************)
ReadsInBounds ==
  /\ ListIndex <= BufferSize
  /\ \A i \in DOMAIN walked : Extent(walked[i]) <= BufferSize

(***************************************************************************)
(* What SUCCESS means.  RetrieveActiveConfigVarList: every block up to the *)
(* last byte of the buffer, in order.  A query: the first block that       *)
(* matches.  In both cases the Name and the Data of every entry returned   *)
(* are allocated.                                                          *)
(***************************************************************************)
SuccessIsComplete ==
  pc = "done" /\ Status = "SUCCESS" =>
    /\ KeptMemory \subseteq heap
    /\ IF caller = "retrieve"
       THEN /\ ListIndex = BufferSize
            /\ Len(kept) = Len(walked)
            /\ \A i \in DOMAIN kept : kept[i] = i
       ELSE /\ kept = <<Len(walked)>>
            /\ \A i \in DOMAIN walked :
                 Matches(walked[i], ConfigVarName) <=> i = Len(walked)

\* What the library holds besides the name copies of the ASCII query
Owned == heap \ {UniVarName}

(***************************************************************************)
(* An error leaves nothing allocated, and neither does a success once the  *)
(* caller has freed what it was given: at any block, after any number of   *)
(* entries, unless the array ever failed to grow.                          *)
(***************************************************************************)
LeakOnlyOnRealloc ==
  pc = "idle" \/ (pc = "done" /\ Status # "SUCCESS") => Owned = {} \/ reallocFailed

(***************************************************************************)
(* A block that does not fit the format is not taken for the end of the    *)
(* buffer: the call fails, and RetrieveActiveConfigVarList, once an entry  *)
(* was kept, does not say that there is none.  A query may say so, since   *)
(* the blocks before have set the first Name to NULL.                      *)
(***************************************************************************)
CorruptionIsReported ==
  pc = "done" /\ corruptMet =>
    /\ Status # "SUCCESS"
    /\ caller = "retrieve" /\ walked # << >> => Status # "NOT_FOUND"

(***************************************************************************)
(* Every turn of the loop moves the index forward, so that the walk ends:  *)
(* no header, an empty name with no data included, gives a size of zero.   *)
(***************************************************************************)
WalkAdvances == [][pc = "loop" /\ pc' = "loop" => ListIndex' > ListIndex]_vars
=============================================================================
