-------------------- MODULE ConfigVariableListLib_proofs --------------------
(***************************************************************************)
(* Proofs about the variable list parser: whatever the sizes, the names    *)
(* and the blocks, and wherever the pool is exhausted, the array is large  *)
(* enough, no byte beyond the buffer is read, the walk advances, and what  *)
(* is returned and what stays allocated is as it should be.                *)
(***************************************************************************)
EXTENDS ConfigVariableListLib, SequenceTheorems, TLAPS

(***************************************************************************)
(* Why the array is always large enough: while it is filled it has at      *)
(* least one entry and at least twice as many entries as are used.  A      *)
(* query never keeps an entry and goes on.                                 *)
(***************************************************************************)
Room ==
  pc = "loop" =>
    /\ caller = "retrieve" => AllocatedCount >= 1 /\ AllocatedCount >= 2 * Len(kept)
    /\ caller # "retrieve" => kept = << >>

\* The inductive invariant of the array and of the walk
IInv == TypeOK /\ Room /\ ReadsInBounds

(***************************************************************************)
(* What a conversion that succeeds tells about a block: it is as large as  *)
(* its header says, no overflow occurred, and it lies within what is left. *)
(***************************************************************************)
LEMMA ConvertedFits ==
  ASSUME NEW b \in Blocks, NEW LeftSize \in Nat, ConvertStatus(b, LeftSize) = "SUCCESS"
  PROVE  /\ Extent(b) \in Nat
         /\ Extent(b) > 0
         /\ Extent(b) <= LeftSize
         /\ GetVarListSize(b) = {Extent(b)}
<1>1. b.NameSize \in Nat /\ b.DataSize \in Nat
  BY BlocksAssumption DEF BlockType
<1>2. Extent(b) \in Nat /\ Extent(b) > 0
  BY <1>1, SizesAssumption DEF Extent
<1>3. /\ GetVarListSize(b) # {}
      /\ \A NeededSize \in GetVarListSize(b) : NeededSize <= LeftSize
  <2>1. \A NeededSize \in GetVarListSize(b) : NeededSize = Extent(b)
    BY DEF GetVarListSize
  <2>2. GetVarListSize(b) # {} /\ \A NeededSize \in GetVarListSize(b) : ~(NeededSize > LeftSize)
    BY DEF ConvertStatus
  <2> QED BY <1>2, <2>1, <2>2
<1>4. GetVarListSize(b) = {Extent(b)}
  BY <1>3 DEF GetVarListSize
<1> QED BY <1>2, <1>3, <1>4

(***************************************************************************)
(* One turn of the loop over a block that was converted, whatever is done  *)
(* with the entry: the index advances within the buffer.                   *)
(***************************************************************************)
LEMMA ConvertedAdvances ==
  ASSUME IInv, NEW b \in Blocks, Converted(b), ListIndex < BufferSize, BufferSize' = BufferSize
  PROVE  /\ ListIndex' \in Nat
         /\ ListIndex' > ListIndex
         /\ walked' \in Seq(Blocks)
         /\ ReadsInBounds'
<1>1. BufferSize - ListIndex \in Nat /\ ListIndex \in Nat /\ BufferSize \in Nat
  BY DEF IInv, TypeOK
<1>2. ConvertStatus(b, BufferSize - ListIndex) = "SUCCESS"
  BY DEF Converted
<1>3. /\ Extent(b) \in Nat /\ Extent(b) > 0 /\ Extent(b) <= BufferSize - ListIndex
      /\ GetVarListSize(b) = {Extent(b)}
  BY <1>1, <1>2, ConvertedFits
<1>4. ListIndex' = ListIndex + Extent(b)
  BY <1>3 DEF Converted
<1>5. walked' = Append(walked, b) /\ walked \in Seq(Blocks)
  BY DEF Converted, IInv, TypeOK
<1>6. walked' \in Seq(Blocks)
  BY <1>5
<1>7. ASSUME NEW i \in DOMAIN walked'
      PROVE  Extent(walked'[i]) <= BufferSize
  <2>1. CASE i \in DOMAIN walked
    <3>1. walked'[i] = walked[i]
      BY <1>5, <2>1
    <3>2. Extent(walked[i]) <= BufferSize
      BY <2>1 DEF IInv, ReadsInBounds
    <3> QED BY <3>1, <3>2
  <2>2. CASE i \notin DOMAIN walked
    <3>1. walked'[i] = b
      BY <1>5, <2>2
    <3> QED BY <1>1, <1>3, <3>1
  <2> QED BY <2>1, <2>2
<1>8. ReadsInBounds'
  <2>1. ListIndex' <= BufferSize'
    BY <1>1, <1>3, <1>4
  <2> QED BY <1>7, <2>1 DEF ReadsInBounds, Extent
<1> QED BY <1>1, <1>3, <1>4, <1>6, <1>8

\* The calls start with an empty array of one entry at the first byte of the buffer.
LEMMA CallsPreserve ==
  ASSUME IInv,
         \/ RetrieveActiveConfigVarList
         \/ QuerySingleActiveConfigUnicodeVarList
         \/ QuerySingleActiveConfigAsciiVarList
  PROVE  IInv'
<1> USE DEF Begin
<1>1. PICK size \in 0..MaxBufferSize, fn \in {"retrieve", "unicode", "ascii"},
           name \in Names \union {Nameless} : Begin(size, fn, name)
  BY DEF RetrieveActiveConfigVarList, QuerySingleActiveConfigUnicodeVarList,
         QuerySingleActiveConfigAsciiVarList
<1>2. size \in Nat
  BY SizesAssumption
<1>3. /\ pc' \in Pcs
      /\ Status' \in {"SUCCESS"} \union ParseErrors
  BY DEF RetrieveActiveConfigVarList, QuerySingleActiveConfigUnicodeVarList,
         QuerySingleActiveConfigAsciiVarList, Pcs, ParseErrors
<1>4. listPtr' \in BOOLEAN
  <2>1. listPtr' = TRUE \/ listPtr' = FALSE
    BY DEF RetrieveActiveConfigVarList, QuerySingleActiveConfigUnicodeVarList,
           QuerySingleActiveConfigAsciiVarList
  <2> QED BY <2>1, Zenon
<1>5. corruptMet' \in BOOLEAN /\ reallocFailed' \in BOOLEAN
  BY <1>1, Zenon DEF IInv, TypeOK
<1>6. TypeOK'
  BY <1>1, <1>2, <1>3, <1>4, <1>5 DEF TypeOK
<1>7. Room'
  BY <1>1 DEF Room
<1>8. ReadsInBounds'
  BY <1>1, <1>2 DEF ReadsInBounds
<1> QED BY <1>6, <1>7, <1>8 DEF IInv

\* A turn that skips a block or finds the one asked for.
LEMMA QueryTurnPreserves ==
  ASSUME IInv, SkipEntry \/ FoundEntry
  PROVE  IInv'
<1>1. PICK b \in Blocks : Converted(b)
  BY DEF SkipEntry, FoundEntry
<1>2. ListIndex < BufferSize /\ BufferSize' = BufferSize
  BY DEF SkipEntry, FoundEntry, callArgs
<1>3. ListIndex' \in Nat /\ walked' \in Seq(Blocks) /\ ReadsInBounds'
  BY <1>1, <1>2, ConvertedAdvances
<1>4. kept' \in Seq(Nat)
  <2>1. kept \in Seq(Nat) /\ Len(walked) + 1 \in Nat
    BY DEF IInv, TypeOK
  <2>2. kept' = kept \/ kept' = Append(kept, Len(walked) + 1)
    BY DEF SkipEntry, FoundEntry, Keep
  <2> QED BY <2>1, <2>2
<1>5. TypeOK'
  BY <1>3, <1>4 DEF SkipEntry, FoundEntry, Keep, callArgs, IInv, TypeOK, Pcs
<1>6. Room'
  BY DEF SkipEntry, FoundEntry, callArgs, IInv, Room
<1> QED BY <1>3, <1>5, <1>6 DEF IInv

\* A turn that appends: the array is doubled before less than half of it is free.
LEMMA AppendEntryPreserves ==
  ASSUME IInv, AppendEntry
  PROVE  IInv'
<1>1. PICK b \in Blocks : Converted(b)
  BY DEF AppendEntry
<1>2. ListIndex < BufferSize /\ BufferSize' = BufferSize
  BY DEF AppendEntry, callArgs
<1>3. ListIndex' \in Nat /\ walked' \in Seq(Blocks) /\ ReadsInBounds'
  BY <1>1, <1>2, ConvertedAdvances
<1>4. /\ kept \in Seq(Nat) /\ AllocatedCount \in Nat /\ walked \in Seq(Blocks)
      /\ kept' = Append(kept, Len(walked) + 1)
      /\ firstName' = "set"
  BY DEF AppendEntry, Keep, IInv, TypeOK
<1>5. /\ kept' \in Seq(Nat) /\ Len(kept') = Len(kept) + 1 /\ Len(kept) \in Nat
  BY <1>4
<1>6. AllocatedCount' \in Nat
  BY <1>4 DEF AppendEntry
<1>7. pc' \in Pcs /\ Status' \in {"SUCCESS"} \union ParseErrors
  BY DEF AppendEntry, IInv, TypeOK, Pcs, ParseErrors
<1>8. listPtr' \in BOOLEAN /\ reallocFailed' \in BOOLEAN /\ corruptMet' \in BOOLEAN
  BY Zenon DEF AppendEntry, IInv, TypeOK
<1>9. TypeOK'
  BY <1>3, <1>4, <1>5, <1>6, <1>7, <1>8 DEF AppendEntry, callArgs, IInv, TypeOK
<1>10. Room'
  <2>1. caller = "retrieve" /\ caller' = caller /\ pc = "loop"
    BY DEF AppendEntry, callArgs
  <2>2. AllocatedCount >= 1 /\ AllocatedCount >= 2 * Len(kept)
    BY <2>1 DEF IInv, Room
  <2>3. pc' = "loop" => \/ ~HalfFull(Len(kept) + 1) /\ AllocatedCount' = AllocatedCount
                        \/ AllocatedCount' = 2 * AllocatedCount
    BY DEF AppendEntry
  <2>4. pc' = "loop" => AllocatedCount' >= 1 /\ AllocatedCount' >= 2 * Len(kept')
    BY <1>4, <1>5, <2>2, <2>3 DEF HalfFull
  <2> QED BY <2>1, <2>4 DEF Room
<1> QED BY <1>3, <1>9, <1>10 DEF IInv

\* The ends of the loop, the exits and the caller leave the index and the walk alone.
LEMMA EndsPreserve ==
  ASSUME IInv, ConvertFails \/ EndOfBuffer \/ CheckFound \/ ErrorExit \/ CallerFrees
  PROVE  IInv'
<1> USE DEF ConvertFails, EndOfBuffer, CheckFound, ErrorExit, CallerFrees, callArgs
<1>1. ReadsInBounds'
  BY DEF IInv, ReadsInBounds, Extent
<1>2. pc' # "loop" /\ pc' \in Pcs
  BY DEF Pcs
<1>3. Status' \in {"SUCCESS"} \union ParseErrors
  BY DEF ConvertStatus, IInv, TypeOK, ParseErrors
<1>4. listPtr' \in BOOLEAN /\ corruptMet' \in BOOLEAN /\ reallocFailed' \in BOOLEAN
  BY Zenon DEF IInv, TypeOK
<1>5. kept' \in Seq(Nat)
  <2>1. kept' = kept \/ kept' = << >>
    OBVIOUS
  <2>2. kept \in Seq(Nat)
    BY DEF IInv, TypeOK
  <2>3. << >> \in Seq(Nat)
    BY EmptySeq
  <2> QED BY ONLY <2>1, <2>2, <2>3, Zenon
<1>6. TypeOK'
  BY <1>2, <1>3, <1>4, <1>5 DEF IInv, TypeOK
<1>7. Room'
  BY <1>2 DEF Room
<1> QED BY <1>1, <1>6, <1>7 DEF IInv

\* Every step, and every stuttering step, preserves the invariant.
LEMMA NextPreserves == IInv /\ [Next]_vars => IInv'
<1> SUFFICES ASSUME IInv, [Next]_vars PROVE IInv'
  OBVIOUS
<1>1. CASE RetrieveActiveConfigVarList \/ QuerySingleActiveConfigUnicodeVarList
             \/ QuerySingleActiveConfigAsciiVarList
  BY <1>1, CallsPreserve
<1>2. CASE SkipEntry \/ FoundEntry
  BY <1>2, QueryTurnPreserves
<1>3. CASE AppendEntry
  BY <1>3, AppendEntryPreserves
<1>4. CASE ConvertFails \/ EndOfBuffer \/ CheckFound \/ ErrorExit \/ CallerFrees
  BY <1>4, EndsPreserve
<1>5. CASE UNCHANGED vars
  BY <1>5 DEF vars, IInv, TypeOK, Room, ReadsInBounds, Extent
<1> QED BY <1>1, <1>2, <1>3, <1>4, <1>5 DEF Next, ParseActiveConfigVarList

\* Nothing has been parsed yet.
LEMMA InitEstablishes == Init => IInv
<1> SUFFICES ASSUME Init PROVE IInv
  OBVIOUS
<1>1. listPtr \in BOOLEAN /\ corruptMet \in BOOLEAN /\ reallocFailed \in BOOLEAN
  BY Zenon DEF Init
<1>2. TypeOK
  BY <1>1 DEF Init, TypeOK, Pcs, ParseErrors
<1> QED BY <1>2 DEF Init, IInv, Room, ReadsInBounds

(***************************************************************************)
(* The parser's variables keep their types in every reachable state, and   *)
(* the array and walk invariants hold with them.                           *)
(***************************************************************************)
THEOREM ParserInvariant == Spec => []IInv
BY InitEstablishes, NextPreserves, PTL DEF Spec

(***************************************************************************)
(* Type correctness of the parser, in particular that every status it      *)
(* returns is one its callers know.                                        *)
(***************************************************************************)
THEOREM TypeCorrect == Spec => []TypeOK
<1>1. IInv => TypeOK
  BY DEF IInv
<1> QED BY <1>1, ParserInvariant, PTL

(***************************************************************************)
(* Whatever the number of blocks, ConvertVariableListToVariableEntry is    *)
(* always given an entry inside the array (ConfigVariableListLib.c:371).   *)
(***************************************************************************)
THEOREM EntriesFit == Spec => []SlotInBounds
<1>1. IInv => SlotInBounds
  <2> SUFFICES ASSUME IInv, pc = "loop", caller = "retrieve" PROVE Len(kept) < AllocatedCount
    BY DEF IInv, Room, SlotInBounds
  <2>1. Len(kept) \in Nat /\ AllocatedCount \in Nat
    BY DEF IInv, TypeOK
  <2> QED BY <2>1 DEF IInv, Room
<1> QED BY <1>1, ParserInvariant, PTL

(***************************************************************************)
(* Whatever sizes the headers claim, also sizes whose sum overflows 32     *)
(* bits, no block that ends beyond the buffer is converted.                *)
(***************************************************************************)
THEOREM ParserReadsInBounds == Spec => []ReadsInBounds
<1>1. IInv => ReadsInBounds
  BY DEF IInv
<1> QED BY <1>1, ParserInvariant, PTL

(***************************************************************************)
(* Every turn of the loop advances the index: with ReadsInBounds, a walk   *)
(* has at most BufferSize turns.                                           *)
(***************************************************************************)
THEOREM ParserAdvances == Spec => WalkAdvances
<1>1. IInv /\ [Next]_vars => [pc = "loop" /\ pc' = "loop" => ListIndex' > ListIndex]_vars
  <2> SUFFICES ASSUME IInv, Next, pc = "loop", pc' = "loop" PROVE ListIndex' > ListIndex
    OBVIOUS
  <2>1. SkipEntry \/ AppendEntry
    BY DEF Next, ParseActiveConfigVarList, RetrieveActiveConfigVarList,
           QuerySingleActiveConfigUnicodeVarList, QuerySingleActiveConfigAsciiVarList,
           ConvertFails, FoundEntry, EndOfBuffer, CheckFound, ErrorExit, CallerFrees
  <2>2. PICK b \in Blocks : Converted(b)
    BY <2>1 DEF SkipEntry, AppendEntry
  <2>3. ListIndex < BufferSize /\ BufferSize' = BufferSize
    BY <2>1 DEF SkipEntry, AppendEntry, callArgs
  <2> QED BY <2>2, <2>3, ConvertedAdvances
<1> QED BY <1>1, ParserInvariant, PTL DEF Spec, WalkAdvances

-----------------------------------------------------------------------------
(***************************************************************************)
(* What the parser returns and what it leaves allocated: whatever the      *)
(* buffer and wherever the pool is exhausted, success is complete,         *)
(* corruption is reported, and an error leaves nothing behind unless the   *)
(* array failed to grow.                                                   *)
(***************************************************************************)

(***************************************************************************)
(* Which entries there are: all blocks, or the first that matches.  The    *)
(* state of the first Name tells how far the loop has come.                *)
(***************************************************************************)
Entries ==
  /\ pc \in {"loop", "check"} \/ (pc = "done" /\ Status = "SUCCESS") =>
       IF caller = "retrieve"
       THEN Len(kept) = Len(walked) /\ \A i \in DOMAIN kept : kept[i] = i
       ELSE /\ kept = << >> \/ kept = <<Len(walked)>>
            /\ \A i \in DOMAIN walked :
                 Matches(walked[i], ConfigVarName) <=> kept # << >> /\ i = Len(walked)
  /\ pc \in {"loop", "check"} =>
       /\ BufferSize > 0
       /\ firstName = "uninit" <=> walked = << >>
       /\ walked = << >> => ListIndex = 0
       /\ firstName = "set" <=> kept # << >>
       /\ caller = "retrieve" => firstName # "null"

(***************************************************************************)
(* How the call ends: a status of the loop other than success survives the *)
(* check, and success means that the loop came to an end of its own.       *)
(***************************************************************************)
Ending ==
  /\ pc = "idle" => kept = << >> /\ ~listPtr
  /\ pc = "loop" => Status = "SUCCESS" /\ ~corruptMet /\ listPtr
  /\ pc = "check" =>
       /\ listPtr /\ Status # "NOT_FOUND"
       /\ corruptMet => Status # "SUCCESS"
       /\ Status = "SUCCESS" => ListIndex >= BufferSize \/ (caller # "retrieve" /\ kept # << >>)
  /\ pc = "exit" =>
       /\ Status # "SUCCESS"
       /\ corruptMet /\ caller = "retrieve" /\ walked # << >> => Status # "NOT_FOUND"
       /\ ~listPtr => kept = << >> \/ reallocFailed
  /\ pc = "done" /\ Status = "SUCCESS" =>
       /\ ~corruptMet /\ kept # << >>
       /\ caller = "retrieve" => ListIndex >= BufferSize
  /\ pc = "done" /\ Status # "SUCCESS" => kept = << >> /\ ~(caller = "retrieve" /\ listPtr)

(***************************************************************************)
(* What is allocated: the entries that are kept and the array, as long as  *)
(* the parser has it, and nothing else until an array failed to grow.      *)
(***************************************************************************)
Held == KeptMemory \union (IF caller = "retrieve" /\ listPtr THEN {List} ELSE {})
Heap ==
  /\ KeptMemory \subseteq heap
  /\ reallocFailed \/ Owned = Held

\* The inductive invariant, on top of that of the array and the walk
MInv == IInv /\ Entries /\ Ending /\ Heap /\ CorruptionIsReported

-----------------------------------------------------------------------------
(* The allocations.                                                        *)

LEMMA NothingKept ==
  ASSUME kept = << >>
  PROVE  KeptMemory = {}
BY DEF KeptMemory

LEMMA OneMoreKept ==
  ASSUME kept \in Seq(Nat), Len(walked) \in Nat, kept' = Append(kept, Len(walked) + 1)
  PROVE  KeptMemory' = KeptMemory \union NewEntry
<1>1. /\ DOMAIN kept' = DOMAIN kept \union {Len(kept) + 1}
      /\ kept'[Len(kept) + 1] = Len(walked) + 1
      /\ \A i \in DOMAIN kept : kept'[i] = kept[i]
  OBVIOUS
<1> QED BY <1>1 DEF KeptMemory, NewEntry

\* The memory of an entry is not the copy of a name.
LEMMA EntriesAreOwned ==
  \A i, j : NameOf(i) # UniVarName /\ DataOf(i) # UniVarName /\ List # UniVarName
           /\ NameOf(i) # List /\ DataOf(i) # List
BY DEF NameOf, DataOf, UniVarName, List

-----------------------------------------------------------------------------
\* Before the first call
LEMMA MInitEstablishes == Init => MInv
<1> SUFFICES ASSUME Init PROVE MInv
  OBVIOUS
<1>1. IInv
  BY InitEstablishes
<1>2. Entries /\ CorruptionIsReported
  BY DEF Init, Entries, CorruptionIsReported
<1>3. Ending
  BY DEF Init, Ending
<1>4. Heap
  <2>1. kept = << >> /\ heap = {} /\ listPtr = FALSE
    BY DEF Init
  <2>2. KeptMemory = {}
    BY <2>1, NothingKept
  <2> QED BY <2>1, <2>2 DEF Heap, Owned, Held
<1> QED BY <1>1, <1>2, <1>3, <1>4 DEF MInv

(***************************************************************************)
(* A call starts with an empty array.                                      *)
(***************************************************************************)
LEMMA CallStarts ==
  ASSUME MInv, IInv',
         RetrieveActiveConfigVarList \/ QuerySingleActiveConfigUnicodeVarList
           \/ QuerySingleActiveConfigAsciiVarList
  PROVE  MInv'
<1>1. /\ kept' = << >> /\ walked' = << >> /\ firstName' = "uninit" /\ ListIndex' = 0
      /\ BufferSize' \in 0..MaxBufferSize
  BY DEF RetrieveActiveConfigVarList, QuerySingleActiveConfigUnicodeVarList,
         QuerySingleActiveConfigAsciiVarList, Begin
<1>2. ~corruptMet'
  BY DEF RetrieveActiveConfigVarList, QuerySingleActiveConfigUnicodeVarList,
         QuerySingleActiveConfigAsciiVarList, Begin
<1>3. reallocFailed' = reallocFailed
  BY DEF RetrieveActiveConfigVarList, QuerySingleActiveConfigUnicodeVarList,
         QuerySingleActiveConfigAsciiVarList, Begin
<1>4. \/ /\ pc' = "loop" /\ BufferSize' # 0 /\ Status' = "SUCCESS"
      \/ pc' \in {"exit", "done"} /\ Status' # "SUCCESS"
  BY DEF RetrieveActiveConfigVarList, QuerySingleActiveConfigUnicodeVarList,
         QuerySingleActiveConfigAsciiVarList, Begin
<1>5. /\ pc' = "loop" => listPtr'
      /\ pc' = "done" => caller' = "ascii"
  <2>1. CASE RetrieveActiveConfigVarList
    <3>1. PICK size \in 0..MaxBufferSize, pool \in BOOLEAN :
            /\ listPtr' = (size > 0 /\ pool)
            /\ pc' = IF size > 0 /\ pool THEN "loop" ELSE "exit"
      BY <2>1 DEF RetrieveActiveConfigVarList
    <3> QED BY <3>1
  <2>2. CASE QuerySingleActiveConfigUnicodeVarList
    <3>1. PICK size \in 0..MaxBufferSize :
            listPtr' = (size > 0) /\ pc' = IF size = 0 THEN "exit" ELSE "loop"
      BY <2>2 DEF QuerySingleActiveConfigUnicodeVarList
    <3>2. CASE size = 0
      BY <3>1, <3>2
    <3>3. CASE size # 0
      <4>1. size > 0
        BY <3>3, SizesAssumption
      <4> QED BY <3>1, <3>3, <4>1
    <3> QED BY <3>2, <3>3
  <2>3. CASE QuerySingleActiveConfigAsciiVarList
    <3>1. PICK size \in 0..MaxBufferSize, pool \in BOOLEAN :
            /\ caller' = "ascii" /\ listPtr' = (size > 0)
            /\ pc' = IF ~pool THEN "done" ELSE IF size = 0 THEN "exit" ELSE "loop"
      BY <2>3 DEF QuerySingleActiveConfigAsciiVarList, Begin
    <3> QED BY <3>1, SizesAssumption
  <2> QED BY <2>1, <2>2, <2>3
<1>6. Entries'
  <2>1. DOMAIN walked' = {} /\ DOMAIN kept' = {} /\ Len(walked') = 0 /\ Len(kept') = 0
    BY <1>1
  <2>2. pc' = "loop" => BufferSize' > 0
    BY <1>1, <1>4, SizesAssumption
  <2> QED BY <1>1, <1>4, <2>1, <2>2 DEF Entries
<1>7. Ending'
  BY <1>1, <1>2, <1>4, <1>5 DEF Ending
<1>8. CorruptionIsReported'
  BY <1>2 DEF CorruptionIsReported
<1>9. Heap'
  <2>1. kept = << >> /\ ~listPtr
    BY DEF RetrieveActiveConfigVarList, QuerySingleActiveConfigUnicodeVarList,
           QuerySingleActiveConfigAsciiVarList, MInv, Ending
  <2>2. KeptMemory = {} /\ KeptMemory' = {}
    BY <1>1, <2>1, NothingKept DEF KeptMemory
  <2>3. reallocFailed \/ Owned = {}
    BY <2>1, <2>2 DEF MInv, Heap, Held
  <2>4. Owned' = Owned \union (IF caller' = "retrieve" /\ listPtr' THEN {List} ELSE {})
    <3>1. CASE RetrieveActiveConfigVarList
      BY <3>1, EntriesAreOwned DEF RetrieveActiveConfigVarList, Begin, Owned
    <3>2. CASE QuerySingleActiveConfigUnicodeVarList
      BY <3>2 DEF QuerySingleActiveConfigUnicodeVarList, Begin, Owned
    <3>3. CASE QuerySingleActiveConfigAsciiVarList
      BY <3>3 DEF QuerySingleActiveConfigAsciiVarList, Begin, Owned
    <3> QED BY <3>1, <3>2, <3>3
  <2>5. reallocFailed' \/ Owned' = Held'
    BY <1>3, <2>2, <2>3, <2>4 DEF Held
  <2> QED BY <2>2, <2>5 DEF Heap
<1> QED BY <1>6, <1>7, <1>8, <1>9 DEF MInv

-----------------------------------------------------------------------------
(***************************************************************************)
(* One turn of the loop                                                    *)
(***************************************************************************)
LEMMA TurnWalks ==
  ASSUME MInv, NEW b \in Blocks, Converted(b), ListIndex < BufferSize
  PROVE  /\ walked \in Seq(Blocks) /\ kept \in Seq(Nat) /\ Len(walked) \in Nat
         /\ walked' = Append(walked, b) /\ walked' # << >>
         /\ Len(walked') = Len(walked) + 1
         /\ DOMAIN walked' = DOMAIN walked \union {Len(walked) + 1}
         /\ walked'[Len(walked) + 1] = b
         /\ \A i \in DOMAIN walked : walked'[i] = walked[i] /\ i # Len(walked) + 1
<1>1. walked' = Append(walked, b) /\ walked \in Seq(Blocks) /\ kept \in Seq(Nat)
  BY DEF Converted, MInv, IInv, TypeOK
<1> QED BY <1>1

LEMMA SkipEntryStep ==
  ASSUME MInv, IInv', SkipEntry
  PROVE  MInv'
<1>1. PICK b \in Blocks : Converted(b) /\ ~Matches(b, ConfigVarName)
  BY DEF SkipEntry
<1>2. /\ pc = "loop" /\ pc' = "loop" /\ caller # "retrieve" /\ caller' = caller
      /\ ConfigVarName' = ConfigVarName /\ BufferSize' = BufferSize /\ ListIndex < BufferSize
      /\ kept' = kept /\ firstName' = "null" /\ Status' = Status /\ heap' = heap
  BY DEF SkipEntry, callArgs
<1>3. corruptMet' = corruptMet /\ listPtr' = listPtr /\ reallocFailed' = reallocFailed
  BY DEF SkipEntry
<1>4. kept = << >>
  BY <1>2 DEF MInv, IInv, Room
<1>5. /\ walked' # << >> /\ DOMAIN walked' = DOMAIN walked \union {Len(walked) + 1}
      /\ walked'[Len(walked) + 1] = b
      /\ \A i \in DOMAIN walked : walked'[i] = walked[i]
  BY <1>1, <1>2, TurnWalks
<1>6. Entries'
  <2>1. \A i \in DOMAIN walked : ~Matches(walked[i], ConfigVarName)
    BY <1>2, <1>4 DEF MInv, Entries
  <2>2. \A i \in DOMAIN walked' : ~Matches(walked'[i], ConfigVarName)
    BY <1>1, <1>5, <2>1
  <2>3. BufferSize > 0
    BY <1>2 DEF MInv, Entries
  <2> QED BY <1>2, <1>4, <1>5, <2>2, <2>3 DEF Entries, Matches
<1>7. Ending'
  BY <1>2, <1>3, <1>4 DEF MInv, Ending
<1>8. CorruptionIsReported'
  BY <1>2 DEF CorruptionIsReported
<1>9. Heap'
  <2>1. KeptMemory' = KeptMemory /\ Owned' = Owned /\ Held' = Held
    BY <1>2, <1>3 DEF KeptMemory, Owned, Held
  <2> QED BY <1>2, <1>3, <2>1 DEF MInv, Heap
<1> QED BY <1>6, <1>7, <1>8, <1>9 DEF MInv

(***************************************************************************)
(* An entry is kept: what is allocated for it is accounted for.            *)
(***************************************************************************)
LEMMA KeepAccounts ==
  ASSUME MInv, Keep, Len(walked) \in Nat, heap' = heap \union NewEntry,
         caller' = caller, reallocFailed' \/ (~reallocFailed /\ listPtr' = listPtr)
  PROVE  Heap'
<1>1. kept \in Seq(Nat) /\ kept' = Append(kept, Len(walked) + 1)
  BY DEF MInv, IInv, TypeOK, Keep
<1>2. KeptMemory' = KeptMemory \union NewEntry
  BY <1>1, OneMoreKept
<1>3. Owned' = Owned \union NewEntry
  BY EntriesAreOwned DEF Owned, NewEntry
<1>4. KeptMemory' \subseteq heap'
  BY <1>2 DEF MInv, Heap
<1>5. CASE reallocFailed'
  BY <1>4, <1>5 DEF Heap
<1>6. CASE ~reallocFailed /\ listPtr' = listPtr
  <2>1. Owned = Held
    BY <1>6 DEF MInv, Heap
  <2>2. Held' = Held \union NewEntry
    BY <1>2, <1>6 DEF Held
  <2> QED BY <1>3, <1>4, <2>1, <2>2 DEF Heap
<1> QED BY <1>5, <1>6

LEMMA FoundEntryStep ==
  ASSUME MInv, IInv', FoundEntry
  PROVE  MInv'
<1>1. PICK b \in Blocks : Converted(b) /\ Matches(b, ConfigVarName)
  BY DEF FoundEntry
<1>2. /\ pc = "loop" /\ pc' = "check" /\ caller # "retrieve" /\ caller' = caller
      /\ ConfigVarName' = ConfigVarName /\ BufferSize' = BufferSize /\ ListIndex < BufferSize
      /\ kept' = Append(kept, Len(walked) + 1) /\ firstName' = "set" /\ Status' = Status
      /\ heap' = heap \union NewEntry /\ Keep
  BY DEF FoundEntry, callArgs, Keep
<1>3. corruptMet' = corruptMet /\ listPtr' = listPtr /\ reallocFailed' = reallocFailed
  BY DEF FoundEntry
<1>4. kept = << >>
  BY <1>2 DEF MInv, IInv, Room
<1>5. /\ walked' # << >> /\ DOMAIN walked' = DOMAIN walked \union {Len(walked) + 1}
      /\ walked'[Len(walked) + 1] = b /\ Len(walked') = Len(walked) + 1 /\ Len(walked) \in Nat
      /\ \A i \in DOMAIN walked : walked'[i] = walked[i] /\ i # Len(walked) + 1
  BY <1>1, <1>2, TurnWalks
<1>6. kept' = <<Len(walked')>> /\ kept' # << >>
  BY <1>2, <1>4, <1>5
<1>7. Entries'
  <2>1. \A i \in DOMAIN walked : ~Matches(walked[i], ConfigVarName)
    BY <1>2, <1>4 DEF MInv, Entries
  <2>2. \A i \in DOMAIN walked' : Matches(walked'[i], ConfigVarName) <=> i = Len(walked')
    BY <1>1, <1>5, <2>1
  <2>3. BufferSize > 0
    BY <1>2 DEF MInv, Entries
  <2> QED BY <1>2, <1>5, <1>6, <2>2, <2>3 DEF Entries, Matches
<1>8. Ending'
  BY <1>2, <1>3, <1>6 DEF MInv, Ending
<1>9. CorruptionIsReported'
  BY <1>2 DEF CorruptionIsReported
<1>10. Heap'
  BY <1>2, <1>3, <1>5, KeepAccounts
<1> QED BY <1>7, <1>8, <1>9, <1>10 DEF MInv

LEMMA AppendEntryStep ==
  ASSUME MInv, IInv', AppendEntry
  PROVE  MInv'
<1>1. PICK b \in Blocks : Converted(b)
  BY DEF AppendEntry
<1>2. /\ pc = "loop" /\ caller = "retrieve" /\ caller' = caller
      /\ BufferSize' = BufferSize /\ ListIndex < BufferSize
      /\ kept' = Append(kept, Len(walked) + 1) /\ firstName' = "set"
      /\ heap' = heap \union NewEntry /\ Keep
  BY DEF AppendEntry, callArgs, Keep
<1>3. corruptMet' = corruptMet
  BY DEF AppendEntry
<1>4. \/ pc' = "loop" /\ Status' = Status /\ listPtr' = listPtr /\ reallocFailed' = reallocFailed
      \/ pc' = "exit" /\ Status' = "OUT_OF_RESOURCES" /\ reallocFailed'
  BY <1>2 DEF AppendEntry
<1>5. ~corruptMet /\ Status = "SUCCESS" /\ listPtr
  BY <1>2 DEF MInv, Ending
<1>6. /\ walked' # << >> /\ Len(walked') = Len(walked) + 1 /\ Len(walked) \in Nat
      /\ kept \in Seq(Nat)
  BY <1>1, <1>2, TurnWalks
<1>7. Len(kept) = Len(walked) /\ \A i \in DOMAIN kept : kept[i] = i
  BY <1>2 DEF MInv, Entries
<1>8. Len(kept') = Len(walked') /\ kept' # << >> /\ \A i \in DOMAIN kept' : kept'[i] = i
  BY <1>2, <1>6, <1>7
<1>9. Entries'
  <2>1. BufferSize > 0
    BY <1>2 DEF MInv, Entries
  <2> QED BY <1>2, <1>4, <1>6, <1>8, <2>1 DEF Entries
<1>10. Ending'
  BY <1>3, <1>4, <1>5 DEF Ending
<1>11. CorruptionIsReported'
  BY <1>4 DEF CorruptionIsReported
<1>12. Heap'
  BY <1>2, <1>4, <1>6, KeepAccounts
<1> QED BY <1>9, <1>10, <1>11, <1>12 DEF MInv

-----------------------------------------------------------------------------
(***************************************************************************)
(* The ends of the loop                                                    *)
(***************************************************************************)
LEMMA LoopEnds ==
  ASSUME MInv, IInv', ConvertFails \/ EndOfBuffer
  PROVE  MInv'
<1>1. /\ pc = "loop" /\ pc' = "check" /\ caller' = caller /\ ConfigVarName' = ConfigVarName
      /\ BufferSize' = BufferSize /\ ListIndex' = ListIndex /\ firstName' = firstName
      /\ kept' = kept /\ heap' = heap /\ walked' = walked
  BY DEF ConvertFails, EndOfBuffer, callArgs
<1>2. listPtr' = listPtr /\ reallocFailed' = reallocFailed
  BY DEF ConvertFails, EndOfBuffer
<1>3. \/ Status' \in {"BUFFER_TOO_SMALL", "COMPROMISED_DATA", "OUT_OF_RESOURCES"}
      \/ ListIndex >= BufferSize /\ Status' = Status /\ corruptMet' = corruptMet
  BY DEF ConvertFails, EndOfBuffer, ConvertStatus
<1>4. Entries'
  BY <1>1 DEF MInv, Entries, Matches
<1>5. Ending'
  BY <1>1, <1>2, <1>3 DEF MInv, Ending
<1>6. CorruptionIsReported'
  BY <1>1 DEF CorruptionIsReported
<1>7. Heap'
  <2>1. KeptMemory' = KeptMemory /\ Owned' = Owned /\ Held' = Held
    BY <1>1, <1>2 DEF KeptMemory, Owned, Held
  <2> QED BY <1>1, <1>2, <2>1 DEF MInv, Heap
<1> QED BY <1>4, <1>5, <1>6, <1>7 DEF MInv

LEMMA CheckFoundStep ==
  ASSUME MInv, IInv', CheckFound
  PROVE  MInv'
<1>1. /\ pc = "check" /\ pc' = (IF Status' = "SUCCESS" THEN "done" ELSE "exit")
      /\ caller' = caller /\ ConfigVarName' = ConfigVarName
      /\ BufferSize' = BufferSize /\ ListIndex' = ListIndex
      /\ kept' = kept /\ heap' = heap /\ walked' = walked
  BY DEF CheckFound, callArgs
<1>2. listPtr' = listPtr /\ reallocFailed' = reallocFailed /\ corruptMet' = corruptMet
  BY DEF CheckFound
<1>3. \/ firstName \in {"uninit", "null"} /\ Status' = "NOT_FOUND"
      \/ firstName \in {"uninit", "set"} /\ Status' = Status
  BY DEF CheckFound
<1>4. /\ BufferSize > 0 /\ (firstName = "uninit" <=> walked = << >>)
      /\ (walked = << >> => ListIndex = 0) /\ (firstName = "set" <=> kept # << >>)
      /\ (caller = "retrieve" => firstName # "null")
  BY <1>1 DEF MInv, Entries
<1>5. /\ listPtr /\ Status # "NOT_FOUND" /\ (corruptMet => Status # "SUCCESS")
      /\ Status = "SUCCESS" => ListIndex >= BufferSize \/ (caller # "retrieve" /\ kept # << >>)
  BY <1>1 DEF MInv, Ending
<1>6. ListIndex \in Nat /\ BufferSize \in Nat
  BY DEF MInv, IInv, TypeOK
<1>7. Status' = "SUCCESS" => Status = "SUCCESS" /\ kept # << >>
  BY <1>3, <1>4, <1>5, <1>6
<1>8. Entries'
  BY <1>1 DEF MInv, Entries, Matches
<1>9. Ending'
  BY <1>1, <1>2, <1>3, <1>4, <1>5, <1>7 DEF Ending
<1>10. CorruptionIsReported'
  BY <1>1, <1>2, <1>5, <1>7 DEF CorruptionIsReported
<1>11. Heap'
  <2>1. KeptMemory' = KeptMemory /\ Owned' = Owned /\ Held' = Held
    BY <1>1, <1>2 DEF KeptMemory, Owned, Held
  <2> QED BY <1>1, <1>2, <2>1 DEF MInv, Heap
<1> QED BY <1>8, <1>9, <1>10, <1>11 DEF MInv

(***************************************************************************)
(* The error exit frees what the list leads to: all of it, unless the list *)
(* is gone because it failed to grow.                                      *)
(***************************************************************************)
LEMMA ErrorExitStep ==
  ASSUME MInv, IInv', ErrorExit
  PROVE  MInv'
<1>1. /\ pc = "exit" /\ pc' = "done" /\ caller' = caller /\ kept' = << >> /\ walked' = walked
      /\ Status' = Status /\ heap' = heap \ FreedAtExit
  BY DEF ErrorExit, callArgs
<1>2. reallocFailed' = reallocFailed /\ corruptMet' = corruptMet
  BY DEF ErrorExit
<1>3. ~(caller = "retrieve" /\ listPtr')
  BY DEF ErrorExit
<1>4. /\ Status # "SUCCESS"
      /\ corruptMet /\ caller = "retrieve" /\ walked # << >> => Status # "NOT_FOUND"
      /\ ~listPtr => kept = << >> \/ reallocFailed
  BY <1>1 DEF MInv, Ending
<1>5. Entries' /\ CorruptionIsReported' /\ Ending'
  BY <1>1, <1>2, <1>3, <1>4 DEF Entries, CorruptionIsReported, Ending
<1>6. KeptMemory' = {}
  BY <1>1 DEF KeptMemory
<1>7. Held' = {}
  BY <1>1, <1>3, <1>6 DEF Held
<1>8. ASSUME ~reallocFailed
      PROVE  Owned' = {}
  <2>1. Owned = Held
    BY <1>8 DEF MInv, Heap
  <2>2. CASE listPtr
    BY <1>1, <2>1, <2>2 DEF Owned, Held, FreedAtExit
  <2>3. CASE ~listPtr
    <3>1. Owned = {}
      BY <1>4, <1>8, <2>1, <2>3, NothingKept DEF Held
    <3> QED BY <1>1, <3>1 DEF Owned
  <2> QED BY <2>2, <2>3
<1>9. Heap'
  BY <1>2, <1>6, <1>7, <1>8 DEF Heap
<1> QED BY <1>5, <1>9 DEF MInv

(***************************************************************************)
(* The caller frees what a success has given it.                           *)
(***************************************************************************)
LEMMA CallerFreesStep ==
  ASSUME MInv, IInv', CallerFrees
  PROVE  MInv'
<1>1. /\ pc = "done" /\ pc' = "idle" /\ kept' = << >> /\ caller' = caller
      /\ heap' = (IF Status = "SUCCESS" THEN heap \ (KeptMemory \union {List}) ELSE heap)
  BY DEF CallerFrees, callArgs
<1>2. reallocFailed' = reallocFailed
  BY DEF CallerFrees
<1>3. ~listPtr'
  BY DEF CallerFrees
<1>4. Entries' /\ Ending' /\ CorruptionIsReported'
  BY <1>1, <1>3 DEF Entries, Ending, CorruptionIsReported
<1>5. KeptMemory' = {} /\ Held' = {}
  BY <1>1, <1>3 DEF KeptMemory, Held
<1>6. ASSUME ~reallocFailed
      PROVE  Owned' = {}
  <2>1. Owned = Held
    BY <1>6 DEF MInv, Heap
  <2>2. CASE Status = "SUCCESS"
    BY <1>1, <2>1, <2>2 DEF Owned, Held
  <2>3. CASE Status # "SUCCESS"
    <3>1. kept = << >> /\ ~(caller = "retrieve" /\ listPtr)
      BY <1>1, <2>3 DEF MInv, Ending
    <3>2. Held = {}
      BY <3>1, NothingKept DEF Held
    <3> QED BY <1>1, <2>1, <2>3, <3>2 DEF Owned
  <2> QED BY <2>2, <2>3
<1>7. Heap'
  BY <1>2, <1>5, <1>6 DEF Heap
<1> QED BY <1>4, <1>7 DEF MInv

-----------------------------------------------------------------------------
\* Every step, and every stuttering step, keeps the invariant.
LEMMA MNextPreserves == MInv /\ [Next]_vars => MInv'
<1> SUFFICES ASSUME MInv, [Next]_vars PROVE MInv'
  OBVIOUS
<1>1. IInv'
  BY NextPreserves DEF MInv
<1>2. CASE UNCHANGED vars
  <2>1. /\ pc' = pc /\ caller' = caller /\ ConfigVarName' = ConfigVarName /\ BufferSize' = BufferSize
        /\ ListIndex' = ListIndex /\ firstName' = firstName /\ kept' = kept /\ Status' = Status
        /\ heap' = heap /\ walked' = walked
    BY <1>2 DEF vars
  <2>2. listPtr' = listPtr /\ corruptMet' = corruptMet /\ reallocFailed' = reallocFailed
    BY <1>2 DEF vars
  <2>3. Entries' /\ Ending' /\ CorruptionIsReported'
    BY <2>1, <2>2 DEF MInv, Entries, Matches, Ending, CorruptionIsReported
  <2>4. Heap'
    BY <2>1, <2>2 DEF MInv, Heap, KeptMemory, Owned, Held
  <2> QED BY <1>1, <2>3, <2>4 DEF MInv
<1> QED BY <1>1, <1>2, CallStarts, SkipEntryStep, FoundEntryStep, AppendEntryStep, LoopEnds,
           CheckFoundStep, ErrorExitStep, CallerFreesStep DEF Next, ParseActiveConfigVarList

LEMMA MInvariance == Spec => []MInv
BY MInitEstablishes, MNextPreserves, PTL DEF Spec

(***************************************************************************)
(* EFI_SUCCESS from RetrieveActiveConfigVarList means every block up to    *)
(* the last byte, from a query the first block that matches, with all the  *)
(* memory of what is returned, for buffers with any blocks.                *)
(***************************************************************************)
THEOREM SuccessIsWhole == Spec => []SuccessIsComplete
<1>1. MInv => SuccessIsComplete
  <2> SUFFICES ASSUME MInv, pc = "done", Status = "SUCCESS" PROVE SuccessIsComplete
    BY DEF SuccessIsComplete
  <2>1. KeptMemory \subseteq heap /\ kept # << >>
    BY DEF MInv, Heap, Ending
  <2>2. ASSUME caller = "retrieve"
        PROVE  ListIndex = BufferSize
    <3>1. ListIndex >= BufferSize /\ ListIndex <= BufferSize /\ ListIndex \in Nat /\ BufferSize \in Nat
      BY <2>2 DEF MInv, Ending, IInv, ReadsInBounds, TypeOK
    <3> QED BY <3>1
  <2> QED BY <2>1, <2>2 DEF MInv, Entries, SuccessIsComplete
<1> QED BY <1>1, MInvariance, PTL

(***************************************************************************)
(* Whichever allocation fails, nothing stays allocated after an error, or  *)
(* after the caller has freed what it was given, but for the array that    *)
(* failed to grow (ConfigVariableListLib.c:402).                           *)
(***************************************************************************)
THEOREM LeaksOnlyOnRealloc == Spec => []LeakOnlyOnRealloc
<1>1. MInv => LeakOnlyOnRealloc
  <2> SUFFICES ASSUME MInv, pc = "idle" \/ (pc = "done" /\ Status # "SUCCESS"), ~reallocFailed
               PROVE  Owned = {}
    BY DEF LeakOnlyOnRealloc
  <2>1. kept = << >> /\ ~(caller = "retrieve" /\ listPtr)
    BY DEF MInv, Ending
  <2>2. Held = {}
    BY <2>1, NothingKept DEF Held
  <2> QED BY <2>2 DEF MInv, Heap
<1> QED BY <1>1, MInvariance, PTL

(***************************************************************************)
(* A block that does not fit the format makes the call fail, and the       *)
(* retrieval does not call it an empty list once it has kept an entry.     *)
(***************************************************************************)
THEOREM CorruptionIsAlwaysReported == Spec => []CorruptionIsReported
<1>1. MInv => CorruptionIsReported
  BY DEF MInv
<1> QED BY <1>1, MInvariance, PTL
=============================================================================
