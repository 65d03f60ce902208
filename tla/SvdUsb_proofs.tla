----------------------------- MODULE SvdUsb_proofs -----------------------------
(***************************************************************************)
(* Proofs about the search for the SVD file: for any number of drives and  *)
(* every way they fail, nothing is left open or allocated, and success     *)
(* comes with the file of the first drive that could be read.              *)
(***************************************************************************)
EXTENDS SvdUsb, SequenceTheorems, TLAPS

(***************************************************************************)
(* Between the drives nothing is open and no buffer is held; the buffer    *)
(* has data only after the file was read, and then the search is over.     *)
(***************************************************************************)
Held ==
  /\ pc \in {"call", "loop", "done"} => open = {}
  /\ pc \in {"call", "done"} => "handles" \notin pool
  /\ pc \in {"volume", "file", "read"} => Index < NumHandles
  /\ pc = "read" => "buffer" \in pool
  /\ "buffer" \in pool => pc = "read" \/ Buffer = "data"
  /\ Buffer = "data" => pc = "done" /\ "buffer" \in pool /\ Status = "SUCCESS"

(***************************************************************************)
(* What Status says of the drives that were tried: SUCCESS between two     *)
(* drives is left over from a file without info, or from the call itself.  *)
(***************************************************************************)
NoneRead == \A i \in DOMAIN outcomes : outcomes[i] # "read"
LeftOver == Silent(1) \/ \E i \in DOMAIN outcomes : outcomes[i] = "noInfo" /\ Silent(i + 1)
Told ==
  /\ pc # "done" => NoneRead
  /\ pc = "loop" /\ Status = "SUCCESS" => LeftOver
  /\ pc = "call" => Status = "SUCCESS" /\ outcomes = << >>

\* The inductive invariant
IInv == TypeOK /\ Held /\ Told /\ SuccessHasFile

(***************************************************************************)
(* A drive is left: what is known of the drives before it stays.           *)
(***************************************************************************)
LEMMA OneMore ==
  ASSUME outcomes \in Seq(Outcomes), NEW o \in Outcomes, outcomes' = Append(outcomes, o)
  PROVE  /\ outcomes' \in Seq(Outcomes)
         /\ Len(outcomes') = Len(outcomes) + 1 /\ Len(outcomes) \in Nat
         /\ DOMAIN outcomes = 1..Len(outcomes)
         /\ DOMAIN outcomes' = 1..Len(outcomes')
         /\ outcomes'[Len(outcomes')] = o
         /\ \A i \in 1..Len(outcomes) : outcomes'[i] = outcomes[i]
         /\ NoneRead /\ o # "read" => NoneRead'
         /\ LeftOver /\ o = "noPath" => LeftOver'
         /\ o = "noInfo" => LeftOver'
<1>1. /\ outcomes' \in Seq(Outcomes)
      /\ Len(outcomes') = Len(outcomes) + 1 /\ Len(outcomes) \in Nat
      /\ DOMAIN outcomes = 1..Len(outcomes)
      /\ DOMAIN outcomes' = 1..Len(outcomes')
      /\ outcomes'[Len(outcomes')] = o
      /\ \A i \in 1..Len(outcomes) : outcomes'[i] = outcomes[i]
  OBVIOUS
<1>2. NoneRead /\ o # "read" => NoneRead'
  BY <1>1 DEF NoneRead
<1>3. ASSUME NEW from \in Nat \ {0}, Silent(from), o = "noPath"
      PROVE  Silent(from)'
  BY <1>1, <1>3 DEF Silent
<1>4. LeftOver /\ o = "noPath" => LeftOver'
  <2>1. CASE Silent(1)
    BY <1>3, <2>1 DEF LeftOver
  <2>2. ASSUME NEW i \in DOMAIN outcomes, outcomes[i] = "noInfo", Silent(i + 1), o = "noPath"
        PROVE  LeftOver'
    <3>1. i + 1 \in Nat \ {0} /\ i \in DOMAIN outcomes' /\ outcomes'[i] = "noInfo"
      BY <1>1, <2>2
    <3>2. Silent(i + 1)'
      BY <1>3, <2>2, <3>1
    <3> QED BY <3>1, <3>2 DEF LeftOver
  <2> QED BY <2>1, <2>2 DEF LeftOver
<1>5. o = "noInfo" => LeftOver'
  <2>1. Silent(Len(outcomes) + 1)'
    BY <1>1 DEF Silent
  <2>2. Len(outcomes') \in DOMAIN outcomes'
    BY <1>1
  <2> QED BY <1>1, <2>1, <2>2 DEF LeftOver
<1> QED BY <1>1, <1>2, <1>4, <1>5

-----------------------------------------------------------------------------
(***************************************************************************)
(* No drive has been tried.                                                *)
(***************************************************************************)
LEMMA InitIInv == Init => IInv
<1> SUFFICES ASSUME Init PROVE IInv
  OBVIOUS
<1>1. TypeOK
  BY HandlesAssumption DEF Init, TypeOK
<1>2. Held
  BY DEF Init, Held
<1>3. Told /\ SuccessHasFile
  BY DEF Init, Told, NoneRead, SuccessHasFile
<1> QED BY <1>1, <1>2, <1>3 DEF IInv

(***************************************************************************)
(* The search goes on to the next drive.                                   *)
(***************************************************************************)
LEMMA Continues ==
  ASSUME IInv, NEW o \in Outcomes \ {"read"}, NextDrive(o), pc \in {"loop", "volume", "file", "read"},
         Index < NumHandles, NumHandles' = NumHandles, open' = {},
         Status' \in {"SUCCESS"} \union UsbErrors,
         pool' \subseteq {"handles", "info"}, Buffer' \in {"unset", "null", "space"},
         Status' = "SUCCESS" => o = "noInfo" \/ (o = "noPath" /\ pc = "loop" /\ Status = "SUCCESS")
  PROVE  IInv'
<1>1. /\ pc' = "loop" /\ Index' = Index + 1 /\ outcomes' = Append(outcomes, o)
      /\ outcomes \in Seq(Outcomes)
  BY DEF NextDrive, IInv, TypeOK
<1>2. TypeOK'
  <2>1. Index' \in 0..MaxHandles
    BY <1>1, HandlesAssumption DEF IInv, TypeOK
  <2>2. outcomes' \in Seq(Outcomes)
    BY <1>1, OneMore
  <2> QED BY <1>1, <2>1, <2>2 DEF IInv, TypeOK
<1>3. Held'
  BY <1>1 DEF Held
<1>4. Told'
  BY <1>1, OneMore DEF IInv, Told
<1>5. SuccessHasFile'
  BY <1>1 DEF SuccessHasFile
<1> QED BY <1>2, <1>3, <1>4, <1>5 DEF IInv

(***************************************************************************)
(* A step of the search that stays with its drive                          *)
(***************************************************************************)
LEMMA Stays ==
  ASSUME IInv, pc \in {"loop", "volume", "file"}, pc' \in {"volume", "file", "read"},
         Index < NumHandles, UNCHANGED <<NumHandles, Index, outcomes>>,
         Status' \in {"SUCCESS"} \union UsbErrors,
         open' \subseteq {"VolHandle", "FileHandle"}, pool' \subseteq {"handles", "buffer", "info"},
         Buffer' \in {"unset", "null", "space"}, "buffer" \in pool' <=> pc' = "read"
  PROVE  IInv'
<1>1. TypeOK'
  BY DEF IInv, TypeOK
<1>2. Held'
  BY DEF Held
<1>3. Told'
  BY DEF IInv, Told, NoneRead
<1>4. SuccessHasFile'
  BY DEF SuccessHasFile
<1> QED BY <1>1, <1>2, <1>3, <1>4 DEF IInv

(***************************************************************************)
(* The file was read: it is the first one.                                 *)
(***************************************************************************)
LEMMA ReadFileStep ==
  ASSUME IInv, ReadFile
  PROVE  IInv'
<1>1. /\ pc = "read" /\ pc' = "done" /\ Status' = "SUCCESS" /\ open' = {} /\ Buffer' = "data"
      /\ pool' = pool \ {"handles"} /\ outcomes' = Append(outcomes, "read")
      /\ NumHandles' = NumHandles /\ Index' = Index
  BY DEF ReadFile, CleanUp
<1>2. outcomes \in Seq(Outcomes) /\ "read" \in Outcomes /\ NoneRead
  BY <1>1 DEF IInv, TypeOK, Outcomes, Told
<1>3. outcomes' \in Seq(Outcomes)
  BY <1>1, <1>2, OneMore
<1>4. TypeOK'
  BY <1>1, <1>3 DEF IInv, TypeOK
<1>5. \A i \in DOMAIN outcomes' : outcomes'[i] = "read" <=> i = Len(outcomes')
  BY <1>1, <1>2, OneMore DEF NoneRead
<1>6. Told' /\ SuccessHasFile'
  BY <1>1, <1>5 DEF Told, SuccessHasFile
<1> QED BY <1>1, <1>4, <1>6 DEF IInv, Held

(***************************************************************************)
(* LocateHandleBuffer found drives, or none.                               *)
(***************************************************************************)
LEMMA LocateHandlesStep ==
  ASSUME IInv, LocateHandles
  PROVE  IInv'
<1>1. /\ pc = "call" /\ Index' = Index /\ Buffer' = Buffer /\ open' = open /\ outcomes' = outcomes
      /\ Status = "SUCCESS" /\ outcomes = << >>
  BY DEF LocateHandles, IInv, Told
<1>2. Held /\ TypeOK
  BY DEF IInv
<1>3. CASE /\ NumHandles' \in 1..MaxHandles /\ pc' = "loop"
           /\ pool' = pool \union {"handles"} /\ Status' = Status
  <2>1. TypeOK'
    BY <1>1, <1>2, <1>3, HandlesAssumption DEF TypeOK
  <2>2. Held'
    BY <1>1, <1>2, <1>3 DEF Held
  <2>3. Told' /\ SuccessHasFile'
    BY <1>1, <1>3 DEF Told, NoneRead, LeftOver, Silent, SuccessHasFile
  <2> QED BY <2>1, <2>2, <2>3 DEF IInv
<1>4. CASE /\ Status' \in {"NOT_FOUND", "OUT_OF_RESOURCES"} /\ pc' = "done"
           /\ pool' = pool \ {"handles"} /\ NumHandles' = NumHandles
  <2>1. TypeOK'
    BY <1>1, <1>2, <1>4 DEF TypeOK, UsbErrors
  <2>2. Held'
    BY <1>1, <1>2, <1>4 DEF Held
  <2>3. Told' /\ SuccessHasFile'
    BY <1>1, <1>4 DEF Told, SuccessHasFile
  <2> QED BY <2>1, <2>2, <2>3 DEF IInv
<1> QED BY <1>3, <1>4 DEF LocateHandles, CleanUp

(***************************************************************************)
(* There is no pool for the file: the search is over, with an error.       *)
(***************************************************************************)
LEMMA NoPoolStep ==
  ASSUME IInv, NoPool
  PROVE  IInv'
<1>1. /\ pc = "file" /\ Buffer' = "null" /\ Status' = "OUT_OF_RESOURCES" /\ open' = {}
      /\ pool' = (pool \union {"info"}) \ {"handles"} /\ pc' = "done"
      /\ outcomes' = Append(outcomes, "noPool") /\ NumHandles' = NumHandles /\ Index' = Index
  BY DEF NoPool
<1>2. Held /\ TypeOK
  BY DEF IInv
<1>3. outcomes' \in Seq(Outcomes)
  BY <1>1, <1>2, OneMore DEF TypeOK, Outcomes
<1>4. TypeOK'
  BY <1>1, <1>2, <1>3 DEF TypeOK, UsbErrors
<1>5. Held' /\ Told' /\ SuccessHasFile'
  BY <1>1, <1>2 DEF Held, Told, SuccessHasFile
<1> QED BY <1>4, <1>5 DEF IInv

(***************************************************************************)
(* All drives were tried: SUCCESS is left over from the last of them.      *)
(***************************************************************************)
LEMMA AllTriedStep ==
  ASSUME IInv, AllTried
  PROVE  IInv'
<1>1. /\ pc = "loop" /\ pc' = "done" /\ pool' = pool \ {"handles"}
      /\ NumHandles' = NumHandles /\ Index' = Index /\ Status' = Status
      /\ Buffer' = Buffer /\ open' = open /\ outcomes' = outcomes
  BY DEF AllTried, CleanUp
<1>2. Held /\ TypeOK /\ Told
  BY DEF IInv
<1>3. TypeOK' /\ Held' /\ Told'
  BY <1>1, <1>2 DEF TypeOK, Held, Told
<1>4. SuccessHasFile'
  <2>1. Buffer # "data" /\ (Status = "SUCCESS" => LeftOver)
    BY <1>1, <1>2 DEF Held, Told
  <2> QED BY <1>1, <2>1 DEF SuccessHasFile, LeftOver, Silent
<1> QED BY <1>3, <1>4 DEF IInv

(***************************************************************************)
(* The caller frees the buffer and may ask again.                          *)
(***************************************************************************)
LEMMA CallerStep ==
  ASSUME IInv, SvdRequestXmlFromUSB
  PROVE  IInv'
<1>1. /\ pc = "done" /\ pc' = "call" /\ NumHandles' = 0 /\ Index' = 0 /\ Status' = "SUCCESS"
      /\ Buffer' = "unset" /\ pool' = pool \ {"buffer"} /\ outcomes' = << >> /\ open' = open
  BY DEF SvdRequestXmlFromUSB
<1>2. Held /\ TypeOK
  BY DEF IInv
<1>3. TypeOK'
  BY <1>1, <1>2, HandlesAssumption DEF TypeOK
<1>4. Held' /\ Told' /\ SuccessHasFile'
  BY <1>1, <1>2 DEF Held, Told, NoneRead, SuccessHasFile
<1> QED BY <1>3, <1>4 DEF IInv

-----------------------------------------------------------------------------
(***************************************************************************)
(* Every step keeps the invariant.                                         *)
(***************************************************************************)
LEMMA NextIInv == IInv /\ [Next]_vars => IInv'
<1> SUFFICES ASSUME IInv, [Next]_vars PROVE IInv'
  OBVIOUS
<1>1. TypeOK /\ Held
  BY DEF IInv
<1>2. CASE NoDevicePath
  BY <1>1, <1>2, Continues DEF NoDevicePath, NextDrive, TypeOK, Held, Outcomes
<1>3. CASE NotUsable
  BY <1>1, <1>3, Continues DEF NotUsable, NextDrive, TypeOK, Held, Outcomes, UsbErrors
<1>4. CASE NoFile
  BY <1>1, <1>4, Continues DEF NoFile, NextDrive, TypeOK, Held, Outcomes, UsbErrors
<1>5. CASE NoInfo
  BY <1>1, <1>5, Continues DEF NoInfo, NextDrive, TypeOK, Held, Outcomes
<1>6. CASE EmptyFile
  BY <1>1, <1>6, Continues DEF EmptyFile, NextDrive, TypeOK, Held, Outcomes, UsbErrors
<1>7. CASE ReadFails
  BY <1>1, <1>7, Continues DEF ReadFails, NextDrive, TypeOK, Held, Outcomes, UsbErrors
<1>8. CASE OpenVolume
  BY <1>1, <1>8, Stays DEF OpenVolume, TypeOK, Held
<1>9. CASE OpenFile
  BY <1>1, <1>9, Stays DEF OpenFile, TypeOK, Held
<1>10. CASE AllocateBuffer
  BY <1>1, <1>10, Stays DEF AllocateBuffer, TypeOK, Held
<1>11. CASE UNCHANGED vars
  BY <1>11 DEF vars, IInv, TypeOK, Held, Told, NoneRead, LeftOver, Silent, SuccessHasFile
<1> QED BY <1>2, <1>3, <1>4, <1>5, <1>6, <1>7, <1>8, <1>9, <1>10, <1>11, LocateHandlesStep,
           NoPoolStep, ReadFileStep, AllTriedStep, CallerStep
        DEF Next, FindUsbDriveWithSvdUpdate

LEMMA Invariance == Spec => []IInv
BY InitIInv, NextIInv, PTL DEF Spec

(***************************************************************************)
(* The variables of the search always have their types; in particular,     *)
(* callers see no status but the ones they know.                           *)
(***************************************************************************)
THEOREM TypeCorrect == Spec => []TypeOK
<1>1. IInv => TypeOK
  BY DEF IInv
<1> QED BY <1>1, Invariance, PTL

(***************************************************************************)
(* On each of its exits FindUsbDriveWithSvdUpdate has closed the volume    *)
(* and the file and freed the handle list, and the file buffer unless it   *)
(* returns it.  Of FileInfo, which it never frees, nothing is said.        *)
(***************************************************************************)
THEOREM SearchReturnsClean == Spec => []ReturnsClean
<1>1. IInv => ReturnsClean
  BY DEF IInv, Held, ReturnsClean
<1> QED BY <1>1, Invariance, PTL

(***************************************************************************)
(* The one Status of all drives: EFI_SUCCESS comes with the file of the    *)
(* first drive that could be read, but for the two cases that              *)
(* SuccessHasFile names.                                                   *)
(***************************************************************************)
THEOREM SuccessComesWithFile == Spec => []SuccessHasFile
<1>1. IInv => SuccessHasFile
  BY DEF IInv
<1> QED BY <1>1, Invariance, PTL
=============================================================================
