------------------------------- MODULE SvdUsb -------------------------------
(***************************************************************************)
(* The search for the SVD file on the USB drives (ConfApp/SvdUsb/SvdUsb.c):*)
(* FindUsbDriveWithSvdUpdate goes through the file systems one by one,     *)
(* opens the volume and the file, and reads it into a buffer.  A drive may *)
(* fail or be pulled out at every call, and one Status variable serves all *)
(* drives and is returned in the end.                                      *)
(*                                                                         *)
(* The second lookup of a device path that was just found, whose failure   *)
(* the code calls impossible, does not fail here.                          *)
(***************************************************************************)
EXTENDS Naturals, Sequences

CONSTANTS
  MaxHandles    \* bound on the handles LocateHandleBuffer returns

ASSUME HandlesAssumption == MaxHandles \in Nat \ {0}

VARIABLES
  pc,           \* "call", "loop", "volume", "file", "read" or "done"
  NumHandles,
  Index,
  Status,
  Buffer,       \* "unset", "null", or the pool buffer: "space", then "data" once read
  open,         \* which of VolHandle and FileHandle are open
  pool,         \* what is allocated: "handles", "buffer" and FileInfo ("info")
  outcomes      \* history: how each drive was left

vars == <<pc, NumHandles, Index, Status, Buffer, open, pool, outcomes>>

\* "DEVICE_ERROR" stands for every error but these: the caller tells only NOT_FOUND apart.
UsbErrors == {"NOT_FOUND", "DEVICE_ERROR", "BAD_BUFFER_SIZE", "OUT_OF_RESOURCES"}

\* A drive that has no device path, is not USB or cannot be opened; has no file; whose file has
\* no info, is empty, finds no pool, cannot be read; and the one that was read.
Outcomes == {"noPath", "notUsable", "noFile", "noInfo", "empty", "noPool", "unread", "read"}

TypeOK ==
  /\ pc \in {"call", "loop", "volume", "file", "read", "done"}
  /\ NumHandles \in 0..MaxHandles
  /\ Index \in 0..MaxHandles
  /\ Status \in {"SUCCESS"} \union UsbErrors
  /\ Buffer \in {"unset", "null", "space", "data"}
  /\ open \subseteq {"VolHandle", "FileHandle"}
  /\ pool \subseteq {"handles", "buffer", "info"}
  /\ outcomes \in Seq(Outcomes)

Init ==
  /\ pc = "call"
  /\ NumHandles = 0
  /\ Index = 0
  /\ Status = "SUCCESS"
  /\ Buffer = "unset"
  /\ open = {}
  /\ pool = {}
  /\ outcomes = << >>

-----------------------------------------------------------------------------

\* FreePool (HandleBuffer) and return; a FileInfo is never freed.
CleanUp ==
  /\ pc' = "done"
  /\ pool' = pool \ {"handles"}

LocateHandles ==
  /\ pc = "call"
  /\ \/ /\ NumHandles' \in 1..MaxHandles
        /\ pc' = "loop"
        /\ pool' = pool \union {"handles"}
        /\ UNCHANGED Status
     \/ /\ Status' \in {"NOT_FOUND", "OUT_OF_RESOURCES"}
        /\ CleanUp
        /\ UNCHANGED NumHandles
  /\ UNCHANGED <<Index, Buffer, open, outcomes>>

NextDrive(outcome) ==
  /\ Index' = Index + 1
  /\ outcomes' = Append(outcomes, outcome)
  /\ pc' = "loop"

\* "continue" without a device path: Status is what the last drive left.
NoDevicePath ==
  /\ pc = "loop" /\ Index < NumHandles
  /\ NextDrive("noPath")
  /\ UNCHANGED <<NumHandles, Status, Buffer, open, pool>>

\* Not USB, no block IO, no file system protocol or a volume that cannot be opened
NotUsable ==
  /\ pc = "loop" /\ Index < NumHandles
  /\ Status' \in {"NOT_FOUND", "DEVICE_ERROR"}
  /\ NextDrive("notUsable")
  /\ UNCHANGED <<NumHandles, Buffer, open, pool>>

OpenVolume ==
  /\ pc = "loop" /\ Index < NumHandles
  /\ Status' = "SUCCESS"
  /\ open' = {"VolHandle"}
  /\ pc' = "volume"
  /\ UNCHANGED <<NumHandles, Index, Buffer, pool, outcomes>>

NoFile ==
  /\ pc = "volume"
  /\ Status' \in {"NOT_FOUND", "DEVICE_ERROR"}
  /\ open' = {}
  /\ NextDrive("noFile")
  /\ UNCHANGED <<NumHandles, Buffer, pool>>

OpenFile ==
  /\ pc = "volume"
  /\ open' = open \union {"FileHandle"}
  /\ Status' = "SUCCESS"
  /\ pc' = "file"
  /\ UNCHANGED <<NumHandles, Index, Buffer, pool, outcomes>>

\* FileHandleGetInfo returns NULL: Status is still that of opening the file.
NoInfo ==
  /\ pc = "file"
  /\ open' = {}
  /\ NextDrive("noInfo")
  /\ UNCHANGED <<NumHandles, Status, Buffer, pool>>

EmptyFile ==
  /\ pc = "file"
  /\ Status' = "BAD_BUFFER_SIZE"
  /\ open' = {}
  /\ pool' = pool \union {"info"}
  /\ NextDrive("empty")
  /\ UNCHANGED <<NumHandles, Buffer>>

AllocateBuffer ==
  /\ pc = "file"
  /\ Buffer' = "space"
  /\ pool' = pool \union {"info", "buffer"}
  /\ pc' = "read"
  /\ UNCHANGED <<NumHandles, Index, Status, open, outcomes>>

\* Fatal: no other drive is tried.
NoPool ==
  /\ pc = "file"
  /\ Buffer' = "null"
  /\ Status' = "OUT_OF_RESOURCES"
  /\ open' = {}
  /\ pool' = (pool \union {"info"}) \ {"handles"}
  /\ pc' = "done"
  /\ outcomes' = Append(outcomes, "noPool")
  /\ UNCHANGED <<NumHandles, Index>>

\* Mutant: the buffer of a file that could not be read is kept.
ReadFailsKeepsBuffer ==
  /\ pc = "read"
  /\ Status' \in {"DEVICE_ERROR", "BAD_BUFFER_SIZE"}
  /\ open' = {}
  /\ Buffer' = "null"
  /\ NextDrive("unread")
  /\ UNCHANGED <<NumHandles, pool>>

\* Mutant: a short read leaves the status of FileHandleRead.
ReadFailsShortIsSuccess ==
  /\ pc = "read"
  /\ Status' \in {"DEVICE_ERROR", "SUCCESS"}
  /\ open' = {}
  /\ Buffer' = "null"
  /\ pool' = pool \ {"buffer"}
  /\ NextDrive("unread")
  /\ UNCHANGED NumHandles

\* FileHandleRead fails, or reads less than the file's size (BAD_BUFFER_SIZE).
ReadFails ==
  /\ pc = "read"
  /\ Status' \in {"DEVICE_ERROR", "BAD_BUFFER_SIZE"}
  /\ open' = {}
  /\ Buffer' = "null"
  /\ pool' = pool \ {"buffer"}
  /\ NextDrive("unread")
  /\ UNCHANGED NumHandles

ReadFile ==
  /\ pc = "read"
  /\ Status' = "SUCCESS"
  /\ open' = {}
  /\ Buffer' = "data"
  /\ CleanUp
  /\ outcomes' = Append(outcomes, "read")
  /\ UNCHANGED <<NumHandles, Index>>

AllTried ==
  /\ pc = "loop" /\ Index >= NumHandles
  /\ CleanUp
  /\ UNCHANGED <<NumHandles, Index, Status, Buffer, open, outcomes>>

FindUsbDriveWithSvdUpdate ==
  \/ LocateHandles \/ NoDevicePath \/ NotUsable \/ OpenVolume \/ NoFile \/ OpenFile
  \/ NoInfo \/ EmptyFile \/ AllocateBuffer \/ NoPool \/ ReadFails \/ ReadFile \/ AllTried

(***************************************************************************)
(* SvdRequestXmlFromUSB hands Status and Buffer to ProcessSvdUsbInput,     *)
(* which frees the buffer; the user may ask again.                         *)
(***************************************************************************)
SvdRequestXmlFromUSB ==
  /\ pc = "done"
  /\ pc' = "call"
  /\ NumHandles' = 0
  /\ Index' = 0
  /\ Status' = "SUCCESS"
  /\ Buffer' = "unset"
  /\ pool' = pool \ {"buffer"}
  /\ outcomes' = << >>
  /\ UNCHANGED open

Next == FindUsbDriveWithSvdUpdate \/ SvdRequestXmlFromUSB

\* Fairness: the search is one call that runs without waiting for anybody.
Spec == Init /\ [][Next]_vars /\ WF_vars(FindUsbDriveWithSvdUpdate)

-----------------------------------------------------------------------------

(***************************************************************************)
(* However the search ends, no volume and no file is left open, the handle *)
(* list is freed, and a buffer is allocated exactly when it holds a file   *)
(* that was read to its end.  Of FileInfo ("info") nothing is said: the    *)
(* code frees it on none of its ways.                                      *)
(***************************************************************************)
ReturnsClean ==
  pc = "done" =>
    /\ open = {}
    /\ "handles" \notin pool
    /\ "buffer" \in pool <=> Buffer = "data" /\ Status = "SUCCESS"

\* The drives tried before and after that say nothing about Status
Silent(from) == \A i \in from..Len(outcomes) : outcomes[i] = "noPath"

(***************************************************************************)
(* SUCCESS comes with a file, that of the first drive that could be read,  *)
(* except in two cases: the last drive with a device path would not give   *)
(* the size of its file, or there was no drive with a device path.         *)
(***************************************************************************)
SuccessHasFile ==
  pc = "done" /\ Status = "SUCCESS" =>
    \/ /\ Buffer = "data"
       /\ \A i \in DOMAIN outcomes : outcomes[i] = "read" <=> i = Len(outcomes)
    \/ /\ Buffer # "data"
       /\ Silent(1) \/ \E i \in DOMAIN outcomes : outcomes[i] = "noInfo" /\ Silent(i + 1)

=============================================================================
