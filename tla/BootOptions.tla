---------------------------- MODULE BootOptions ----------------------------
(***************************************************************************)
(* The Boot Options page (ConfApp/BootOptions.c): lists the load options,  *)
(* collects the digits of an index, and boots the option on Enter.         *)
(***************************************************************************)
EXTENDS ConfAppBase

CONSTANTS
  MAX_BOOT_OPTION_INPUT_DIGITS,
  MaxBootOptions   \* bound on the load options EfiBootManagerGetLoadOptions returns

ASSUME DigitsAssumption == MAX_BOOT_OPTION_INPUT_DIGITS \in Nat \ {0}

\* BootOrder holds 16-bit option numbers, so there are never more than 2^16 options
ASSUME BootOptionsAssumption == MaxBootOptions \in Nat /\ MaxBootOptions <= 65536

VARIABLES
  mBootOptState,
  mBootOptionCount,
  mOpCandidate,
  mInputBuffer,      \* the digits typed so far; its length is mInputLen
  mKeyOptions        \* whether mKeyOptions and mKeyNames are allocated

bootOptVars == <<mBootOptState, mBootOptionCount, mOpCandidate, mInputBuffer, mKeyOptions>>

Digits == 0..9

BootOptStates == {"BootOptInit", "BootOptWait", "BootOptBootNow", "BootOptExit"}

BootOptTypeOK ==
  /\ mBootOptState \in BootOptStates
  /\ mBootOptionCount \in 0..MaxBootOptions
  /\ mOpCandidate \in Nat /\ mOpCandidate < 65536
  /\ mInputBuffer \in Seq(Digits)
  /\ mKeyOptions \in BOOLEAN

BootOptInit ==
  /\ mBootOptState = "BootOptInit"
  /\ mBootOptionCount = 0
  /\ mOpCandidate = 0
  /\ mInputBuffer = << >>
  /\ mKeyOptions = FALSE

-----------------------------------------------------------------------------

DigitValue(key) ==
  CASE key = "0" -> 0 [] key = "1" -> 1 [] key = "2" -> 2 [] key = "3" -> 3
    [] key = "4" -> 4 [] key = "5" -> 5 [] key = "6" -> 6 [] key = "7" -> 7
    [] key = "8" -> 8 [] key = "9" -> 9

\* The decimal number the digits spell
Selection(digits) ==
  LET value[n \in 0..Len(digits)] ==
        IF n = 0 THEN 0 ELSE value[n - 1] * 10 + digits[n]
  IN  value[Len(digits)]

\* The load options are read anew each time the page is opened.
PrintBootOptions ==
  /\ OnPage("BootOption") /\ mBootOptState = "BootOptInit"
  /\ mBootOptionCount' \in 0..MaxBootOptions
  /\ mKeyOptions' = TRUE
  /\ mBootOptState' = "BootOptWait"
  /\ UNCHANGED <<mOpCandidate, mInputBuffer, baseVars>>

BootOptNoKey ==
  /\ OnPage("BootOption") /\ mBootOptState = "BootOptWait"
  /\ \E poll \in PollKeyStroke(FALSE) :
       /\ poll.Status # "SUCCESS"
       /\ EndIteration(IF poll.Status = "NOT_READY" THEN "SUCCESS" ELSE poll.Status)
  /\ UNCHANGED <<mConfState, bootOptVars>>

BootOptEscape ==
  /\ mInputBuffer' = << >>
  /\ mBootOptState' = "BootOptExit"
  /\ UNCHANGED mOpCandidate

\* Mutant: the index one past the last option is let through.
BootOptEnterOffByOne ==
  IF mInputBuffer # << >> /\ Selection(mInputBuffer) \in 1..mBootOptionCount + 1
  THEN /\ mOpCandidate' = (Selection(mInputBuffer) - 1) % 65536
       /\ mBootOptState' = "BootOptBootNow"
       /\ mInputBuffer' = << >>
  ELSE /\ mInputBuffer' = << >>
       /\ UNCHANGED <<mOpCandidate, mBootOptState>>

BootOptEnter ==
  IF mInputBuffer # << >> /\ Selection(mInputBuffer) \in 1..mBootOptionCount
  THEN /\ mOpCandidate' = (Selection(mInputBuffer) - 1) % 65536
       /\ mBootOptState' = "BootOptBootNow"
       /\ mInputBuffer' = << >>
  ELSE /\ mInputBuffer' = << >>
       /\ UNCHANGED <<mOpCandidate, mBootOptState>>

BootOptBackspace ==
  /\ mInputBuffer' = SubSeq(mInputBuffer, 1, Len(mInputBuffer) - 1)
  /\ UNCHANGED <<mBootOptState, mOpCandidate>>

\* A leading zero and every digit beyond the limit are ignored.
BootOptDigit(key) ==
  /\ mInputBuffer' = IF \/ mInputBuffer = << >> /\ key = "0"
                        \/ Len(mInputBuffer) >= MAX_BOOT_OPTION_INPUT_DIGITS
                     THEN mInputBuffer
                     ELSE Append(mInputBuffer, DigitValue(key))
  /\ UNCHANGED <<mBootOptState, mOpCandidate>>

BootOptKey ==
  /\ OnPage("BootOption") /\ mBootOptState = "BootOptWait"
  /\ \E key \in Keys :
       \/ key = "ESC" /\ BootOptEscape
       \/ key = "CR" /\ BootOptEnter
       \/ key = "BS" /\ mInputBuffer # << >> /\ BootOptBackspace
       \/ key \in DigitKeys /\ BootOptDigit(key)
  /\ UNCHANGED <<mBootOptionCount, mKeyOptions, baseVars>>

\* EfiBootManagerBoot hands the machine over ...
BootOptBootNow ==
  /\ OnPage("BootOption") /\ mBootOptState = "BootOptBootNow"
  /\ machine' = "booted"
  /\ UNCHANGED <<mConfState, resetCause, bootOptVars>>

\* ... and if it ever comes back, the system is reset.
BootOptReturned ==
  /\ machine = "booted"
  /\ ResetSystem("bootReturned")
  /\ UNCHANGED <<mConfState, bootOptVars>>

BootOptResetGlobals ==
  /\ mBootOptState' = "BootOptInit"
  /\ mBootOptionCount' = 0
  /\ mOpCandidate' = 0
  /\ mInputBuffer' = << >>
  /\ mKeyOptions' = FALSE

BootOptLeave ==
  /\ OnPage("BootOption") /\ mBootOptState = "BootOptExit"
  /\ BootOptResetGlobals
  /\ ExitSubRoutine
  /\ UNCHANGED <<machine, resetCause>>

BootOptionMgr ==
  \/ PrintBootOptions
  \/ BootOptNoKey
  \/ BootOptKey
  \/ BootOptBootNow
  \/ BootOptReturned
  \/ BootOptLeave
=============================================================================
