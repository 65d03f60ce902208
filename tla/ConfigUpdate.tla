---------------------------- MODULE ConfigUpdate ----------------------------
(***************************************************************************)
(* What ConfApp promises the platform about its configuration variables:   *)
(* they change only in an update session, a session starts only on the     *)
(* setup page while updates are allowed, permission lasts no longer than   *)
(* the visit of the page, and a session that completes takes the system    *)
(* down: there is no way back to the page from there.                      *)
(***************************************************************************)
CONSTANTS Vars, StoreValues

VARIABLES
  phase,     \* "down", "menu", "page", "session" or "complete"
  allowed,   \* updates are allowed during this visit of the page
  store

absVars == <<phase, allowed, store>>

AbsInit ==
  /\ phase = "down"
  /\ allowed = FALSE
  /\ store \in [Vars -> StoreValues]

Start ==
  /\ phase = "down"
  /\ phase' = "menu"
  /\ UNCHANGED <<allowed, store>>

OpenPage ==
  /\ phase = "menu"
  /\ phase' = "page"
  /\ UNCHANGED <<allowed, store>>

\* The page asks the platform for its mode; it may withdraw the permission later.
Decide ==
  /\ phase = "page"
  /\ allowed' \in BOOLEAN
  /\ UNCHANGED <<phase, store>>

Begin ==
  /\ phase = "page" /\ allowed
  /\ phase' = "session"
  /\ UNCHANGED <<allowed, store>>

Write ==
  /\ phase = "session" /\ allowed
  /\ \E v \in Vars, x \in StoreValues : store' = [store EXCEPT ![v] = x]
  /\ UNCHANGED <<phase, allowed>>

Reject ==
  /\ phase = "session"
  /\ phase' = "page"
  /\ UNCHANGED <<allowed, store>>

Complete ==
  /\ phase = "session"
  /\ phase' = "complete"
  /\ UNCHANGED <<allowed, store>>

ClosePage ==
  /\ phase = "page"
  /\ phase' = "menu"
  /\ allowed' = FALSE
  /\ UNCHANGED store

Stop ==
  /\ phase' = "down"
  /\ allowed' = FALSE
  /\ UNCHANGED store

AbsNext ==
  \/ Start \/ OpenPage \/ Decide \/ Begin \/ Write \/ Reject \/ Complete
  \/ ClosePage \/ Stop

AbsSpec == AbsInit /\ [][AbsNext]_absVars
=============================================================================
