-------------------------------- MODULE Python --------------------------------
(***************************************************************************)
(* What the operators of the Python tools return besides values.           *)
(***************************************************************************)

CONSTANTS None,  \* Python's None
          Error  \* an exception was raised
=============================================================================
