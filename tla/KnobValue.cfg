SPECIFICATION Spec
CONSTANTS
  None = None
  Error = Error
  Decls <- MCDecls
  Inputs <- MCInputs
  Group = "all"
INVARIANT TextRoundTrip
INVARIANT BinarySettles
PROPERTY OneLeafChanges
