SPECIFICATION Spec
CONSTANTS
  None = None
  Error = Error
  Decls <- MCDecls
  Inputs <- MCInputs
  Group = "sharing"
PROPERTY OneLeafChanges
