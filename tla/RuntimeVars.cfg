SPECIFICATION FairSpec
CONSTANTS
  a = a
  b = b
  c = c
  d1 = d1
  d2 = d2
  h1 = h1
  h2 = h2
  None = None
  Names = {a, b, c}
  Data = {d1, d2}
  Hashes = {h1, h2}
  Knobs <- MCKnobs
  AllVars <- MCAllVars
  Files <- MCFiles
  Cmds <- MCCmds
INVARIANT StoreIsPrefix
INVARIANT HashGate
INVARIANT ReadIsExact
INVARIANT DeleteIsExact
PROPERTY Terminates
