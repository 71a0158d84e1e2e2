SPECIFICATION Spec
CONSTANTS
  Entries <- FourEntries
  Inputs <- Sent
  Lookups <- ShortPaths
  Files <- SomeFiles
  MaxNodes = 7
  itself = itself
  top = top
  deep = deep
  home = home
INVARIANTS
  TypeOK
  Confined
  NormalizeAgrees
  
  CwdStable
PROPERTY ReadOnlyKept
