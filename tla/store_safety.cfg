SPECIFICATION Spec
CONSTANTS
  Jobs = {j1, j2, j3}
  Paths = {p1}
  small = small
  large = large
  Hashes <- MCHashes
  Big <- MCBig
  Size <- MCSize
  NoFile = NoFile
  SqlErrors = TRUE
  MaxCopies = 2
SYMMETRY Symmetry
INVARIANTS
  TypeOK
  RecordedHasFile
  SettledIsComplete
