SPECIFICATION Spec
CONSTANTS
  Jobs = {j1, j2}
  Paths = {p1}
  small = small
  large = large
  Hashes <- MCHashes
  Big <- MCBig
  Size <- MCSize
  NoFile = NoFile
  SqlErrors = FALSE
  MaxCopies = 1
INVARIANT
  RecordedIsComplete
