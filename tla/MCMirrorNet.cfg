SPECIFICATION Spec
CONSTANTS
  Exp = {e1, e2, e3}
  Subnet = {0, 1}
  Size = 5
  MaxHost = 2
  Receivers = 1
  ListFails = TRUE
SYMMETRY Symmetry
INVARIANTS
  NoClash
  SharedOnlyByRace
