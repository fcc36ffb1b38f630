SPECIFICATION Spec
CONSTANTS
  Host = {h1, h2}
  Receivers = 1
  MaxRun = 2
  Faults = {"fail", "kill"}
SYMMETRY Symmetry
INVARIANTS
  Accounted
  AllOrNothing
  MirrorsUsable
  CleanedUp
PROPERTIES
  StatusMonotone
