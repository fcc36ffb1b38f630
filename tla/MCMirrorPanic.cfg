SPECIFICATION Spec
CONSTANTS
  Host = {h1, h2}
  Receivers = 2
  MaxRun = 2
  Faults = {}
SYMMETRY Symmetry
INVARIANT PreStartClears
