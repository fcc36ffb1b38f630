SPECIFICATION Spec
CONSTANTS
  Exp = {e1, e2}
  Subnet = {0, 1, 2}
  Size = 8
  MaxHost = 2
  Receivers = 2
  ListFails = FALSE
SYMMETRY Symmetry
INVARIANT ReceiversOnMirrorNet
