CONSTANTS
  Key = {k1, k2, k3}
  Address = {a1, a2}
  capacity = 2
  age = 1
  None = None
SPECIFICATION Spec
INVARIANT GetsValid
SYMMETRY Symmetry
