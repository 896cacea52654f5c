SPECIFICATION Spec
CONSTANTS
  Sessions = {s1, s2, s3, s4}
  Hooks = {h1, h2}
  MaxActive = 2
  Nil = Nil
SYMMETRY CapSymmetry
INVARIANTS
  Overshoot
  CapInv
