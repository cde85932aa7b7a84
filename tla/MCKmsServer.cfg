SPECIFICATION Spec
CONSTANTS
  p1 = p1
  p2 = p2
  p3 = p3
  Proc = {p1, p2, p3}
  MaxSecrets = 3
  MaxLabels = 1
  Missing = Missing
  Torn = Torn
SYMMETRY Symmetry
INVARIANTS
  TypeOK
  SecretKept
