SPECIFICATION Spec
CONSTANTS
  fShort = fShort
  fLong = fLong
  lShort = lShort
  lLong = lLong
  None = None
  FID = {fShort, fLong, fDefault}
  DefaultFid = fDefault
  Label = {lShort, lLong}
  MRE = {m1, m2}
  PK = {k1, k2}
  MSK = {s1}
  KeptFid <- MCKeptFid
  KeptLabel <- MCKeptLabel
  MaxEntries = 2
  MaxLabels = 1
SYMMETRY Symmetry
INVARIANTS
  TypeOK
  ReleaseAttested
  ReleaseToAttestedKey
  LabelKeyBound
  PolicyEnforced
  BindingsHold
PROPERTIES
  ImplementsKeyReleasePolicy
