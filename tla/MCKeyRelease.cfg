SPECIFICATION Spec
CONSTANTS
  FID = {1, 54, 55, 64, 127, 128}
  Label = {63, 64, 65}
  Binding <- MCBinding
  KeyLen = 96
  None = None
INVARIANTS
  TypeOK
  LoadedWhole
PROPERTIES
  ReleasedIsLoaded
