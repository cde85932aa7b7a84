SPECIFICATION Spec
CONSTANTS
  FID = {64}
  Label = {64}
  Binding <- MCBinding
  KeyLen = 96
  None = None
INVARIANT
  BoundIsReleased
