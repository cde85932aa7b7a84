SPECIFICATION SpecActions
CONSTANTS
  None = None
  f = f
  FID = {f}
  Execution = {e1, e2}
  Client = {c1, c2}
  Thread <- MCThread
  FidOf <- MCFidOf
  Rid <- MCRid
SYMMETRY Symmetry
INVARIANTS
  SystemTypeOK
  OneResult
  RejectedForAResult
  FetchedIsOwn
PROPERTIES
  ImplementsRegister
