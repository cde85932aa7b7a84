SPECIFICATION Spec
CONSTANTS
  r1 = r1
  r2 = r2
  r3 = r3
  p1 = p1
  p2 = p2
  None = None
  Req = {r1, r2, r3}
  Profile = {p1, p2}
  DefaultProfile = p1
  ProfileOf <- MCProfileOf
  Files <- MCFiles
  FunctionKeyFile = "ckfunc"
  MaxInProgress = 2
  MaxSpoils = 1
INVARIANTS
  TypeOK
  WorkerIdle
  FilesRemoved
  OwnAnswer
PROPERTIES
  EventuallyAnswered
CHECK_DEADLOCK FALSE
