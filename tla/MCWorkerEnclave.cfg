SPECIFICATION Spec
CONSTANTS
  fA = fA
  fB = fB
  code1 = code1
  code2 = code2
  s1 = s1
  s2 = s2
  NoSender = NoSender
  None = None
  FID = {fA, fB}
  Code = {code1, code2}
  Sender = {s1, s2, NoSender}
  Func <- MCFunc
  Request <- MCRequest
  FuncKey <- MCFuncKey
  ReqKey <- MCReqKey
  Bound <- MCBound
  Loads <- MCLoads
  MaxReports = 2
INVARIANTS
  TypeOK
  RunsAsRequested
  ResultForSender
  CacheOwned
  FunctionKeyReleased
