SPECIFICATION Spec
CONSTANTS
  c1 = c1
  c2 = c2
  None = None
  Failed = Failed
  NoContainer = NoContainer
  Container = {c1, c2}
  Warmed = {c1}
  Activations = 2
  Malformed = {2}
  MaxConcurrent = 2
  MaxTargets = 3
  MaxFaults = 1
  MaxTimeouts = 1
  MaxMishaps = 1
  SourceBinding = 7
  CodeId = 0
  Pull <- MCPull
  Correlation <- MCCorrelation
INVARIANTS
  TypeOK
  RunsOwnInput
  ServesWhileBound
  OwnResult
  LostOnlyUnanswered
  WaitsOnlyBesideReturned
  QueueInOrder
  NothingLeftInSilence
PROPERTIES
  CustodyKept
  EventuallyOver
CHECK_DEADLOCK FALSE
