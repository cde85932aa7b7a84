SPECIFICATION Spec
CONSTANTS
  w1 = w1
  w2 = w2
  Worker = {w1, w2}
  Nobody = Nobody
  Backlog = 1
  MaxFds = 2
  Attempts = 2
  Misfit = {"fid", "label", "crypto_profile"}
INVARIANTS
  TypeOK
  DescriptorsAccountedFor
PROPERTY
  InvocationEnds
