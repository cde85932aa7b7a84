SPECIFICATION Spec
CONSTANTS
  None = None
  Thread = {t1, t2}
  Rid = {r1}
SYMMETRY Symmetry
INVARIANT
  CouchDBWriteOnce
