CONSTANTS
  Worker = {w1, w2}
  Audit = {a1}
  Key = {k1}
  None = None
SPECIFICATION Spec
INVARIANTS
  RestoredFailsClosed
