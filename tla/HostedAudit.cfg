CONSTANTS
  Handler = {r1, r2}
  Audit = {a1, a2}
  IdemKey = {k1}
  Capability = {c1, c2, c3}
  Lease = {l1, l2}
  None = None
  Window = 2
  LeaseTime = 1
  Retention = 3
  MaxTime = 4
  MaxDelay = 1
SPECIFICATION Spec
SYMMETRY Symmetry
INVARIANTS
  RowsAreEarned
PROPERTIES
  ImplementsOneShot
