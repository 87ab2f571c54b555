CONSTANTS
  Handler = {r1, r2}
  Audit = {a1, a2}
  IdemKey = {k1, k2}
  Capability = {c1, c2}
  Lease = {l1}
  None = None
  Window = 1
  LeaseTime = 1
  Retention = 2
  MaxTime = 3
  MaxDelay = 1
SPECIFICATION Spec
SYMMETRY Symmetry
PROPERTIES
  SettledStays
