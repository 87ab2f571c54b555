CONSTANTS
  None = None
  p1 = p1
  elsewhere = elsewhere
  Plan = {p1}
  Run = {r1, r2}
  Policy <- Policies
  Observation <- Observations
  Ttl = 1
  Attestor = TRUE
SPECIFICATION Spec
SYMMETRY Symmetry
CHECK_DEADLOCK FALSE
INVARIANTS
  InconclusiveBundlesVerify
