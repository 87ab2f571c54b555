CONSTANTS
  q1 = q1
  q2 = q2
  s1 = s1
  s2 = s2
  n1 = n1
  d1 = d1
  d2 = d2
  u1 = u1
  u2 = u2
  u3 = u3
  k1 = k1
  k2 = k2
  i1 = i1
  i2 = i2
  v1 = v1
  Everyone = Everyone
  None = None
  Request <- MCRequest
  Session <- MCSession
  Network <- MCNetwork
  NetworkOf <- MCNetworkOf
  Limit <- MCLimit
  Window = 3
  Patience = 1
  MaxTime = 3
  Batch = 1
  DbIsolate <- MCDbIsolate
  Visitor <- MCVisitor
  ServedBy <- MCServedBy
  MaxFaults = 2
  Key <- MCKey
  Isolate <- MCIsolate
  Verifier <- MCVerifier
  FirstKey = k1
  CacheTTL = 2
  ProofRetention = 2
  MaxArchivedKeys = 1
  MaxKeyTime = 5
SPECIFICATION EdgeSpec
SYMMETRY Symmetry
INVARIANTS
  Throttled
  RefusalIsJust
  RetainedProofsVerify
  ServesMigrated
