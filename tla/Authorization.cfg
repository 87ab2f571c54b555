CONSTANTS
  r1 = r1
  r2 = r2
  x1 = x1
  x2 = x2
  a1 = a1
  a2 = a2
  a3 = a3
  n1 = n1
  n2 = n2
  c1 = c1
  c2 = c2
  m1 = m1
  m2 = m2
  h1 = h1
  h2 = h2
  p1 = p1
  p2 = p2
  p3 = p3
  s1 = s1
  s2 = s2
  k1 = k1
  k2 = k2
  v1 = v1
  v2 = v2
  v3 = v3
  i1 = i1
  i2 = i2
  i3 = i3
  o1 = o1
  o2 = o2
  Release = {r1, r2}
  Agent = {"agent", "other agent"}
  Tool = {"tool", "other tool"}
  Args = {"args", "other args"}
  Secret = {x1, x2}
  NoSecret = "no capability"
  PlanTTL = 2
  MaxDrift = 2
  MaxAuditTime = 5
  MaxReleaseTime = 3
  Hosted = {r1}
  Plan = {"plan", "changed plan", "renamed"}
  ProfileOf <- MCProfileOf
  Null = Null
  ReviewWindow = 2
  InvocationLease = 2
  Retention30 = 4
  MaxSkew = 1
  Approval = {a1, a2, a3}
  Nonce = {n1, n2}
  NonceOf <- MCNonceOf
  IssuedAt <- MCIssuedAt
  ExpiresAt <- MCExpiresAt
  Credential = {c1, c2}
  Counts = {c1}
  OwnerOf <- MCOwnerOf
  ReviewerOf <- MCReviewerOf
  Process = {m1, m2}
  Skew = 1
  MaxLifetime = 2
  MaxSignatures = 2
  MaxRestarts = 1
  MaxCeremonyTime = 2
  Invocation = {i1, i2, i3}
  Offer = {o1, o2}
  Absent = Absent
  PlanTtl = 1
  ReviewEnd = 2
  Server = {p1, p2, p3}
  SecretOf <- MCSecretOf
  SigningKey = {k1, k2}
  NoKey = NoKey
  Free = Free
  KeptRuns = 1
  MaxIssued = 4
  Call = {v1, v2, v3}
  JwksKey = {k1, k2}
  FirstJwk = k1
  Lifetime = 1
  TokenSkew = 0
  MaxTokenAge = 1
  JwksTTL = 1
  MaxTransit = 1
  MaxTokenTime = 3
SPECIFICATION AuthorizationSpec
INVARIANTS
  EvidenceIsEarned
  FailureHasCause
  ProofsVerify
  OneEnvelopePerNonce
  SpentForCause
  RunsWhatWasReviewed
  ChainUnbroken
  RecordsAreBacked
  TrustIsRecent
PROPERTIES
  ReleaseImplementsOneShot
CHECK_DEADLOCK FALSE
