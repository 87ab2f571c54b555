CONSTANTS
  l1 = l1
  d1 = d1
  d2 = d2
  q1 = q1
  q2 = q2
  e0 = e0
  c1 = c1
  c2 = c2
  GymLease = {l1}
  OtherRun = "other run"
  Principal = "human_vasu"
  Other = "another_member"
  MaxClicks = 2
  MaxDeletions = 2
  MaxStray = 2
  MaxRestart = 1
  Definition = {d1, d2}
  NoTool = "no tool"
  Request = {q1, q2}
  EarlyRequest = e0
  SurfaceMaxWait = 2
  AnswerTimeout = 2
  EffectObservation = 2
  EffectQuietWindow = 2
  EffectMaxWait = 4
  FirstDelay = 1
  PageDelay = 1
  MaxActivity = 2
  MaxSwitches = 2
  MaxPlays = 2
  Call = {c1, c2}
  NoCall = NoCall
  Node <- MCNode
  Nesting <- MCNesting
  Trajectory <- MCTrajectory
  EvalRun = {1, 2}
  EvalStep = {1, 3}
  NoStep = NoStep
  MaxRows = 3
SPECIFICATION SourcesSpec
INVARIANTS
  EvidenceIsOwn
  TrialsAreReleased
  SubstitutionIsVisible
  WholeEffect
  EvidenceIsOfItsMode
  TrajectoryAgrees
PROPERTIES
  EveryVisitEnds
CHECK_DEADLOCK FALSE
