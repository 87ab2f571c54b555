CONSTANTS
  Worker = {w1}
  Audit = {a1, a2}
  Key = {k1, k2}
  None = None
  human = human
  agent1 = agent1
  agent2 = agent2
  Trial = {human, agent1, agent2}
  Charging <- MCCharging
  Delays <- MCDelays
  PollInterval = 2
  Timeout = 3
  Lanes = {1, 3}
SPECIFICATION LocalSpec
INVARIANTS
  OneAuditPerKey
  EffectsSeen
  InTimeIsConclusive
PROPERTIES
  TerminalIsFinal
  ImplementsOneShot
  Settles
  ObservationEnds
CHECK_DEADLOCK FALSE
