CONSTANTS
  p1 = p1
  p2 = p2
  d1 = d1
  d2 = d2
  k1 = k1
  j1 = j1
  j2 = j2
  j3 = j3
  pay = pay
  buy = buy
  NoKey = NoKey
  NoRequest = NoRequest
  Proc <- MCProc
  Delegation <- MCDelegation
  Key <- MCKey
  Job <- MCJob
  Op <- MCOp
  NeedsApproval <- MCNeedsApproval
  Permitted <- MCPermitted
  Amount <- MCAmount
  Limited <- MCLimited
  Limit <- MCLimit
  Total <- MCTotal
  MaxUndone = 1
SPECIFICATION Spec
SYMMETRY Symmetry
INVARIANTS
  BudgetWithinLimit
  CommittedIsStarted
  OncePerKey
  ReplyIsTruthful
PROPERTIES
  ImplementsOneShot
