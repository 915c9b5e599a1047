SPECIFICATION Spec
CONSTANTS
  i1 = i1
  i2 = i2
  p1 = p1
  p2 = p2
  p3 = p3
  Intents = {i1}
  Plans = {p1, p2}
  Approvals = {a1, a2}
  PlanSteps = {}
  TTL = 1
  NoIntent = NoIntent
  NoPlan = NoPlan
  NoGrant = NoGrant
  Execs = {e1, e2}
  Continuations = {}
  Recoveries = {}
  NeedsApproval = {i1}
  Reconcilable = {}
  Contract <- MCContract
  RaisesAfterEffect = TRUE
SYMMETRY Symmetric
CHECK_DEADLOCK FALSE
INVARIANT NoBlindRepeat
