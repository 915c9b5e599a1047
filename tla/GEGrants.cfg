SPECIFICATION Spec
CONSTANTS
  i1 = i1
  i2 = i2
  p1 = p1
  p2 = p2
  p3 = p3
  Intents = {i1, i2}
  Plans = {p1, p2}
  Approvals = {}
  PlanSteps = {s1}
  TTL = 1
  NoIntent = NoIntent
  NoPlan = NoPlan
  NoGrant = NoGrant
  Execs = {e1, e2}
  Continuations = {c1}
  Recoveries = {r1}
  NeedsApproval = {i1}
  Reconcilable = {}
  Contract <- MCContract
  RaisesAfterEffect = TRUE
CHECK_DEADLOCK FALSE
INVARIANT EffectMatchesAuthorization
PROPERTY ImplementsSingleUseGrant
