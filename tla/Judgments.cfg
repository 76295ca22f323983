SPECIFICATION MCSpec
CONSTANTS
  None = None
  Files = {"A", "B"}
  Agents = {"a", "b"}
  Tasks = {"t1", "t2"}
  Events <- MCEvents
  MaxEvents = 4
INVARIANTS
  LockVerdictIsOwnership
  HandoffVerdictIsLastClaim
  EffectsNeedApproval
PROPERTIES
  HarderCaseNeverLoosens
  RejectionIsPermanent
CHECK_DEADLOCK FALSE
