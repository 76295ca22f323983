SPECIFICATION GraphSpec
CONSTANTS
  None = None
  Files = {"A", "B"}
  Runs = {r1, r2}
  Resumes = {q1}
  PackNames <- MCPackNames
  Packs <- MCPacks
  EnvPack = None
  Jobs <- MCJobs
  InteractiveAnswers <- MCInteractiveAnswers
  BatchAnswers <- MCBatchAnswers
SYMMETRY RunSymmetry
INVARIANTS
  GraphTypeOK
  AcceptedPassedLane
  ProtectedNeedsHuman
  ProtocolRefusalIsFinal
  RefusalHasCause
  StaleApprovalIgnored
  OneWitnessPerAcceptance
CHECK_DEADLOCK FALSE
