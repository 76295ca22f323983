SPECIFICATION FlowSpec
CONSTANTS
  None = None
  Files = {"A"}
  Runs = {r1, r2}
  Resumes = {q1, q2}
  Proxied = {q1}
  PackNames <- MCPackNames
  Packs <- MCPacks
  EnvPack = None
  Jobs <- MCJobs
  InteractiveAnswers <- MCInteractiveAnswers
  BatchAnswers <- MCBatchAnswers
SYMMETRY FlowSymmetry
INVARIANTS
  FlowTypeOK
  ReviewsAreEarned
  HumanBehindAcceptance
PROPERTY ImplementsGate
CHECK_DEADLOCK FALSE
