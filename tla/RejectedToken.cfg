SPECIFICATION GraphSpec
CONSTANTS
  None = None
  Files = {"A", "B"}
  Runs = {r1}
  Resumes = {q1}
  PackNames <- MCPackNames
  Packs <- MCPacks
  EnvPack = None
  Jobs <- MCJobs
  InteractiveAnswers <- MCInteractiveAnswers
  BatchAnswers <- MCBatchAnswers
INVARIANT RejectedTokenTerminates
CHECK_DEADLOCK FALSE
