SPECIFICATION MCSpec
CONSTANTS
  Unset = Unset
  Calls = {1, 2, 3}
  Environments <- MCEnvironments
INVARIANTS
  RunnerTypeOK
  PermitsAddUp
  AnswersAreQuiet
PROPERTY EveryRequestIsAnswered
CHECK_DEADLOCK FALSE
