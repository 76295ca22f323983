SPECIFICATION FairLspSpec
CONSTANTS
  None = None
  Requests = {t1, t2}
  Workspaces = {w1, w2}
  Procs = {p1, p2, p3}
  Documents = {clean, broken}
  Broken = {broken}
  MaxSize = 1
  StandardFraming = TRUE
INVARIANT OneServerPerWorkspace
CHECK_DEADLOCK FALSE
