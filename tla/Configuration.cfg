SPECIFICATION MCSpec
CONSTANTS
  None = None
  Files = {"A"}
  g1 = g1
  g2 = g2
  Gateways = {g1, g2}
  Settings <- MCSettings
  Absent = Absent
  Failed = Failed
  Names = {"a", "b", "c", "d"}
  Keys = {"reviewer_gated_execution", "name", "import"}
  Flags = {"reviewer_gated_execution"}
  Required = {"name"}
  Values = {"true", "false", "mine", "ours", "refused", "none"}
  Refused = {"refused"}
  MaxDepth = 2
  PackFiles <- MCPackFiles
  MaxEdits = 1
INVARIANTS
  ReadyMeansServing
  StrictNeedsRealEvidence
  StateSurvives
  
  LastWriterWins
  StrictFlagsCommute
CHECK_DEADLOCK FALSE
