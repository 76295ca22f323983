SPECIFICATION SessionSpec
CONSTANTS
  Absent = Absent
  Files = {"lake", "main"}
  Pinned = {"lake"}
  Contents <- MCContents
  Directories <- MCDirectories
  Outside = Outside
  Clients = {g1, s1, s2}
  GraphRuns = {g1}
  Patches <- MCPatches
SYMMETRY SessionSymmetry
INVARIANT
  RunsJudgeSnapshotWithPatch
PROPERTY SealedBaseIsImmutable
CHECK_DEADLOCK FALSE
