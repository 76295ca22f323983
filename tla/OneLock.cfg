SPECIFICATION MCSpec
CONSTANTS
  None = None
  Files = {"A", "B"}
  Agents = {"a", "b"}
  Tasks = {"t1", "t2"}
  Events <- MCEvents
  MaxEvents = 4
INVARIANT OneHolderPerResource
CHECK_DEADLOCK FALSE
