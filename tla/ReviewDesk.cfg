CONSTANTS
  p1 = p1
  p2 = p2
  None = None
  Pages = {p1, p2}
  Hasty = {p2}
  Payloads = {v1}
  v1 = v1
  Backends = {"memory", "postgres"}
  MaxActs = 3
  MaxRefused = 1
SPECIFICATION Spec
INVARIANTS DeskTypeOK TellsWhatHappened PatientPageAgrees
PROPERTIES CallsAreAnswered EventsAreAnnounced
CHECK_DEADLOCK FALSE
