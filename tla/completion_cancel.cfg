\* One replica whose plain clients may disconnect.
SPECIFICATION CompletionSpec
CONSTANTS
  p1 = p1  p2 = p2  r1 = r1  r2 = r2  r3 = r3
  None = None  Bad = Bad
  Replica = {p1}
  Run = {r1, r2, r3}
  Home <- OneReplica
  Streaming = {}
  Faults = {"cancel"}
PROPERTIES EntryLeavesMap
CHECK_DEADLOCK FALSE
