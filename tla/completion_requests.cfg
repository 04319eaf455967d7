\* A plain and a streaming request of one replica, a plain one of a peer; clients disconnect, the store fails, deadlines pass.
SPECIFICATION CompletionSpec
CONSTANTS
  p1 = p1  p2 = p2  r1 = r1  r2 = r2  r3 = r3
  None = None  Bad = Bad
  Replica = {p1, p2}
  Run = {r1, r2, r3}
  Home <- SharedHome
  Streaming = {r2}
  Faults = {"late", "cancel", "store"}
INVARIANTS CompletionTypeOK RiderFailsForACause
PROPERTIES Coalesced RequestsAnswered TendedEntryLeavesMap
CHECK_DEADLOCK FALSE
