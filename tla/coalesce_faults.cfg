\* Every fault; two plain runs of one replica and a streaming run of a peer.
SPECIFICATION Spec
CONSTANTS
  p1 = p1  p2 = p2  p3 = p3  r1 = r1  r2 = r2  r3 = r3
  None = None  Bad = Bad
  Replica = {p1, p2}
  Run = {r1, r2, r3}
  Home <- SharedHome
  Streaming = {r3}
  Faults = {"ttl", "redis", "loss", "late", "upstream", "store", "evict", "crash", "cancel"}
PROPERTIES ReleaseSparesOthers RunsEnd
CHECK_DEADLOCK FALSE
