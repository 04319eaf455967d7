\* Three replicas, one of them streaming; no Redis failure and no expired lock.
SPECIFICATION Spec
CONSTANTS
  p1 = p1  p2 = p2  p3 = p3  r1 = r1  r2 = r2  r3 = r3
  None = None  Bad = Bad
  Replica = {p1, p2, p3}
  Run = {r1, r2, r3}
  Home <- OneRunEach
  Streaming = {r3}
  Faults = {"loss", "late", "upstream"}
INVARIANTS TypeOK OneLeader PromotionNeedsAFailure
PROPERTIES LockIsReleased ImplementsSingleFlight
CHECK_DEADLOCK FALSE
