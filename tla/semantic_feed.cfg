\* A completion and a DELETE on two replicas; trimming, expiry, failing appends, restarts that read in pages.
SPECIFICATION Spec
CONSTANTS
  p1 = p1  p2 = p2  k1 = k1  k2 = k2  t1 = t1  t2 = t2
  Replica = {p1, p2}
  Key = {k1, k2}
  Task = {t1, t2}
  Deletes = {t2}
  Home <- Homes
  Target <- Targets
  Earlier <- TwoVectors
  Stored = {}
  Page = 2
  BootPage = 2
  Restarts = 2
  Faults = {"expire", "trim", "feed", "boot"}
INVARIANTS TypeOK CaughtUpAgrees
PROPERTIES BootRevivesOnlyTheTorn
CHECK_DEADLOCK FALSE
