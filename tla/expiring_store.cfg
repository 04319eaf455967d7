\* Two puts, a DELETE and two reads; a life of one second of two ticks.
SPECIFICATION Spec
CONSTANTS
  p1 = p1  p2 = p2  d1 = d1  r1 = r1  r2 = r2
  None = None
  Put = {p1, p2}
  Delete = {d1}
  Read = {r1, r2}
  TtlSetting = 1
  Grain = 2
  MaxClock = 7
  Faults = {"store", "timeout"}
SYMMETRY Twins
INVARIANTS TypeOK NeverServesExpired AckedPutStaysDeleted
PROPERTIES LiveRowLostOnlyToARace
CHECK_DEADLOCK FALSE
