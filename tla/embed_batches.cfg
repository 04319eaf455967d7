\* Three overlapping batches; everything may fail and clients may leave.
SPECIFICATION Spec
CONSTANTS
  b1 = b1  b2 = b2  b3 = b3  k1 = k1  k2 = k2
  None = None
  Batch = {b1, b2, b3}
  Key = {k1, k2}
  Wants <- Bridge
  Faults = {"provider", "store", "cancel", "evict"}
INVARIANTS TypeOK OneFetchPerKey EveryKeyIsFetched BilledOnce
PROPERTIES BatchesFinish
CHECK_DEADLOCK FALSE
