\* The same batches and a provider that may fail; every client stays.
SPECIFICATION Spec
CONSTANTS
  b1 = b1  b2 = b2  b3 = b3  k1 = k1  k2 = k2
  None = None
  Batch = {b1, b2, b3}
  Key = {k1, k2}
  Wants <- Bridge
  Faults = {"provider"}

PROPERTIES FetchLeavesMap
CHECK_DEADLOCK FALSE
