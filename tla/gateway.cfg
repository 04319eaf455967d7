\* Three requests or restarts on two slots; upstreams, streams and the store may fail.
\* A behaviour ends when its requests are served.
SPECIFICATION Spec
CONSTANTS
  s1 = s1  s2 = s2
  Blank = {"space"}  Stop = {}  Fold <- TheFold
  AsInteger <- TheIntegers  Integers = {"1", "7"}
  Builtin <- TheBuiltin  ValidNames = {"openai", "anthropic"}
  Slot <- Slots
  Settings <- TheSettings
  Requests <- TheRequests
  MaxEvents = 3
  Near <- TheNear
  Statuses = {"200", "429"}
  Faults = {"store", "upstream", "stream"}
  Cosmetic <- TheCosmetic
SYMMETRY SlotSymmetry
INVARIANTS TypeOK AnswersAreForTheRequest StoreIsRepeatable DeletesLast CountedAsAnswered
CHECK_DEADLOCK FALSE
