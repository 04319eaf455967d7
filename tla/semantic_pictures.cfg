\* Two requests with the same caption to different pictures, semantic tier on.
SPECIFICATION Spec
CONSTANTS
  s1 = s1  s2 = s2
  Blank = {"space"}  Stop = {}  Fold <- TheFold
  AsInteger <- TheIntegers  Integers = {"1", "7"}
  Builtin <- TheBuiltin  ValidNames = {"openai", "anthropic"}
  Slot <- Slots
  Settings <- Shipped
  Requests <- Pictures
  MaxEvents = 2
  Near <- TheNear
  Statuses = {"200", "429"}
  Faults = {}
  Cosmetic <- TheCosmetic
SYMMETRY SlotSymmetry
INVARIANTS SemanticHitsMatchTheRest
CHECK_DEADLOCK FALSE
