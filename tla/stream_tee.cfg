\* Ten streams and four variants of them with other line ends, read and broken anywhere.
SPECIFICATION Spec
CONSTANTS
  None = None
  Kind <- MCKind
  Chunk <- MCChunk
  Scripts <- MCScripts
  PlainBodies <- MCPlainBodies
  DoneEvent = "done"
INVARIANTS TypeOK CaptureIgnoresReads StoredAnswerIsWhole InjectedUsageIsHidden
  ReplayTellsTheAnswer
PROPERTIES TeeEnds
CHECK_DEADLOCK FALSE
