SPECIFICATION Spec
CONSTANT MaxFrames = 3
INVARIANTS FinishedIsComplete TranscriptAccounts DelayIsShort
PROPERTIES ImplementsChannel
CHECK_DEADLOCK FALSE
