CONSTANTS
  NoAnchor = NoAnchor
  JumpSteps = 2
  InFlightMax = 2
  MaxRefused = 1
SPECIFICATION Spec
INVARIANTS RfqSilentWhileWithdrawn EndsDark
PROPERTIES EpochBehindItsLadder WithdrawnGoesDark DarkPoolComesBack
CHECK_DEADLOCK FALSE
