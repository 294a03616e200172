CONSTANTS
  Input <- MCOneInput
  Turn = {t1, t2}
  Owner = {1}
  Request <- MCRequest
  Revocable <- MCOneInput
  NoTurn = NoTurn
  NoOwner = 0
  NoSeed = NoSeed
  MaxPending = 1
  BatchMax = 2
  MaxRounds = 1
  Paths = {"hosted", "direct"}
  UserKinds = {"followup", "steer"}
  Events = {"setup", "lease", "stop"}
SPECIFICATION RuntimeSpec
INVARIANT RuntimeTypeOK
PROPERTY StoreSpec
CHECK_DEADLOCK FALSE
SYMMETRY MCSymmetry
VIEW MCView
