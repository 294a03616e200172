CONSTANTS
  Input <- MCInput
  Turn = {t1, t2}
  Owner = {1, 2}
  Request <- MCRequest
  Revocable <- MCNone
  NoTurn = NoTurn
  NoOwner = 0
  NoSeed = NoSeed
  MaxPending = 2
  BatchMax = 2
  MaxRounds = 2
  Paths = {"hosted"}
  UserKinds = {"queued", "steer", "message"}
  Events = {}
SPECIFICATION RuntimeSpec
INVARIANTS NoStrandedInput NotSentTwice NoCorrectionDropped
CHECK_DEADLOCK FALSE
SYMMETRY MCSymmetry
VIEW MCView
