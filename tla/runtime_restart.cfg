CONSTANTS
  Input <- MCInput
  Turn = {t1, t2}
  Owner = {1, 2}
  Request <- MCRequest
  Revocable <- MCNone
  NoTurn = NoTurn
  NoOwner = 0
  NoSeed = NoSeed
  MaxPending = 1
  BatchMax = 2
  MaxRounds = 1
  Paths = {"hosted"}
  UserKinds = {"queued","message","steer"}
  Events = {"crash"}
SPECIFICATION RuntimeSpec
INVARIANTS NoStrandedInput InclusionIsLive OneTurnAtATime NoGhostTurn
CHECK_DEADLOCK FALSE
SYMMETRY MCSymmetry
VIEW MCView
