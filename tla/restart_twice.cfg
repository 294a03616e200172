CONSTANTS
  Input <- MCOneInput
  Turn = {t1, t2}
  Owner = {1, 2, 3}
  Request <- MCRequest
  Revocable <- MCNone
  NoTurn = NoTurn
  NoOwner = 0
  NoSeed = NoSeed
  MaxPending = 2
  BatchMax = 2
  MaxRounds = 1
  Paths = {"hosted"}
  UserKinds = {"queued"}
  Events = {"crash"}
SPECIFICATION RuntimeSpec
INVARIANTS NoGhostTurn
CHECK_DEADLOCK FALSE
