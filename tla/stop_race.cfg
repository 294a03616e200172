CONSTANTS
  Input <- MCOneInput
  Turn = {t1, t2}
  Owner = {1}
  Request <- MCRequest
  Revocable <- MCNone
  NoTurn = NoTurn
  NoOwner = 0
  NoSeed = NoSeed
  MaxPending = 2
  BatchMax = 2
  MaxRounds = 1
  Paths = {"hosted"}
  UserKinds = {"queued"}
  Events = {"stop"}
SPECIFICATION RuntimeSpec
PROPERTIES StopIsFinal
CHECK_DEADLOCK FALSE
