CONSTANTS
  Input <- MCOneInput
  Turn = {t1, t2}
  Owner = {1}
  Request <- MCRequest
  Revocable <- MCNone
  NoTurn = NoTurn
  NoOwner = 0
  NoSeed = NoSeed
  MaxPending = 2
  BatchMax = 2
  MaxRounds = 1
  Paths = {"direct"}
  UserKinds = {"queued"}
  Events = {}
SPECIFICATION RuntimeSpec
INVARIANTS StartedOnce
CHECK_DEADLOCK FALSE
