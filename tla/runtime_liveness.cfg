CONSTANTS
  Input <- MCOneInput
  Turn = {t1, t2}
  Owner = {1}
  Request <- MCRequest
  Revocable <- MCNone
  NoTurn = NoTurn
  NoOwner = 0
  NoSeed = NoSeed
  MaxPending = 1
  BatchMax = 2
  MaxRounds = 1
  Paths = {"hosted"}
  UserKinds = {"queued", "steer"}
  Events = {}
SPECIFICATION FairRuntimeSpec
INVARIANT StartedOnce
PROPERTIES QueueServed SteerSettles
CHECK_DEADLOCK FALSE
