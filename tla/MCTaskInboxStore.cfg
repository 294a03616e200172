CONSTANTS
  Input <- MCInput
  Turn = {t1, t2}
  Owner = {o1, o2}
  Request = {r1, r2}
  Revocable <- MCRevocable
  NoTurn = NoTurn
  NoOwner = NoOwner
  MaxPending = 1
  BatchMax = 2
SPECIFICATION StoreSpec
INVARIANTS TypeOK ReceiptHasManifest SteerIsBound AcceptingIsOpen
PROPERTIES DeliveredInOrder KeepsReceipts
CHECK_DEADLOCK FALSE
SYMMETRY MCSymmetry
CONSTRAINT MCExplored
