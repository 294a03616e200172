CONSTANTS
  Kid = {1}
  Cancellable = {}
  Recovery = Recovery
  MaxCrashes = 1
SPECIFICATION KidsSpec
INVARIANT OutcomeIsReported
CHECK_DEADLOCK FALSE
