CONSTANTS
  Job = {1, 2}
  Guest = {10}
  NoJob = NoJob
  Waiters = {1, 2, 10}
  KeyOf <- MCKeyOf
  Concurrency = 1
  MaxWaits = 1
SPECIFICATION QueueSpec
INVARIANT WaitingHoldsNothing
CHECK_DEADLOCK FALSE
