CONSTANTS
  Services = {"queue", "waits", "kids", "writes", "stream", "close", "control", "home"}
  Job = {1, 2, 3}
  Guest = {10}
  NoJob = NoJob
  Waiters = {1, 2, 10}
  KeyOf <- MCKeyOf
  Concurrency = 2
  MaxWaits = 1
  Task = {1, 2}
  Child = {2}
  Call = {1, 2}
  CallerOf <- MCCallerOf
  NoTask = 0
  MaxEvents = 1
  Kid = {1, 2}
  Cancellable = {1}
  Recovery = Recovery
  MaxCrashes = 1
  Producer = {"a", "b"}
  Stream = {"answer_a", "reasoning_a", "answer_b"}
  TurnOf <- MCTurnOf
  MaxEmits <- MCMaxEmits
  MaxWrites = 1
  MaxStreams = 2
  MaxStored = 4
  PageSize = 1
  MaxQueued = 2
  MaxDrops = 1
  UserSend = {u}
  FollowupSend = {s1, s2}
  Followup = {j1}
  Request = {1, 2}
  Poll = {1, 2}
  Executor = {1, 2}
  NoExecutor = 0
  TokenOf <- MCTokenOf
  MaxRequests = 1
  Launch = {1, 2, 3}
  Nobody = 0
  MaxLevel = 2
SPECIFICATION ServicesSpec
INVARIANTS ServicesTypeOK SlotsAreOwned OneJobPerKey NothingOverlooked NoWaitCycle NothingMissed WaitingIsServed
  ReportedOnce StoredInOrder AppliedWithoutGap CloseLeaksNothing NoPollSleepsOnWork HandedOutOnce OneOwner
PROPERTIES DriverIsKept SettledIsFinal HandedToRegistered EveryJobEnds EveryWaitEnds EverythingIsStored EveryEventArrives CloseEnds
CHECK_DEADLOCK FALSE
