SPECIFICATION ActionsFairSpec
CONSTANTS
  t1 = t1
  t2 = t2
  Free = Free
  Poisoned = Poisoned
  Threads <- MCThreads
  SampleIds <- MCSampleIds
  IdLists <- MCIdLists
  Commands <- MCCommands
  Capacity = 1
  MaxRetries = 1
  MaxCommands = 3
  MaxRequests = 3
INVARIANTS
  ActionsTypeOK
  WriteKeepsItsSlot
  RefusedLeavesNoTrace
  MembersSound
  NothingHeldWhenAnswered
PROPERTIES
  EveryRequestAnswered
