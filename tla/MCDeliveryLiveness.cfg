SPECIFICATION FairSpec
CONSTANTS
  t1 = t1
  show = show
  changed = changed
  Threads <- MCThreads
  Commands <- MCCommands
  CollectionsChanged = changed
  Faults = {"wake", "call", "handler"}
  Capacity = 1
  MaxRetries = 1
  MaxCommands = 1
  MaxRenderers = 2
PROPERTIES
  SettledIfDrainsRecur
