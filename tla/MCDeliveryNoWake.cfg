SPECIFICATION FairSpec
CONSTANTS
  t1 = t1
  show = show
  changed = changed
  Threads <- MCThreads
  Commands <- MCCommands
  CollectionsChanged = changed
  Faults = {"handler"}
  Capacity = 2
  MaxRetries = 3
  MaxCommands = 1
  MaxRenderers = 1
PROPERTIES
  SettledWhileListening
