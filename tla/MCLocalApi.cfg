SPECIFICATION LocalApiSpec
CONSTANTS
  None = None
  t1 = t1
  t2 = t2
  show = show
  changed = changed
  i1 = i1
  i2 = i2
  i3 = i3
  c1 = c1
  c2 = c2
  Threads <- MCThreads
  Commands <- MCCommands
  Capacity = 3
  MaxRetries = 3
  MaxCommands = 5
  Nobody = Nobody
  Instances <- MCInstances
  Calls <- MCCalls
  MaxCalls = 1
  Paths = {path1, path2}
  MaxPreviews = 2
INVARIANTS
  LocalApiTypeOK
  CapacityBound
  ReservationsAccounted
  OneHome
  ManifestNamesListener
  DiscoverableUnlessOvertaken
  AdmittedOnce
  PreviewKept
PROPERTIES
  ImplementsMailbox
CHECK_DEADLOCK FALSE
