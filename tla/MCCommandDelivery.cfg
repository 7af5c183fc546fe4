SPECIFICATION Spec
CONSTANTS
  t1 = t1
  show = show
  changed = changed
  Threads <- MCThreads
  Commands <- MCCommands
  CollectionsChanged = changed
  Faults = {"wake", "call", "handler"}
  Capacity = 2
  MaxRetries = 1
  MaxCommands = 2
  MaxRenderers = 2
INVARIANTS
  DeliveryTypeOK
  OncePerRenderer
  AdmissionOrder
PROPERTIES
  NoSilentLoss
