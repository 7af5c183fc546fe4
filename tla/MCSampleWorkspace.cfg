SPECIFICATION Spec
CONSTANTS
  None = None
  ClearAll = ClearAll
  Any = Any
  kick = kick
  all = all
  some = some
  loops = loops
  Ids <- MCIds
  Queries <- MCQueries
  EmptyQuery = all
  Instruments <- MCInstruments
  Directories <- MCDirectories
  Found <- MCFound
  Inside <- MCInside
  InitialLibrary <- MCLibrary
  ExternalLists <- MCExternal
  PageLimit = 2
  MaxCalls = 3
  MaxJobs = 1
  MaxActs = 3
INVARIANTS
  WorkspaceTypeOK
  NoDuplicateRows
  ActionableRows
  FlagsMatchCalls
  SelectionConsistent
  QuietListComplete
PROPERTIES
  WorkspaceSettles
CHECK_DEADLOCK FALSE
