SPECIFICATION ComponentsSpec
CONSTANTS
  None = None
  MaxCalls = 2
  c1 = c1
  c2 = c2
  r1 = r1
  p1 = p1
  rule1 = rule1
  fdir = fdir
  f1 = f1
  f2 = f2
  n1 = n1
  n2 = n2
  n3 = n3
  CollectionIds <- MCCollections
  MemberRows <- MCMembers
  FirstShelf <- MCShelf
  ImportedShelf <- MCImported
  MaxAnnounced = 1
  Tabs <- MCTabs
  Projects = {p1}
  Rules = {rule1}
  FullPages <- MCFullPages
  Entries = {1, 2}
  Forms = {1, 2}
  Kick = "kick"
  Other = "other"
  Texts = {"x", "y"}
  Queries = {q1}
  Sounds = {s1, s2}
  LabelNames = {d1, n1}
  DefaultNames = {d1}
  MaxLabelId = 2
  MaxDirectories = 2
  MaxFailedRescans = 1
  Midis = {1, 2}
  MidiMatches <- MCMatches
  Directories = {fdir}
  MidiLimit = 1
  Songs = {song1, song2}
  Surfers = {w1, w2}
  Semitones = {0, 7}
  Paths = {path1, path2}
  LibrarySounds = {"a", "b"}
  Similar <- MCSimilar
  Embedded = {"a"}
  TypeNames = {"kick", "pad"}
  RecentLimit = 1
  MidiFiles = {1, 2}
  TagIds = {1}
  TagTexts = {"a", "b"}
  Words = {"kick", "hard"}
  Instruments = {"kick", "other", "tom"}
  BuiltIn = {"kick", "other"}
  LibraryRows <- MCRows
  KeysWritten <- MCKeys
  MaxClauses = 2
  RowIds = {1, 2, 3}
  Tempo <- MCTempo
  Flagged = {1, 3}
  Given <- MCGiven
  MaxHistory = 1
  RowNumbers = {1}
  AudioFiles = {f1, f2}
  Seconds = 1
  TypedTimes = {2}
  Levels = {0}
  Names = {n1, n2, n3}
  PortableKey <- MCPortableKey
  SampleIds = {1, 2}
  SamplePaths = {f1, f2}
  Analyzed <- MCAnalyzed
  Licenses = {cc0}
  ShelfNames = {s1}
  MaxTakes = 3
  MidiIds = {1, 2}
  MidiTagIds = {1, 2}
  MidiPaths = {f1, f2}
  SeededTags = {"a"}
  TypedTags = {"b"}
  MaxAssignments = 2
  MaxInserts = 5
  LibraryContents = {"mine", "theirs"}
  Foreign <- MCForeign
  Tasks = {1, 2, 3}
  Workers = 2
INVARIANTS
  ComponentsTypeOK
  FlagsMatchWork
  NothingLeaks
  ShownIsAsked
  EditsHold
  SoundIsOwned
  LibraryKept
  WorkAccounted
CHECK_DEADLOCK FALSE
