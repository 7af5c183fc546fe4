---------------------------- MODULE LibraryProofs -----------------------------
(***************************************************************************)
(* What is proved of the library's data and of the screens that list it:   *)
(* the export and import of a library, the analysis pool, the import of a  *)
(* provider's archive, the rows and collections of samples, the tags of    *)
(* MIDI files; the scans, the discovery screen, the MIDI list, the sample  *)
(* list, the sidebar of collections, the panel of similar samples, and what*)
(* is dragged out of the list.  Each part has an inductive invariant that  *)
(* says what holds in the middle of an operation, where the promises of the*)
(* models often only speak of its end.                                     *)
(***************************************************************************)
EXTENDS LibraryMigration, AnalysisPool, ProviderImport, SampleStore, MidiStore, LibraryScan, Discovery,
        MidiLibrary, ListSelection, Collections, SimilarSearch, DragOut,
        FiniteSetTheorems, FunctionTheorems, SequenceTheorems, WellFoundedInduction, TLAPS

-----------------------------------------------------------------------------
(***************************************************************************)
(* Numbers and queues: two facts that several parts need.                  *)
(***************************************************************************)

\* A nonempty set of numbers has a smallest one.
LEMMA SmallestNumber ==
  ASSUME NEW S, S \subseteq Nat, S # {}
  PROVE  \E m \in S : \A n \in S : m <= n
  <1> DEFINE Less == {ss \in Nat \X Nat : ss[1] < ss[2]}
  <1>1. IsWellFoundedOn(Less, Nat)
    BY NatLessThanWellFounded DEF OpToRel
  <1> HIDE DEF Less
  <1>2. PICK m \in S : \A n \in S : ~ (<<n, m>> \in Less)
    BY <1>1, WFMin
  <1>3. \A n \in S : ~(n < m)
    BY <1>2 DEF Less
  <1> QED
    BY <1>3

\* The head of a queue leaves it, or something takes its place at the end.
LEMMA QueueAdvances ==
  ASSUME NEW S, NEW n \in Nat, NEW q \in Seq(S), Len(q) = n, q # << >>, NEW x \in S
  PROVE  /\ n > 0 /\ Tail(q) \in Seq(S) /\ Len(Tail(q)) = n - 1
         /\ \A i \in 1..n - 1 : Tail(q)[i] = q[i + 1]
         /\ Append(Tail(q), x) \in Seq(S) /\ Len(Append(Tail(q), x)) = n
         /\ \A i \in 1..n - 1 : Append(Tail(q), x)[i] = q[i + 1]
         /\ Append(Tail(q), x)[n] = x
         /\ Head(q) = q[1]
  <1>1. /\ n > 0 /\ Tail(q) \in Seq(S) /\ Len(Tail(q)) = n - 1
        /\ \A i \in 1..n - 1 : Tail(q)[i] = q[i + 1]
        /\ Head(q) = q[1]
    OBVIOUS
  <1>2. PICK p \in Seq(S) : p = Tail(q)
    BY <1>1
  <1>3. /\ Append(p, x) \in Seq(S) /\ Len(Append(p, x)) = Len(p) + 1
        /\ \A i \in 1..Len(p) : Append(p, x)[i] = p[i]
        /\ Append(p, x)[Len(p) + 1] = x
    OBVIOUS
  <1> QED
    BY <1>1, <1>2, <1>3

-----------------------------------------------------------------------------
(***************************************************************************)
(* Export and import.  The invariant says what each copy is at each step:  *)
(* the staged copy is the folder's library made current, the rollback copy *)
(* is the library the import began with, and the open library is one of    *)
(* the two.                                                                *)
(***************************************************************************)
Sound(copy) == copy \in Copies /\ copy.whole /\ copy.schema = "current"

FilesSound ==
  /\ Sound(live) /\ Sound(before)
  /\ target # None => Sound(target)
  /\ job # "idle" => outcome = "open"

ExportSteps == job = "replace" => temp = live

ImportSteps ==
  /\ job = "validate" => staged = given /\ given \in Copies
  /\ job \in {"save", "restore"} =>
       given \in Copies /\ given.whole /\ staged = Current(given)
  /\ job \in {"validate", "save", "restore"} => live = before
  /\ job \in {"restore", "undo"} => rollback = before
  /\ job = "tidySuccess" => given.whole /\ live = Current(given)
  /\ job = "undo" => live = before \/ (given \in Copies /\ given.whole /\ live = Current(given))
  /\ job = "tidyFailure" => live.lib = before.lib \/ (undoFailed /\ live = Current(given))

MigrationInv ==
  /\ FilesSound /\ ExportSteps /\ ImportSteps
  /\ outcome = "exported" => target = live
  /\ ImportTellsTruth

LEMMA CurrentIsSound ==
  ASSUME NEW copy \in Copies, copy.whole
  PROVE  Sound(Current(copy)) /\ Current(copy).lib = copy.lib
  <1>1. DOMAIN copy = {"lib", "schema", "whole"} /\ copy.lib \in LibraryContents
    BY DEF Copies
  <1>2. copy = [k \in {"lib", "schema", "whole"} |-> copy[k]]
    BY DEF Copies
  <1>3. Current(copy) = [k \in {"lib", "schema", "whole"} |->
                          IF k = "schema" THEN "current" ELSE copy[k]]
    BY <1>2, Zenon DEF Current
  <1>4. /\ Current(copy).lib = copy.lib
        /\ Current(copy).schema = "current"
        /\ Current(copy).whole = copy.whole
    BY <1>3
  <1>5. Current(copy) = [lib |-> copy.lib, schema |-> "current", whole |-> copy.whole]
    BY <1>3
  <1> QED
    BY <1>1, <1>4, <1>5 DEF Copies, Sound

LEMMA SoundIsCurrent ==
  ASSUME NEW copy, Sound(copy) PROVE Current(copy) = copy
  BY DEF Sound, Copies, Current

LEMMA MigrationInitInv == MigrationInit => MigrationInv
  <1> SUFFICES ASSUME MigrationInit PROVE MigrationInv
    OBVIOUS
  <1>1. Sound(live)
    BY DEF MigrationInit, Sound, Copies, Library
  <1> QED
    BY <1>1 DEF MigrationInit, MigrationInv, FilesSound, ExportSteps, ImportSteps,
                ImportTellsTruth

LEMMA MigrationNextInv == MigrationInv /\ [MigrationNext]_migrationVars => MigrationInv'
  <1> SUFFICES ASSUME MigrationInv, [MigrationNext]_migrationVars PROVE MigrationInv'
    OBVIOUS
  <1> USE DEF MigrationInv, FilesSound, ExportSteps, ImportSteps, ImportTellsTruth,
              JobEnds, NextStep, pastVars, fileVars
  <1>1. ASSUME NEW lib \in LibraryContents, ChangeLibrary(lib) PROVE MigrationInv'
    <2>1. Sound(live')
      BY <1>1 DEF ChangeLibrary, Sound, Copies
    <2> QED
      BY <1>1, <2>1 DEF ChangeLibrary
  <1>2. CASE StartExport
    BY <1>2 DEF StartExport
  <1>3. CASE BackUp
    BY <1>3 DEF BackUp
  <1>4. CASE ReplaceTarget
    BY <1>4 DEF ReplaceTarget
  <1>5. ASSUME NEW copy \in Foreign \cup ({target} \ {None}), StartImport(copy)
        PROVE  MigrationInv'
    <2>1. copy \in Copies
      BY MigrationAssumption DEF Sound
    <2> QED
      BY <1>5, <2>1 DEF StartImport
  <1>6. CASE ValidateStaged
    BY <1>6 DEF ValidateStaged
  <1>7. CASE SaveRollback
    BY <1>7 DEF SaveRollback
  <1>8. CASE RestoreStaged
    <2>1. Sound(staged)
      BY <1>8, CurrentIsSound DEF RestoreStaged
    <2> QED
      BY <1>8, <2>1 DEF RestoreStaged
  <1>9. CASE Undo
    <2>1. Sound(rollback) /\ Current(rollback) = rollback /\ rollback = before
      BY <1>9, SoundIsCurrent DEF Undo
    <2>2. live' = before \/ (undoFailed' /\ live' = Current(given))
      BY <1>9, <2>1 DEF Undo
    <2> QED
      BY <1>9, <2>1, <2>2 DEF Undo
  <1>10. CASE TidyUp
    BY <1>10 DEF TidyUp, Tidy
  <1>11. CASE RestartMigration
    <2>1. Current(live) = live
      BY SoundIsCurrent
    <2> QED
      BY <1>11, <2>1 DEF RestartMigration
  <1>12. CASE UNCHANGED migrationVars
    BY <1>12 DEF migrationVars
  <1> QED
    BY <1>1, <1>2, <1>3, <1>4, <1>5, <1>6, <1>7, <1>8, <1>9, <1>10, <1>11, <1>12
    DEF MigrationNext

\* What each copy of a library is, at every step of an export and an import, for every
\* folder that is given and wherever the program ends.
THEOREM MigrationInvariant == MigrationSpec => []MigrationInv
  BY MigrationInitInv, MigrationNextInv, PTL DEF MigrationSpec

LEMMA MigrationKept ==
  MigrationInv => ExportWhole /\ LiveWhole /\ ImportTellsTruth /\ OldLibraryKept
  <1>1. MigrationInv => ExportWhole /\ LiveWhole
    BY DEF MigrationInv, FilesSound, Sound, ExportWhole, LiveWhole
  <1>2. MigrationInv => ImportTellsTruth /\ OldLibraryKept
    BY DEF MigrationInv, ImportSteps, OldLibraryKept
  <1> QED
    BY <1>1, <1>2

\* Whatever fails, and whenever the program ends: the folder of exports holds a
\* whole library or none, the open library is whole and current, the answer of
\* an import is true and an error of it leaves one of the two libraries as a whole,
\* and the library it replaces is not lost before it is through.
THEOREM MigrationSafe ==
  MigrationSpec => [](ExportWhole /\ LiveWhole /\ ImportTellsTruth /\ OldLibraryKept)
  BY MigrationKept, MigrationInvariant, PTL

-----------------------------------------------------------------------------
(***************************************************************************)
(* The analysis pool.  The writer only ends when no result can come any    *)
(* more, and no result can come once shutdown has dropped the pool's       *)
(* sender: the two are needed together.                                    *)
(***************************************************************************)
Places == {"new", "queued", "running", "sent", "stored", "refused", "panicked", "dropped"}

PoolInv ==
  /\ task \in [Tasks -> Places]
  /\ writer = "ended" =>
       pool # "open" /\ \A t \in Tasks : task[t] \notin {"queued", "running", "sent"}
  /\ writer # "dead" => \A t \in Tasks : task[t] # "dropped"
  /\ pool = "closed" => writer \in {"ended", "dead"}

LEMMA PoolNextInv == PoolInv /\ [PoolNext]_poolVars => PoolInv'
  <1> SUFFICES ASSUME PoolInv, [PoolNext]_poolVars PROVE PoolInv'
    OBVIOUS
  <1> USE DEF PoolInv, Places, MoveTask
  <1>1. ASSUME NEW t \in Tasks, Queue(t) \/ StartTask(t) \/ FinishTask(t) \/ WriteResult(t)
        PROVE  PoolInv'
    BY <1>1 DEF Queue, StartTask, FinishTask, WriteResult
  <1>2. CASE OpenDatabase
    BY <1>2 DEF OpenDatabase
  <1>3. CASE WriterEnds
    BY <1>3 DEF WriterEnds, Where
  <1>4. CASE Shutdown \/ WriterJoined \/ UNCHANGED poolVars
    BY <1>4 DEF Shutdown, WriterJoined, poolVars
  <1> QED
    BY <1>1, <1>2, <1>3, <1>4 DEF PoolNext

LEMMA PoolInitInv == PoolInit => PoolInv
  BY DEF PoolInit, PoolInv, Places

LEMMA PoolKept == PoolInv => PoolDrained
  BY DEF PoolInv, PoolDrained, Where

\* When shutdown returns, no analysis is queued, running or waiting to be written,
\* and none was thrown away, for every number of files and workers.
THEOREM ShutdownDrains == PoolSpec => []PoolDrained
  BY PoolInitInv, PoolKept, PoolNextInv, PTL DEF PoolSpec

-----------------------------------------------------------------------------
(***************************************************************************)
(* The import of an archive.  The rollback knows of every file the import  *)
(* made and of no other: a name it created was free, and the file there is *)
(* its own until the import ends.                                          *)
(***************************************************************************)
ImportFilesOK ==
  /\ folder \in [Names -> Files \cup {None}]
  /\ download \in Downloads \cup {None}
  /\ kept \subseteq Names
  /\ lastReady # None => lastReady \subseteq Names

RollbackKnowsItsFiles ==
  download # None =>
    /\ \A n \in download.created : folder[n] \in {OwnFile(TRUE), OwnFile(FALSE)}
    /\ download.step \in {"copying", "writing", "preflight"} =>
         download.files \subseteq download.left \cup download.created

OwnFilesAreKnown ==
  ~stuck => \A n \in Names :
    folder[n] # None /\ folder[n].by = "import" => download # None /\ n \in download.created

ImportInv ==
  /\ ImportFilesOK /\ RollbackKnowsItsFiles /\ OwnFilesAreKnown
  /\ download = None /\ ~stuck => ~staging
  /\ NothingOverwritten /\ ReadyIsWhole

LEMMA FileFacts ==
  /\ OwnFile(TRUE) # None /\ OwnFile(FALSE) # None /\ OtherFile # None /\ SettledFile # None
  /\ OwnFile(TRUE).by = "import" /\ OwnFile(FALSE).by = "import"
  /\ OtherFile.by = "other" /\ SettledFile.by = "settled"
  /\ \A d \in Downloads : d # None
  BY ImportAssumption DEF Files, OwnFile, OtherFile, SettledFile

LEMMA ImportNextInv == ImportInv /\ [ImportNext]_importVars => ImportInv'
  <1> SUFFICES ASSUME ImportInv, [ImportNext]_importVars PROVE ImportInv'
    OBVIOUS
  <1> USE FileFacts
      DEF ImportInv, ImportFilesOK, RollbackKnowsItsFiles, OwnFilesAreKnown,
          NothingOverwritten, ReadyIsWhole, ImportAt, ImportGoto
  <1>1. CASE BeginImport
    BY <1>1 DEF BeginImport, Downloads
  <1>2. CASE StreamArrives
    BY <1>2 DEF StreamArrives, Downloads
  <1>3. ASSUME NEW files \in SUBSET Names, Unpack(files) PROVE ImportInv'
    BY <1>3 DEF Unpack, Downloads
  <1>4. CASE PreflightPasses
    BY <1>4 DEF PreflightPasses, Downloads
  <1>5. ASSUME NEW n \in Names, CreateFile(n) PROVE ImportInv'
    <2>1. /\ download # None /\ download \in Downloads
          /\ \A m \in Names : folder'[m] = IF m = n THEN OwnFile(FALSE) ELSE folder[m]
          /\ download'.created = download.created \cup {n}
          /\ download'.files = download.files /\ download'.left = download.left
          /\ download' \in Downloads
      BY <1>5 DEF CreateFile, Downloads
    <2>2. ImportFilesOK'
      BY <1>5, <2>1 DEF CreateFile, Files
    <2>3. RollbackKnowsItsFiles'
      BY <1>5, <2>1 DEF CreateFile, Downloads
    <2>4. OwnFilesAreKnown'
      BY <1>5, <2>1 DEF CreateFile
    <2>5. NothingOverwritten' /\ ReadyIsWhole'
      BY <1>5, <2>1 DEF CreateFile
    <2> QED
      BY <1>5, <2>1, <2>2, <2>3, <2>4, <2>5
  <1>6. ASSUME NEW n \in Names, FileWritten(n) PROVE ImportInv'
    <2>1. /\ download # None /\ download \in Downloads
          /\ \A m \in Names : folder'[m] = IF m = n THEN OwnFile(TRUE) ELSE folder[m]
          /\ download'.created = download.created /\ n \in download.created
          /\ download'.files = download.files /\ download'.left = download.left \ {n}
          /\ download.step = "writing" /\ download' \in Downloads
      BY <1>6 DEF FileWritten, Downloads
    <2>2. ImportFilesOK'
      BY <1>6, <2>1 DEF FileWritten, Files
    <2>3. RollbackKnowsItsFiles'
      BY <1>6, <2>1 DEF FileWritten, Downloads
    <2>4. OwnFilesAreKnown'
      BY <1>6, <2>1 DEF FileWritten
    <2>5. n \notin kept /\ (lastReady # None => n \notin lastReady)
      BY <2>1
    <2>6. NothingOverwritten' /\ ReadyIsWhole'
      BY <1>6, <2>1, <2>5 DEF FileWritten
    <2> QED
      BY <1>6, <2>1, <2>2, <2>3, <2>4, <2>6
  <1>7. CASE Promoted
    BY <1>7 DEF Promoted, Downloads, Files
  <1>8. CASE ImportFails
    <2>1. PICK immovable \in SUBSET download.created, dirStays \in BOOLEAN :
            /\ folder' = [m \in Names |->
                 IF m \in download.created \ immovable THEN None ELSE folder[m]]
            /\ staging' = dirStays
            /\ stuck' = (stuck \/ immovable # {} \/ dirStays)
      BY <1>8, Zenon DEF ImportFails, RolledBack
    <2>2. download # None /\ download \in Downloads
      BY <1>8 DEF ImportFails
    <2>3. ImportFilesOK'
      BY <1>8, <2>1 DEF ImportFails
    <2>7. ~stuck' => ~stuck /\ immovable = {} /\ ~staging'
      BY <2>1, Zenon
    <2>4. OwnFilesAreKnown' /\ (~stuck' => ~staging')
      BY <1>8, <2>1, <2>2, <2>7 DEF ImportFails
    <2>5. NothingOverwritten' /\ ReadyIsWhole'
      BY <1>8, <2>1, <2>2, ZenonT(40) DEF ImportFails
    <2> QED
      BY <1>8, <2>3, <2>4, <2>5 DEF ImportFails
  <1>9. CASE ProgramEnds
    BY <1>9 DEF ProgramEnds
  <1>10. ASSUME NEW n \in Names, OtherCreates(n) PROVE ImportInv'
    <2>1. \A m \in Names : folder'[m] = IF m = n THEN OtherFile ELSE folder[m]
      BY <1>10 DEF OtherCreates
    <2>2. ImportFilesOK'
      BY <1>10, <2>1 DEF OtherCreates, Files
    <2>3. RollbackKnowsItsFiles' /\ OwnFilesAreKnown'
      BY <1>10, <2>1 DEF OtherCreates, Downloads
    <2>4. NothingOverwritten' /\ ReadyIsWhole'
      BY <1>10, <2>1 DEF OtherCreates
    <2> QED
      BY <1>10, <2>2, <2>3, <2>4 DEF OtherCreates
  <1>11. ASSUME NEW n \in Names, OtherRemoves(n) PROVE ImportInv'
    <2>1. \A m \in Names : folder'[m] = IF m = n THEN None ELSE folder[m]
      BY <1>11 DEF OtherRemoves
    <2>2. ImportFilesOK'
      BY <1>11, <2>1 DEF OtherRemoves, Files
    <2>3. RollbackKnowsItsFiles' /\ OwnFilesAreKnown'
      BY <1>11, <2>1 DEF OtherRemoves, InProgress, Downloads
    <2>4. NothingOverwritten' /\ ReadyIsWhole'
      BY <1>11, <2>1 DEF OtherRemoves
    <2> QED
      BY <1>11, <2>2, <2>3, <2>4 DEF OtherRemoves
  <1>12. CASE UNCHANGED importVars
    BY <1>12 DEF importVars
  <1> QED
    BY <1>1, <1>2, <1>3, <1>4, <1>5, <1>6, <1>7, <1>8, <1>9, <1>10, <1>11, <1>12
    DEF ImportNext

LEMMA ImportInitInv == ImportInit => ImportInv
  BY FileFacts
  DEF ImportInit, ImportInv, ImportFilesOK, RollbackKnowsItsFiles, OwnFilesAreKnown,
      NothingOverwritten, ReadyIsWhole, Taken, Files

LEMMA ImportKept == ImportInv => NothingOverwritten /\ FailedLeavesNothing /\ ReadyIsWhole
  BY DEF ImportInv, FailedLeavesNothing, OwnFilesAreKnown

\* What is in the download folder is never overwritten, a failed import leaves
\* nothing of its own, and what is reported as ready is all there, for every
\* archive and whatever others do to the folder meanwhile.
THEOREM ImportSafe ==
  ImportSpec => [](NothingOverwritten /\ FailedLeavesNothing /\ ReadyIsWhole)
  BY ImportInitInv, ImportKept, ImportNextInv, PTL DEF ImportSpec

-----------------------------------------------------------------------------
(***************************************************************************)
(* The rows and the shelves.  A library is good when each member is the    *)
(* sample that was put there and each license the one that was typed.      *)
(* Every statement keeps a good library good, and what the file holds is   *)
(* what the connection sees whenever no transaction is open.               *)
(***************************************************************************)
GoodLibrary(lib) ==
  /\ lib \in Libraries
  /\ \A m \in lib.members : lib.rows[m.id] # None /\ lib.rows[m.id].take = m.take
  /\ \A i \in IdsIn(lib) : lib.rows[i].license = lib.rows[i].typed

StoreInv ==
  /\ GoodLibrary(db) /\ GoodLibrary(saved)
  /\ openTx \in BOOLEAN /\ takes \in Nat
  /\ ~openTx => saved = db
  /\ scan = None /\ openTx => commitFailed
  /\ scan # None => openTx /\ scan \in ScanStates /\ saved = scan.before

\* Rows and members say what a library is.
LEMMA LibraryOf ==
  ASSUME NEW rows \in [SampleIds -> StoredRows \cup {None}],
         NEW members \in SUBSET [shelf : ShelfNames, id : SampleIds, take : Nat],
         \A m \in members : rows[m.id] # None /\ rows[m.id].take = m.take,
         \A i \in SampleIds : rows[i] # None => rows[i].license = rows[i].typed
  PROVE  GoodLibrary([rows |-> rows, members |-> members])
  BY DEF GoodLibrary, Libraries, IdsIn

LEMMA RowsReplaced ==
  ASSUME NEW lib \in Libraries, NEW rows, NEW members
  PROVE  /\ [lib EXCEPT !.rows = rows] = [rows |-> rows, members |-> lib.members]
         /\ [lib EXCEPT !.members = members] = [rows |-> lib.rows, members |-> members]
  BY DEF Libraries

\* An edit of a good library, inside or outside a transaction.
LEMMA StoreEditInv ==
  ASSUME StoreInv, NEW lib, Edit(lib), GoodLibrary(lib), takes' \in Nat
  PROVE  StoreInv'
  BY DEF StoreInv, Edit

LEMMA InsertedGood ==
  ASSUME GoodLibrary(db), takes \in Nat, NEW p \in SamplePaths, NEW i \in SampleIds,
         MayInsert(i)
  PROVE  GoodLibrary(Inserted(p, i)) /\ takes' \in Nat
  <1> DEFINE rows == [db.rows EXCEPT ![i] = StoredRow(p, takes + 1)]
  <1>1. db.rows[i] = None
    BY StoreAssumption DEF MayInsert, IsNextRowId, IdsIn
  <1>2. StoredRow(p, takes + 1) \in StoredRows
    BY DEF StoredRow, StoredRows
  <1>3. StoredRow(p, takes + 1).license = StoredRow(p, takes + 1).typed
    BY DEF StoredRow
  <1>4. Inserted(p, i) = [rows |-> rows, members |-> db.members]
    BY RowsReplaced DEF Inserted, GoodLibrary
  <1>5. rows \in [SampleIds -> StoredRows \cup {None}]
    BY <1>2 DEF GoodLibrary, Libraries
  <1>6. db.members \in SUBSET [shelf : ShelfNames, id : SampleIds, take : Nat]
    BY DEF GoodLibrary, Libraries
  <1>7. \A m \in db.members : rows[m.id] # None /\ rows[m.id].take = m.take
    BY <1>1, <1>6 DEF GoodLibrary, Libraries
  <1>8. \A j \in SampleIds : rows[j] # None => rows[j].license = rows[j].typed
    BY <1>3 DEF GoodLibrary, Libraries, IdsIn
  <1> QED
    BY <1>4, <1>5, <1>6, <1>7, <1>8, LibraryOf DEF MayInsert

\* A row that is changed in place keeps its take; its license and the text that
\* was typed change together.
LEMMA RowsChangedGood ==
  ASSUME NEW lib, GoodLibrary(lib), NEW rows \in [SampleIds -> StoredRows \cup {None}],
         \A i \in SampleIds :
           \/ rows[i] = lib.rows[i]
           \/ /\ lib.rows[i] # None
              /\ rows[i] \in StoredRows
              /\ rows[i].take = lib.rows[i].take
              /\ rows[i].license = rows[i].typed
  PROVE  GoodLibrary([lib EXCEPT !.rows = rows])
  <1>1. lib.members \in SUBSET [shelf : ShelfNames, id : SampleIds, take : Nat]
    BY DEF GoodLibrary, Libraries
  <1>2. \A m \in lib.members : rows[m.id] # None /\ rows[m.id].take = m.take
    BY <1>1, StoreAssumption DEF GoodLibrary
  <1>3. \A i \in SampleIds : rows[i] # None => rows[i].license = rows[i].typed
    BY DEF GoodLibrary, IdsIn
  <1>4. [lib EXCEPT !.rows = rows] = [rows |-> rows, members |-> lib.members]
    BY RowsReplaced DEF GoodLibrary
  <1> QED
    BY <1>1, <1>2, <1>3, <1>4, LibraryOf

-----------------------------------------------------------------------------

LEMMA DeletedGood ==
  ASSUME NEW lib, GoodLibrary(lib), NEW ids
  PROVE  GoodLibrary(Deleted(lib, ids))
  <1> DEFINE rows == [i \in SampleIds |-> IF i \in ids THEN None ELSE lib.rows[i]]
             members == {m \in lib.members : m.id \notin ids}
  <1>1. rows \in [SampleIds -> StoredRows \cup {None}]
    BY DEF GoodLibrary, Libraries
  <1>2. members \in SUBSET [shelf : ShelfNames, id : SampleIds, take : Nat]
    BY DEF GoodLibrary, Libraries
  <1>3. \A m \in members : rows[m.id] # None /\ rows[m.id].take = m.take
    BY <1>2 DEF GoodLibrary
  <1>4. \A i \in SampleIds : rows[i] # None => rows[i].license = rows[i].typed
    BY DEF GoodLibrary, IdsIn
  <1> QED
    BY <1>1, <1>2, <1>3, <1>4, LibraryOf DEF Deleted

LEMMA ReanalyzedGood ==
  ASSUME NEW lib, GoodLibrary(lib), NEW ids \in SUBSET IdsIn(lib)
  PROVE  GoodLibrary(Reanalyzed(lib, ids))
  <1> DEFINE New(r) == [r EXCEPT !.instrument = Analyzed[r.path],
                                     !.license = Coalesced(None, r.license)]
             rows == [i \in SampleIds |-> IF i \in ids THEN New(lib.rows[i]) ELSE lib.rows[i]]
  <1>1. ASSUME NEW i \in ids
        PROVE  /\ New(lib.rows[i]) \in StoredRows
               /\ New(lib.rows[i]).take = lib.rows[i].take
               /\ New(lib.rows[i]).license = New(lib.rows[i]).typed
    <2>1. lib.rows[i] \in StoredRows /\ lib.rows[i].license = lib.rows[i].typed
      BY DEF GoodLibrary, Libraries, IdsIn
    <2> QED
      BY <2>1 DEF StoredRows, Coalesced
  <1>2. rows \in [SampleIds -> StoredRows \cup {None}]
    BY <1>1 DEF GoodLibrary, Libraries
  <1>3. GoodLibrary([lib EXCEPT !.rows = rows])
    BY <1>1, <1>2, RowsChangedGood DEF IdsIn
  <1> QED
    BY <1>3 DEF Reanalyzed

LEMMA ClassifiedGood ==
  ASSUME StoreInv, NEW i \in SampleIds, NEW p \in SamplePaths, Classify(i, Analyzed[p])
  PROVE  StoreInv'
  <1> DEFINE r == [db.rows[i] EXCEPT !.instrument = Analyzed[p],
                                       !.license = Coalesced(@, @)]
             rows == [db.rows EXCEPT ![i] = r]
  <1>1. db.rows[i] \in StoredRows /\ db.rows[i].license = db.rows[i].typed
    BY DEF Classify, StoreInv, GoodLibrary, Libraries, IdsIn
  <1>2. r \in StoredRows /\ r.take = db.rows[i].take /\ r.license = r.typed
    BY <1>1 DEF StoredRows, Coalesced
  <1>3. rows \in [SampleIds -> StoredRows \cup {None}]
    BY <1>2 DEF StoreInv, GoodLibrary, Libraries
  <1>4. GoodLibrary([db EXCEPT !.rows = rows])
    BY <1>1, <1>2, <1>3, RowsChangedGood DEF StoreInv, IdsIn, Classify
  <1>5. Edit([db EXCEPT !.rows = rows]) /\ takes' = takes
    BY DEF Classify
  <1> QED
    BY <1>4, <1>5, StoreEditInv DEF StoreInv

LEMMA InstrumentsGood ==
  ASSUME StoreInv, NEW ids \in SUBSET SampleIds,
         NEW asked \in [ids -> {Analyzed[p] : p \in SamplePaths}], UpdateInstruments(ids, asked)
  PROVE  StoreInv'
  <1> DEFINE New(i) == [db.rows[i] EXCEPT !.instrument = asked[i]]
             rows == [i \in SampleIds |-> IF i \in ids THEN New(i) ELSE db.rows[i]]
  <1>1. ASSUME NEW i \in ids
        PROVE  /\ New(i) \in StoredRows
               /\ New(i).take = db.rows[i].take
               /\ New(i).license = New(i).typed
    <2>1. db.rows[i] \in StoredRows /\ db.rows[i].license = db.rows[i].typed
      BY <1>1 DEF UpdateInstruments, IdsIn, StoreInv, GoodLibrary, Libraries
    <2>2. asked[i] \in {Analyzed[p] : p \in SamplePaths}
      BY <1>1
    <2> QED
      BY <2>1, <2>2 DEF StoredRows
  <1>2. rows \in [SampleIds -> StoredRows \cup {None}]
    BY <1>1 DEF StoreInv, GoodLibrary, Libraries
  <1>3. GoodLibrary([db EXCEPT !.rows = rows])
    BY <1>1, <1>2, RowsChangedGood DEF StoreInv, UpdateInstruments, IdsIn
  <1>4. Edit([db EXCEPT !.rows = rows]) /\ takes' = takes
    BY DEF UpdateInstruments
  <1> QED
    BY <1>3, <1>4, StoreEditInv DEF StoreInv

LEMMA LicensedGood ==
  ASSUME StoreInv, NEW p \in SamplePaths, NEW license \in Licenses \cup {None},
         UpdateLicense(p, license)
  PROVE  StoreInv'
  <1> DEFINE New(r) == [r EXCEPT !.license = license, !.typed = license]
             rows == [i \in SampleIds |-> IF i \in WithPath(db, p)
                                         THEN New(db.rows[i]) ELSE db.rows[i]]
  <1>1. ASSUME NEW i \in WithPath(db, p)
        PROVE  /\ New(db.rows[i]) \in StoredRows
               /\ New(db.rows[i]).take = db.rows[i].take
               /\ New(db.rows[i]).license = New(db.rows[i]).typed
    <2>1. db.rows[i] \in StoredRows
      BY DEF WithPath, StoreInv, GoodLibrary, Libraries, IdsIn
    <2> QED
      BY <2>1 DEF StoredRows
  <1>2. rows \in [SampleIds -> StoredRows \cup {None}]
    BY <1>1 DEF StoreInv, GoodLibrary, Libraries
  <1>3. GoodLibrary([db EXCEPT !.rows = rows])
    BY <1>1, <1>2, RowsChangedGood DEF StoreInv, WithPath, IdsIn
  <1>4. Edit([db EXCEPT !.rows = rows]) /\ takes' = takes
    BY DEF UpdateLicense
  <1> QED
    BY <1>3, <1>4, StoreEditInv DEF StoreInv

LEMMA MovedGood ==
  ASSUME StoreInv, NEW old \in SamplePaths, NEW new \in SamplePaths, MoveSample(old, new)
  PROVE  StoreInv'
  <1> DEFINE New(r) == [r EXCEPT !.path = new]
             rows == [i \in SampleIds |-> IF i \in WithPath(db, old)
                                         THEN New(db.rows[i]) ELSE db.rows[i]]
  <1>1. ASSUME NEW i \in WithPath(db, old)
        PROVE  /\ New(db.rows[i]) \in StoredRows
               /\ New(db.rows[i]).take = db.rows[i].take
               /\ New(db.rows[i]).license = New(db.rows[i]).typed
    <2>1. db.rows[i] \in StoredRows /\ db.rows[i].license = db.rows[i].typed
      BY DEF WithPath, StoreInv, GoodLibrary, Libraries, IdsIn
    <2> QED
      BY <2>1 DEF StoredRows
  <1>2. rows \in [SampleIds -> StoredRows \cup {None}]
    BY <1>1 DEF StoreInv, GoodLibrary, Libraries
  <1>3. GoodLibrary([db EXCEPT !.rows = rows])
    BY <1>1, <1>2, RowsChangedGood DEF StoreInv, WithPath, IdsIn
  <1>4. Edit([db EXCEPT !.rows = rows]) /\ takes' = takes
    BY DEF MoveSample
  <1> QED
    BY <1>3, <1>4, StoreEditInv DEF StoreInv

\* Members come and go; the rows stay.
LEMMA MembersChangedGood ==
  ASSUME NEW lib, GoodLibrary(lib),
         NEW members \in SUBSET [shelf : ShelfNames, id : SampleIds, take : Nat],
         \A m \in members \ lib.members : lib.rows[m.id] # None /\ lib.rows[m.id].take = m.take
  PROVE  GoodLibrary([lib EXCEPT !.members = members])
  <1>1. [lib EXCEPT !.members = members] = [rows |-> lib.rows, members |-> members]
    BY RowsReplaced DEF GoodLibrary
  <1>2. lib.rows \in [SampleIds -> StoredRows \cup {None}]
    BY DEF GoodLibrary, Libraries
  <1>3. \A i \in SampleIds : lib.rows[i] # None => lib.rows[i].license = lib.rows[i].typed
    BY DEF GoodLibrary, IdsIn
  <1>4. \A m \in members : lib.rows[m.id] # None /\ lib.rows[m.id].take = m.take
    BY DEF GoodLibrary
  <1> QED
    BY <1>1, <1>2, <1>3, <1>4, LibraryOf

LEMMA AddedGood ==
  ASSUME StoreInv, NEW s \in ShelfNames, NEW ids \in SUBSET SampleIds, AddToShelf(s, ids)
  PROVE  StoreInv'
  <1> DEFINE absent == {j \in ids : ~\E m \in db.members : m.shelf = s /\ m.id = j}
             new == {[shelf |-> s, id |-> i, take |-> db.rows[i].take] : i \in absent}
             members == db.members \cup new
  <1>1. ASSUME NEW m \in new
        PROVE  /\ m \in [shelf : ShelfNames, id : SampleIds, take : Nat]
               /\ db.rows[m.id] # None /\ db.rows[m.id].take = m.take
    <2>1. PICK i \in absent : m = [shelf |-> s, id |-> i, take |-> db.rows[i].take]
      OBVIOUS
    <2>2. i \in IdsIn(db)
      BY DEF AddToShelf
    <2>3. db.rows[i] \in StoredRows /\ db.rows[i] # None
      BY <2>2 DEF StoreInv, GoodLibrary, Libraries, IdsIn
    <2>4. db.rows[i].take \in Nat
      BY <2>3 DEF StoredRows
    <2> QED
      BY <2>1, <2>3, <2>4
  <1>2. members \in SUBSET [shelf : ShelfNames, id : SampleIds, take : Nat]
    BY <1>1 DEF StoreInv, GoodLibrary, Libraries
  <1>3. GoodLibrary([db EXCEPT !.members = members])
    BY <1>1, <1>2, MembersChangedGood DEF StoreInv
  <1>4. Edit([db EXCEPT !.members = members]) /\ takes' = takes
    BY DEF AddToShelf
  <1> QED
    BY <1>3, <1>4, StoreEditInv DEF StoreInv

LEMMA RemovedGood ==
  ASSUME StoreInv, NEW s \in ShelfNames, NEW i \in SampleIds, RemoveMember(s, i)
  PROVE  StoreInv'
  <1> DEFINE members == {m \in db.members : m.shelf # s \/ m.id # i}
  <1>1. members \in SUBSET [shelf : ShelfNames, id : SampleIds, take : Nat]
    BY DEF StoreInv, GoodLibrary, Libraries
  <1>2. GoodLibrary([db EXCEPT !.members = members])
    BY <1>1, MembersChangedGood DEF StoreInv
  <1>3. Edit([db EXCEPT !.members = members]) /\ takes' = takes
    BY DEF RemoveMember
  <1> QED
    BY <1>2, <1>3, StoreEditInv DEF StoreInv

LEMMA StoreInitInv == StoreInit => StoreInv
  <1> SUFFICES ASSUME StoreInit PROVE StoreInv
    OBVIOUS
  <1>1. GoodLibrary(EmptyLibrary)
    BY LibraryOf DEF EmptyLibrary
  <1> QED
    BY <1>1 DEF StoreInit, StoreInv

\* Beginning and end of a scan's transaction, and of the program.
LEMMA ScanStepInv ==
  ASSUME StoreInv,
         \/ \E found \in SUBSET SamplePaths : StartScan(found)
         \/ \E p \in SamplePaths : SkipFile(p)
         \/ ScanFails \/ FinishScan \/ CommitFails \/ RestartStore
  PROVE  StoreInv'
  <1> USE StoreAssumption DEF StoreInv
  <1>1. ASSUME NEW found \in SUBSET SamplePaths, StartScan(found) PROVE StoreInv'
    <2>1. scan' \in ScanStates /\ scan'.before = db
      BY <1>1 DEF StartScan, ScanStates, GoodLibrary
    <2> QED
      BY <1>1, <2>1 DEF StartScan
  <1>2. ASSUME NEW p \in SamplePaths, SkipFile(p) PROVE StoreInv'
    <2>1. scan' \in ScanStates /\ scan'.before = scan.before
      BY <1>2 DEF SkipFile, ScanStates
    <2> QED
      BY <1>2, <2>1 DEF SkipFile
  <1>3. CASE ScanFails \/ FinishScan \/ RestartStore
    BY <1>3 DEF ScanFails, FinishScan, RestartStore
  <1>4. CASE CommitFails
    <2>1. scan # None /\ scan' = None /\ commitFailed' = TRUE /\ saved' = saved /\ takes' = takes
      BY <1>4 DEF CommitFails
    <2>2. CASE db' = db /\ openTx' = openTx
      BY <2>1, <2>2
    <2>3. CASE db' = saved /\ openTx' = FALSE
      BY <2>1, <2>3
    <2> QED
      BY <1>4, <2>2, <2>3 DEF CommitFails
  <1> QED
    BY <1>1, <1>2, <1>3, <1>4

LEMMA ScanFileInv ==
  ASSUME StoreInv, NEW p \in SamplePaths, NEW i \in SampleIds, ScanFile(p, i)
  PROVE  StoreInv'
  <1>1. GoodLibrary(db') /\ takes' \in Nat
    BY InsertedGood DEF StoreInv, ScanFile
  <1>2. scan' \in ScanStates /\ scan'.before = scan.before
    BY DEF StoreInv, ScanFile, ScanStates
  <1> QED
    BY <1>1, <1>2, StoreAssumption DEF StoreInv, ScanFile

LEMMA StoreNextInv == StoreInv /\ [StoreNext]_storeVars => StoreInv'
  <1> SUFFICES ASSUME StoreInv, [StoreNext]_storeVars PROVE StoreInv'
    OBVIOUS
  <1>1. ASSUME NEW p \in SamplePaths, NEW i \in SampleIds, ImportFile(p, i)
        PROVE  StoreInv'
    BY <1>1, InsertedGood, StoreEditInv DEF StoreInv, ImportFile
  <1>2. ASSUME NEW p \in SamplePaths, DeleteSample(p) PROVE StoreInv'
    BY <1>2, DeletedGood, StoreEditInv DEF StoreInv, DeleteSample
  <1>3. CASE ClearAllSamples
    BY <1>3, DeletedGood, StoreEditInv DEF StoreInv, ClearAllSamples
  <1>4. ASSUME NEW ids \in SUBSET SampleIds, ReScanAll(ids) PROVE StoreInv'
    BY <1>4, ReanalyzedGood, StoreEditInv DEF StoreInv, ReScanAll
  <1>5. ASSUME NEW p \in SamplePaths, NEW i \in SampleIds, ScanFile(p, i)
        PROVE  StoreInv'
    BY <1>5, ScanFileInv
  <1>6. ASSUME NEW i \in SampleIds, NEW p \in SamplePaths, Classify(i, Analyzed[p])
        PROVE  StoreInv'
    BY <1>6, ClassifiedGood
  <1>7. ASSUME NEW p \in SamplePaths, NEW license \in Licenses \cup {None},
               UpdateLicense(p, license)
        PROVE  StoreInv'
    BY <1>7, LicensedGood
  <1>8. ASSUME NEW old \in SamplePaths, NEW new \in SamplePaths, MoveSample(old, new)
        PROVE  StoreInv'
    BY <1>8, MovedGood
  <1>9. ASSUME NEW s \in ShelfNames, NEW ids \in SUBSET SampleIds, AddToShelf(s, ids)
        PROVE  StoreInv'
    BY <1>9, AddedGood
  <1>10. ASSUME NEW s \in ShelfNames, NEW i \in SampleIds, RemoveMember(s, i)
         PROVE  StoreInv'
    BY <1>10, RemovedGood
  <1>11. CASE \/ \E found \in SUBSET SamplePaths : StartScan(found)
              \/ \E p \in SamplePaths : SkipFile(p)
              \/ ScanFails \/ FinishScan \/ CommitFails \/ RestartStore
    BY <1>11, ScanStepInv
  <1>12. ASSUME NEW ids \in SUBSET SampleIds,
                NEW asked \in [ids -> {Analyzed[p] : p \in SamplePaths}],
                UpdateInstruments(ids, asked)
         PROVE  StoreInv'
    BY <1>12, InstrumentsGood
  <1>13. CASE UNCHANGED storeVars
    BY <1>13 DEF StoreInv, storeVars
  <1> QED
    BY <1>1, <1>2, <1>3, <1>4, <1>5, <1>6, <1>7, <1>8, <1>9, <1>10, <1>11, <1>12, <1>13
    DEF StoreNext

\* What the database, its rows under a transaction and the collections say of each
\* other, at every step of a scan and between the requests.
THEOREM StoreInvariant == StoreSpec => []StoreInv
  BY StoreInitInv, StoreNextInv, PTL DEF StoreSpec

LEMMA StoreKept ==
  StoreInv => SavedUnlessScanning /\ ScanAllOrNothing /\ MembersMeant /\ LicenseKept
  <1>1. StoreInv => SavedUnlessScanning /\ ScanAllOrNothing
    BY DEF StoreInv, SavedUnlessScanning, ScanAllOrNothing
  <1>2. StoreInv => MembersMeant /\ LicenseKept
    BY DEF StoreInv, GoodLibrary, MembersMeant, LicenseKept
  <1> QED
    BY <1>1, <1>2

\* A scan is kept as a whole or not at all, and nothing waits in an open
\* transaction afterwards unless its COMMIT failed; members stay the samples they
\* were although SQLite reuses row numbers; and a typed license survives every
\* analysis and classification, for every library and every list of files.
THEOREM StoreSafe ==
  StoreSpec => [](SavedUnlessScanning /\ ScanAllOrNothing /\ MembersMeant /\ LicenseKept)
  BY StoreKept, StoreInvariant, PTL

(***************************************************************************)
(* The tags of the MIDI files.  In the middle of a request, all that it    *)
(* did so far is the assignments before the current one; and before an     *)
(* INSERT the file has no tag.                                             *)
(***************************************************************************)
TablesTyped ==
  /\ midiRows \in [MidiIds -> MidiRows \cup {None}]
  /\ midiTagRows \in [MidiTagIds -> MidiTagRows \cup {None}]
  /\ links \subseteq Links /\ inserts \in Nat
  /\ tagRequest = None \/ (tagRequest \in Underway /\ tagRequest.at \in DOMAIN tagRequest.asked)

RequestSoFar ==
  tagRequest # None =>
    /\ lastRequest = None
    /\ DoneUpTo(tagRequest, tagRequest.at - 1)
    /\ tagRequest.step = "insert" =>
         Assignment.tag # None /\ \A l \in links : l.midi # Assignment.midi

MidiStoreInv ==
  /\ TablesTyped /\ LinksMeant /\ OneTagEach
  /\ RequestSoFar /\ TagAnswerTrue

\* What a request may ask for: it has a length, and names no file twice.
LEMMA RequestFacts ==
  ASSUME NEW r \in TagRequests
  PROVE  /\ Len(r) \in Nat \ {0} /\ DOMAIN r = 1..Len(r)
         /\ \A j \in 1..Len(r) : r[j] \in Assignments
         /\ \A j, k \in 1..Len(r) : j # k => r[j].midi # r[k].midi /\ r[j].tag # None
  <1>1. PICK n \in 1..MaxAssignments : r \in [1..n -> Assignments]
    BY DEF TagRequests
  <1>2. n \in Nat \ {0}
    BY <1>1, MidiStoreAssumption
  <1>3. r \in Seq(Assignments) /\ Len(r) = n /\ DOMAIN r = 1..n
    BY <1>1, <1>2
  <1>4. Len(r) > 1 => /\ \A j, k \in DOMAIN r : r[j].midi = r[k].midi => j = k
                      /\ \A j \in DOMAIN r : r[j].tag # None
    BY DEF TagRequests
  <1>5. ASSUME NEW j \in 1..n, NEW k \in 1..n, j # k
        PROVE  r[j].midi # r[k].midi /\ r[j].tag # None
    BY <1>2, <1>3, <1>4, <1>5
  <1> QED
    BY <1>1, <1>2, <1>3, <1>5

\* Every change of the rows keeps the links apart and meant: links only go, and of
\* the rows they name at most the name of a tag changes.
LEMMA RowsKeepLinks ==
  ASSUME MidiStoreInv, TablesTyped',
         links' \subseteq links,
         \A l \in links' :
           /\ midiRows'[l.midi] = midiRows[l.midi]
           /\ midiTagRows'[l.tag] # None /\ midiTagRows'[l.tag].born = midiTagRows[l.tag].born
  PROVE  LinksMeant' /\ OneTagEach'
  BY DEF MidiStoreInv, LinksMeant, OneTagEach

LEMMA UntoldInv ==
  ASSUME MidiStoreInv, FreeForMidi, TablesTyped', LinksMeant', OneTagEach'
  PROVE  MidiStoreInv'
  BY DEF MidiStoreInv, FreeForMidi, RequestSoFar, TagAnswerTrue

LEMMA InsertMidiInv ==
  ASSUME MidiStoreInv, NEW p \in MidiPaths, NEW i \in MidiIds, InsertMidi(p, i)
  PROVE  MidiStoreInv'
  <1>1. midiRows[i] = None
    BY MidiStoreAssumption DEF InsertMidi, IsNextNumber, Present, MidiStoreInv, TablesTyped
  <1>2. TablesTyped'
    BY DEF InsertMidi, MayInsertMidi, FreeForMidi, MidiStoreInv, TablesTyped, MidiRows
  <1>3. \A l \in links : l.midi \in MidiIds /\ l.midi # i
    BY <1>1 DEF MidiStoreInv, TablesTyped, Links, LinksMeant
  <1>4. LinksMeant' /\ OneTagEach'
    BY <1>2, <1>3, RowsKeepLinks
    DEF InsertMidi, MidiStoreInv, TablesTyped, LinksMeant
  <1> QED
    BY <1>2, <1>4, UntoldInv DEF InsertMidi

LEMMA InsertTagInv ==
  ASSUME MidiStoreInv, NEW name \in SeededTags \cup TypedTags, NEW t \in MidiTagIds,
         InsertTagRow(name, t), UNCHANGED tagRequest
  PROVE  TablesTyped' /\ LinksMeant' /\ OneTagEach'
  <1>1. midiTagRows[t] = None
    BY MidiStoreAssumption DEF InsertTagRow, IsNextNumber, Present, MidiStoreInv, TablesTyped
  <1>2. TablesTyped'
    BY DEF InsertTagRow, MayInsertMidi, MidiStoreInv, TablesTyped, MidiTagRows
  <1>3. \A l \in links : l.tag \in MidiTagIds /\ l.tag # t
    BY <1>1 DEF MidiStoreInv, TablesTyped, Links, LinksMeant
  <1> QED
    BY <1>2, <1>3, RowsKeepLinks
    DEF InsertTagRow, MidiStoreInv, TablesTyped, LinksMeant

LEMMA RenameTagInv ==
  ASSUME MidiStoreInv, NEW name \in SeededTags \cup TypedTags, NEW t \in MidiTagIds,
         UpdateMidiTag(t, name)
  PROVE  MidiStoreInv'
  <1>1. midiTagRows[t] \in MidiTagRows
    BY DEF UpdateMidiTag, Present, MidiStoreInv, TablesTyped
  <1>2. /\ [midiTagRows[t] EXCEPT !.name = name] \in MidiTagRows
        /\ [midiTagRows[t] EXCEPT !.name = name].born = midiTagRows[t].born
    BY <1>1 DEF MidiTagRows
  <1>3. midiTagRows' = [midiTagRows EXCEPT ![t] = [midiTagRows[t] EXCEPT !.name = name]]
    BY DEF UpdateMidiTag
  <1>4. TablesTyped'
    BY <1>2, <1>3 DEF UpdateMidiTag, FreeForMidi, MidiStoreInv, TablesTyped
  <1>5. \A u \in MidiTagIds : midiTagRows[u] # None =>
          midiTagRows'[u] # None /\ midiTagRows'[u].born = midiTagRows[u].born
    BY <1>2, <1>3, MidiStoreAssumption DEF MidiStoreInv, TablesTyped
  <1>6. LinksMeant' /\ OneTagEach'
    BY <1>4, <1>5, RowsKeepLinks
    DEF UpdateMidiTag, MidiStoreInv, TablesTyped, Links, LinksMeant
  <1> QED
    BY <1>4, <1>6, UntoldInv DEF UpdateMidiTag

LEMMA DeleteRowsInv ==
  ASSUME MidiStoreInv, NEW ms, DeleteRows(ms)
  PROVE  MidiStoreInv'
  <1>1. TablesTyped'
    BY DEF DeleteRows, LinksWithout, FreeForMidi, MidiStoreInv, TablesTyped
  <1>2. LinksMeant' /\ OneTagEach'
    BY <1>1, RowsKeepLinks
    DEF DeleteRows, LinksWithout, MidiStoreInv, TablesTyped, Links, LinksMeant
  <1> QED
    BY <1>1, <1>2, UntoldInv DEF DeleteRows

LEMMA DeleteTagInv ==
  ASSUME MidiStoreInv, NEW t \in MidiTagIds, DeleteMidiTag(t)
  PROVE  MidiStoreInv'
  <1>1. TablesTyped'
    BY DEF DeleteMidiTag, LinksWithout, FreeForMidi, MidiStoreInv, TablesTyped
  <1>2. LinksMeant' /\ OneTagEach'
    BY <1>1, RowsKeepLinks
    DEF DeleteMidiTag, LinksWithout, MidiStoreInv, TablesTyped, Links, LinksMeant
  <1> QED
    BY <1>1, <1>2, UntoldInv DEF DeleteMidiTag

\* Once the current assignment is done, the request goes on or is answered.
LEMMA NextAssignmentInv ==
  ASSUME MidiStoreInv, NEW r \in Underway, r = tagRequest, NextAssignment,
         links' \subseteq Links, UNCHANGED <<midiRows, midiTagRows, inserts>>,
         LinksMeant', OneTagEach', DoneUpTo(r, r.at)'
  PROVE  MidiStoreInv'
  <1> DEFINE told == [asked |-> r.asked, before |-> r.before, success |-> TRUE]
             on == [asked |-> r.asked, at |-> r.at + 1, step |-> "delete", before |-> r.before]
  <1>1. r.asked \in TagRequests /\ r.at \in DOMAIN r.asked /\ r # None
    BY MidiStoreAssumption DEF MidiStoreInv, TablesTyped, Underway
  <1>2. CASE r.at = Len(r.asked)
    <2>1. tagRequest' = None /\ lastRequest' = told
      BY <1>2 DEF NextAssignment, AnswerTags
    <2>2. DoneUpTo(told, Len(told.asked))'
      BY <1>2 DEF DoneUpTo, HasTag
    <2>3. TagAnswerTrue'
      BY <2>1, <2>2 DEF TagAnswerTrue
    <2> QED
      BY <2>1, <2>3 DEF MidiStoreInv, TablesTyped, RequestSoFar
  <1>3. CASE r.at # Len(r.asked)
    <2>1. tagRequest' = on /\ UNCHANGED lastRequest
      BY <1>3 DEF NextAssignment, Underway
    <2>2. /\ on.asked = r.asked /\ on.before = r.before
          /\ on.at = r.at + 1 /\ on.step = "delete"
          /\ on \in Underway /\ on.at \in DOMAIN on.asked
      BY <1>1, <1>3, RequestFacts DEF Underway
    <2>3. on.at - 1 = r.at
      BY <1>1, <2>2, RequestFacts
    <2>4. DoneUpTo(on, on.at - 1)'
      BY <2>2, <2>3 DEF DoneUpTo, HasTag
    <2>5. RequestSoFar'
      <3>1. lastRequest' = None
        BY <1>1, <2>1 DEF MidiStoreInv, RequestSoFar
      <3> QED
        BY <2>1, <2>2, <2>4, <3>1 DEF RequestSoFar
    <2>6. TagAnswerTrue'
      BY <1>1, <2>1 DEF MidiStoreInv, RequestSoFar, TagAnswerTrue
    <2>7. TablesTyped'
      BY <2>1, <2>2 DEF MidiStoreInv, TablesTyped
    <2> QED
      BY <2>5, <2>6, <2>7 DEF MidiStoreInv
  <1> QED
    BY <1>2, <1>3

\* A request that goes on after its DELETE, to the INSERT.
LEMMA RemoveOldTagInv ==
  ASSUME MidiStoreInv, NEW r \in Underway, r = tagRequest, RemoveOldTag
  PROVE  MidiStoreInv'
  <1> DEFINE on == [asked |-> r.asked, at |-> r.at, step |-> "insert", before |-> r.before]
             midi == r.asked[r.at].midi
  <1>1. /\ r # None /\ r.asked \in TagRequests /\ r.before \subseteq Links
        /\ r.at \in 1..Len(r.asked) /\ DOMAIN r.asked = 1..Len(r.asked) /\ Len(r.asked) \in Nat
    BY RequestFacts DEF RemoveOldTag, MidiStoreInv, TablesTyped, Underway
  <1>2. /\ links' = {l \in links : l.midi # midi}
        /\ UNCHANGED <<midiRows, midiTagRows, inserts>>
    BY DEF RemoveOldTag, LinksWithout, Assignment
  <1>3. links' \subseteq Links /\ LinksMeant' /\ OneTagEach'
    BY <1>2 DEF MidiStoreInv, TablesTyped, LinksMeant, OneTagEach
  <1>4. DoneUpTo(r, r.at - 1)
    BY <1>1 DEF MidiStoreInv, RequestSoFar
  <1>5. ASSUME NEW j \in 1..r.at - 1 PROVE HasTag(r.asked[j])'
    <2>1. j \in 1..Len(r.asked) /\ r.asked[j].midi # midi
      BY <1>1, RequestFacts
    <2>2. HasTag(r.asked[j])
      BY <1>4 DEF DoneUpTo
    <2> QED
      BY <1>2, <2>1, <2>2 DEF HasTag
  <1>6. r.at - 1 + 1 = r.at /\ 1..r.at \subseteq DOMAIN r.asked
    BY <1>1
  <1>7. DoneUpTo(r, r.at - 1)'
    <2> DEFINE reached == {r.asked[j].midi : j \in DOMAIN r.asked \cap 1..r.at - 1 + 1}
    <2>1. midi \in reached
      BY <1>1, <1>6
    <2>2. {l \in links : l.midi \notin reached} = {l \in r.before : l.midi \notin reached}
      BY <1>4 DEF DoneUpTo
    <2>3. {l \in links' : l.midi \notin reached} = {l \in links : l.midi \notin reached}
      BY <1>2, <2>1
    <2> QED
      BY <1>5, <2>2, <2>3 DEF DoneUpTo
  <1>8. CASE r.asked[r.at].tag = None
    <2>1. NextAssignment
      BY <1>8 DEF RemoveOldTag, Assignment
    <2>2. HasTag(r.asked[r.at])'
      BY <1>2, <1>8 DEF HasTag
    <2>3. DoneUpTo(r, r.at)'
      <3> DEFINE less == {r.asked[j].midi : j \in DOMAIN r.asked \cap 1..r.at - 1 + 1}
                 more == {r.asked[j].midi : j \in DOMAIN r.asked \cap 1..r.at + 1}
      <3>1. \A j \in 1..r.at : HasTag(r.asked[j])'
        BY <1>1, <1>5, <2>2
      <3>2. less \subseteq more
        BY <1>1
      <3>3. {l \in links' : l.midi \notin less} = {l \in r.before : l.midi \notin less}
        BY <1>7 DEF DoneUpTo
      <3>4. {l \in links' : l.midi \notin more} = {l \in r.before : l.midi \notin more}
        BY <3>2, <3>3
      <3> QED
        BY <3>1, <3>4 DEF DoneUpTo
    <2> QED
      BY <1>2, <1>3, <2>1, <2>3, NextAssignmentInv
  <1>9. CASE r.asked[r.at].tag # None
    <2>1. tagRequest' = on /\ UNCHANGED lastRequest
      BY <1>9 DEF RemoveOldTag, Assignment, Underway
    <2>2. on.asked = r.asked /\ on.before = r.before /\ on.at = r.at /\ on \in Underway
      BY <1>1 DEF Underway
    <2>3. DoneUpTo(on, on.at - 1)'
      BY <1>7, <2>2 DEF DoneUpTo, HasTag
    <2>4. lastRequest' = None
      BY <1>1, <2>1 DEF MidiStoreInv, RequestSoFar
    <2>5. RequestSoFar'
      BY <1>2, <1>9, <2>1, <2>2, <2>3, <2>4 DEF RequestSoFar, Assignment
    <2>6. TablesTyped'
      BY <1>1, <1>2, <1>3, <2>1, <2>2 DEF MidiStoreInv, TablesTyped
    <2> QED
      BY <1>3, <2>4, <2>5, <2>6 DEF MidiStoreInv, TagAnswerTrue
  <1> QED
    BY <1>8, <1>9

LEMMA InsertNewTagInv ==
  ASSUME MidiStoreInv, NEW r \in Underway, r = tagRequest, InsertNewTag
  PROVE  MidiStoreInv'
  <1> DEFINE a == r.asked[r.at]
             new == [midi |-> a.midi, tag |-> a.tag, file |-> midiRows[a.midi].born,
                     tagBorn |-> midiTagRows[a.tag].born]
  <1>1. /\ r # None /\ r.asked \in TagRequests /\ r.before \subseteq Links
        /\ r.at \in 1..Len(r.asked) /\ DOMAIN r.asked = 1..Len(r.asked) /\ Len(r.asked) \in Nat
    BY RequestFacts DEF InsertNewTag, MidiStoreInv, TablesTyped, Underway
  <1>2. /\ a.midi \in MidiIds /\ midiRows[a.midi] \in MidiRows
        /\ a.tag \in MidiTagIds /\ midiTagRows[a.tag] \in MidiTagRows
    BY DEF InsertNewTag, Assignment, Present, MidiStoreInv, TablesTyped
  <1>3. links' = links \cup {new} /\ UNCHANGED <<midiRows, midiTagRows, inserts>>
    BY DEF InsertNewTag, Assignment
  <1>4. new \in Links
    BY <1>2 DEF Links, MidiRows, MidiTagRows
  <1>5. links' \subseteq Links /\ LinksMeant'
    <2>1. links' \subseteq Links
      BY <1>3, <1>4 DEF MidiStoreInv, TablesTyped
    <2>2. midiRows[a.midi] # None /\ midiTagRows[a.tag] # None
      BY <1>2, MidiStoreAssumption
    <2>3. /\ new.midi = a.midi /\ new.file = midiRows[a.midi].born
          /\ new.tag = a.tag /\ new.tagBorn = midiTagRows[a.tag].born
      OBVIOUS
    <2> QED
      BY <1>3, <2>1, <2>2, <2>3, ZenonT(40) DEF MidiStoreInv, LinksMeant
  <1>6. \A l \in links : l.midi # a.midi
    BY <1>1 DEF InsertNewTag, Assignment, MidiStoreInv, RequestSoFar
  <1>7. OneTagEach'
    <2>1. OneTagEach /\ new.midi = a.midi
      BY DEF MidiStoreInv
    <2>2. ASSUME NEW k \in links', NEW l \in links', k.midi = l.midi PROVE k = l
      <3>1. CASE k \in links /\ l \in links
        BY <2>1, <2>2, <3>1, Zenon DEF OneTagEach
      <3>2. CASE k = new /\ l = new
        BY <3>2
      <3>3. CASE (k = new /\ l \in links) \/ (k \in links /\ l = new)
        BY <1>6, <2>1, <2>2, <3>3, Zenon
      <3> QED
        BY <1>3, <3>1, <3>2, <3>3
    <2> QED
      BY <2>2, Zenon DEF OneTagEach
  <1>8. DoneUpTo(r, r.at - 1) /\ r.at - 1 + 1 = r.at
    BY <1>1 DEF MidiStoreInv, RequestSoFar
  <1>9. ASSUME NEW j \in 1..r.at PROVE HasTag(r.asked[j])'
    <2>1. CASE j = r.at
      <3>1. a.tag # None
        BY <1>2, MidiStoreAssumption
      <3>2. new \in links' /\ new.midi = a.midi /\ new.tag = a.tag
        BY <1>3
      <3> QED
        BY <2>1, <3>1, <3>2 DEF HasTag
    <2>2. CASE j # r.at
      <3>1. j \in 1..r.at - 1 /\ r.asked[j].midi # a.midi
        BY <1>1, <2>2, RequestFacts
      <3>2. HasTag(r.asked[j])
        BY <1>8, <3>1 DEF DoneUpTo
      <3> QED
        BY <1>3, <3>1, <3>2, SMTT(30) DEF HasTag
    <2> QED
      BY <2>1, <2>2
  <1>10. DoneUpTo(r, r.at)'
    <2> DEFINE less == {r.asked[j].midi : j \in DOMAIN r.asked \cap 1..r.at - 1 + 1}
               more == {r.asked[j].midi : j \in DOMAIN r.asked \cap 1..r.at + 1}
    <2>1. less \subseteq more /\ a.midi \in more
      BY <1>1
    <2>2. {l \in links : l.midi \notin less} = {l \in r.before : l.midi \notin less}
      BY <1>8 DEF DoneUpTo
    <2>3. {l \in links' : l.midi \notin more} = {l \in links : l.midi \notin more}
      <3>1. new.midi \in more
        BY <2>1
      <3> QED
        BY <1>3, <3>1
    <2>4. {l \in links : l.midi \notin more} = {l \in r.before : l.midi \notin more}
      BY <2>1, <2>2
    <2> QED
      BY <1>9, <2>3, <2>4 DEF DoneUpTo
  <1> QED
    BY <1>3, <1>5, <1>7, <1>10, NextAssignmentInv DEF InsertNewTag

\* A request begins, fails or is cut off; the tables stay.
LEMMA RequestInv ==
  ASSUME MidiStoreInv,
         \/ \E request \in TagRequests : BeginSetTags(request)
         \/ SetTagFails \/ RestartMidiStore
  PROVE  MidiStoreInv'
  <1>1. ASSUME NEW request \in TagRequests, BeginSetTags(request) PROVE MidiStoreInv'
    <2> DEFINE new == [asked |-> request, at |-> 1, step |-> "delete", before |-> links]
    <2>1. tagRequest' = new /\ lastRequest' = None /\ UNCHANGED midiTableVars
      BY <1>1 DEF BeginSetTags
    <2>2. new \in Underway /\ 1 \in DOMAIN request
      BY RequestFacts DEF Underway, MidiStoreInv, TablesTyped
    <2>3. DoneUpTo(tagRequest, tagRequest.at - 1)'
      BY <2>1 DEF DoneUpTo, midiTableVars
    <2>4. RequestSoFar'
      BY <2>1, <2>3 DEF RequestSoFar, Assignment
    <2> QED
      BY <2>1, <2>2, <2>4
      DEF MidiStoreInv, TablesTyped, LinksMeant, OneTagEach, TagAnswerTrue, midiTableVars
  <1>2. CASE SetTagFails
    <2>1. PICK r, so : r = tagRequest /\ so = r.at - 1
      OBVIOUS
    <2> DEFINE told == [asked |-> r.asked, before |-> r.before, success |-> FALSE]
    <2>2. tagRequest' = None /\ lastRequest' = told /\ UNCHANGED midiTableVars
      BY <1>2, <2>1 DEF SetTagFails, AnswerTags
    <2>3. DoneUpTo(told, so)'
      BY <1>2, <2>1, <2>2
      DEF SetTagFails, MidiStoreInv, RequestSoFar, DoneUpTo, HasTag, midiTableVars
    <2>4. so \in 0..Len(told.asked) - 1
      <3>1. r.asked \in TagRequests /\ r.at \in DOMAIN r.asked
        BY <1>2, <2>1 DEF SetTagFails, MidiStoreInv, TablesTyped, Underway
      <3>2. Len(r.asked) \in Nat /\ DOMAIN r.asked = 1..Len(r.asked)
        BY <3>1, RequestFacts, Zenon
      <3>3. r.at \in 1..Len(r.asked) /\ so = r.at - 1 /\ told.asked = r.asked
        BY <2>1, <3>1, <3>2
      <3> QED
        BY <3>2, <3>3
    <2>5. TagAnswerTrue'
      <3>1. lastRequest' = told /\ ~told.success
        BY <2>2
      <3> HIDE DEF told
      <3> QED
        BY <2>3, <2>4, <3>1 DEF TagAnswerTrue
    <2> QED
      BY <2>2, <2>5
      DEF MidiStoreInv, TablesTyped, LinksMeant, OneTagEach, RequestSoFar, midiTableVars
  <1>3. CASE RestartMidiStore
    BY <1>3 DEF RestartMidiStore, MidiStoreInv, TablesTyped, LinksMeant, OneTagEach,
                RequestSoFar, TagAnswerTrue, midiTableVars
  <1> QED
    BY <1>1, <1>2, <1>3

\* The tags that the start inserts leave the links as they are.
LEMMA SeedTagInv ==
  ASSUME MidiStoreInv, NEW name \in SeededTags \cup TypedTags, NEW t \in MidiTagIds,
         SeedTag(name, t)
  PROVE  MidiStoreInv'
  <1>1. links' = links
    BY DEF SeedTag, InsertTagRow, midiTableVars
  <1>2. TablesTyped' /\ LinksMeant' /\ OneTagEach'
    <2>1. CASE UNCHANGED midiTableVars
      BY <2>1 DEF SeedTag, midiTableVars, MidiStoreInv, TablesTyped, LinksMeant, OneTagEach
    <2>2. CASE InsertTagRow(name, t)
      BY <2>2, InsertTagInv DEF SeedTag
    <2> QED
      BY <2>1, <2>2 DEF SeedTag
  <1>3. RequestSoFar' /\ TagAnswerTrue'
    BY <1>1 DEF SeedTag, MidiStoreInv, RequestSoFar, TagAnswerTrue, DoneUpTo, HasTag, Assignment
  <1> QED
    BY <1>2, <1>3 DEF MidiStoreInv

LEMMA MidiStoreInitInv == MidiStoreInit => MidiStoreInv
  BY DEF MidiStoreInit, MidiStoreInv, TablesTyped, LinksMeant, OneTagEach, RequestSoFar,
         TagAnswerTrue

LEMMA MidiStoreNextInv == MidiStoreInv /\ [MidiStoreNext]_midiStoreVars => MidiStoreInv'
  <1> SUFFICES ASSUME MidiStoreInv, [MidiStoreNext]_midiStoreVars PROVE MidiStoreInv'
    OBVIOUS
  <1>1. ASSUME NEW p \in MidiPaths, DeleteMidiRow(p) PROVE MidiStoreInv'
    BY <1>1, DeleteRowsInv DEF DeleteMidiRow
  <1>2. ASSUME NEW p \in MidiPaths, NEW i \in MidiIds, InsertMidi(p, i) PROVE MidiStoreInv'
    BY <1>2, InsertMidiInv
  <1>3. ASSUME NEW name \in SeededTags \cup TypedTags, NEW t \in MidiTagIds,
               InsertMidiTag(name, t)
        PROVE  MidiStoreInv'
    <2>1. TablesTyped' /\ LinksMeant' /\ OneTagEach'
      BY <1>3, InsertTagInv DEF InsertMidiTag, FreeForMidi
    <2> QED
      BY <1>3, <2>1, UntoldInv DEF InsertMidiTag
  <1>4. ASSUME NEW name \in SeededTags \cup TypedTags, NEW t \in MidiTagIds,
               UpdateMidiTag(t, name) \/ SeedTag(name, t)
        PROVE  MidiStoreInv'
    BY <1>4, RenameTagInv, SeedTagInv
  <1>5. ASSUME NEW t \in MidiTagIds, DeleteMidiTag(t) PROVE MidiStoreInv'
    BY <1>5, DeleteTagInv
  <1>6. CASE ClearMidiRows
    BY <1>6, DeleteRowsInv DEF ClearMidiRows
  <1>7. ASSUME RemoveOldTag \/ InsertNewTag PROVE MidiStoreInv'
    <2>1. tagRequest \in Underway
      BY <1>7 DEF RemoveOldTag, InsertNewTag, MidiStoreInv, TablesTyped
    <2> QED
      BY <1>7, <2>1, RemoveOldTagInv, InsertNewTagInv
  <1>8. CASE \/ \E request \in TagRequests : BeginSetTags(request)
             \/ SetTagFails \/ RestartMidiStore
    BY <1>8, RequestInv
  <1>9. CASE UNCHANGED midiStoreVars
    <2>1. UNCHANGED <<midiTableVars, tagRequest, lastRequest>>
      BY <1>9 DEF midiStoreVars
    <2>2. TablesTyped' /\ LinksMeant' /\ OneTagEach'
      BY <2>1 DEF midiTableVars, MidiStoreInv, TablesTyped, LinksMeant, OneTagEach
    <2>3. \A request, done : DoneUpTo(request, done)' <=> DoneUpTo(request, done)
      BY <2>1 DEF midiTableVars, DoneUpTo, HasTag
    <2>4. RequestSoFar'
      BY <2>1, <2>3, Zenon DEF midiTableVars, MidiStoreInv, RequestSoFar, Assignment
    <2>5. TagAnswerTrue'
      BY <2>1, <2>3, Zenon DEF MidiStoreInv, TagAnswerTrue
    <2> QED
      BY <2>2, <2>4, <2>5 DEF MidiStoreInv
  <1> QED
    BY <1>1, <1>2, <1>3, <1>4, <1>5, <1>6, <1>7, <1>8, <1>9 DEF MidiStoreNext

\* What the tables and the request under way say of each other, in every state.
THEOREM MidiStoreInvariant == MidiStoreSpec => []MidiStoreInv
  BY MidiStoreInitInv, MidiStoreNextInv, PTL DEF MidiStoreSpec

\* A MIDI file has one tag at most, which was given to this file though SQLite reuses
\* the numbers of files and tags; a request answered with success has done the whole,
\* and one that failed a proper part, in the order of its assignments, of which the
\* next may have lost its tag.  So for every number of files, tags and assignments.
THEOREM MidiTagsSafe ==
  MidiStoreSpec => [](LinksMeant /\ OneTagEach /\ TagAnswerTrue)
  <1>1. MidiStoreInv => LinksMeant /\ OneTagEach /\ TagAnswerTrue
    BY DEF MidiStoreInv
  <1> QED
    BY <1>1, MidiStoreInvariant, PTL

-----------------------------------------------------------------------------
(***************************************************************************)
(* Scans and the other jobs of the sidebar.  The flags may be off while a  *)
(* job runs that another one ended, so the invariant says which job may    *)
(* find its flag gone, and what is left of the listeners.                  *)
(***************************************************************************)

Listeners == Scans \ {"file"}

\* What follows the first await is no registering.
Quiet(s) == \A k \in 2..Len(s) : s[k] # "listen"

ScanSteps == {"listen", "work", "rows", "paths", "midiScan", "midis"}

\* Registering is what comes first, if at all; more than one directory has an import only.
JobFits(j) ==
  /\ j.left # << >>
  /\ Quiet(j.left)
  /\ Head(j.left) = "listen" => j.kind \in Listeners /\ Len(j.left) > 1
  /\ j.dirs > 1 => j.kind \in {"import", "sidebar"}

JobsFit ==
  /\ jobs \in [Slots -> ScanJob \cup {None}]
  /\ \A i \in Slots : jobs[i] # None => JobFits(jobs[i])

\* No flag outlives the last job that has it.
FlagsFit ==
  /\ scanning \/ progress => Running(Scans) # {}
  /\ migrationBusy => Running(Migrations) # {}

\* Without an overlap a flag has one job, and a job its flag.
AloneFits ==
  ~jobsOverlapped =>
    /\ \A i, k \in Slots : i # k /\ jobs[i] # None /\ jobs[k] # None => ~SameFlag(jobs[i].kind, jobs[k].kind)
    /\ Running(Scans) # {} => scanning
    /\ Running(Migrations) # {} => migrationBusy
    /\ progress => scanning

PromptFits ==
  /\ promptOpen /\ Running({"prompted"}) # {} => reopened
  /\ PromptHasPath

CountersFit ==
  /\ listeners \in Nat /\ failedRescans \in Nat
  /\ ListenersReleased
  /\ failedRescans + Cardinality(Running({"rescan"})) <= MaxFailedRescans + MaxCalls

ScanBooleans ==
  {scanning, migrationBusy, progress, promptOpen, pendingPath, allPathsKnown, jobsOverlapped,
   reopened} \subseteq BOOLEAN

ScanInv ==
  JobsFit /\ FlagsFit /\ AloneFits /\ PromptFits /\ CountersFit /\ ScanBooleans

LEMMA JoinedCourse ==
  ASSUME NEW s \in Seq(ScanSteps), s # << >>, Quiet(s),
         NEW t \in Seq(ScanSteps), \A k \in 1..Len(t) : t[k] # "listen"
  PROVE  /\ s \o t \in Seq(ScanSteps) /\ s \o t # << >> /\ Quiet(s \o t) /\ Head(s \o t) = s[1]
         /\ Len(s) > 1 => Len(s \o t) > 1
  <1>1. /\ s \o t \in Seq(ScanSteps) /\ Len(s \o t) = Len(s) + Len(t)
        /\ \A i \in 1 .. Len(s) + Len(t) : (s \o t)[i] = IF i <= Len(s) THEN s[i] ELSE t[i - Len(s)]
    BY ConcatProperties
  <1>2. Len(s) \in Nat \ {0} /\ Len(t) \in Nat
    OBVIOUS
  <1> DEFINE c == s \o t
  <1>3. c # << >> /\ Head(c) = c[1] /\ c[1] = s[1]
    BY <1>1, <1>2
  <1>4. ASSUME NEW k \in 2..Len(c) PROVE c[k] # "listen"
    <2>1. CASE k <= Len(s)
      BY <1>1, <1>2, <2>1 DEF Quiet
    <2>2. CASE k > Len(s)
      <3>1. c[k] = t[k - Len(s)] /\ k - Len(s) \in 1..Len(t)
        BY <1>1, <1>2, <2>2
      <3> QED
        BY <3>1
    <2> QED
      BY <1>1, <1>2, <2>1, <2>2
  <1> QED
    BY <1>1, <1>3, <1>4 DEF Quiet

LEMMA CourseFacts ==
  ASSUME NEW kind \in Scans \cup Migrations \cup {"afterSidebar"}, NEW inMidi \in BOOLEAN
  PROVE  /\ Course(kind, inMidi) \in Seq(ScanSteps) /\ Course(kind, inMidi) # << >>
         /\ Quiet(Course(kind, inMidi))
         /\ Head(Course(kind, inMidi)) = "listen" <=> kind \in Listeners
         /\ kind \in Listeners => Len(Course(kind, inMidi)) > 1
  <1> DEFINE midiTail == IF inMidi THEN <<"midis">> ELSE << >>
             more == IF inMidi THEN <<"midiScan", "midis">> ELSE << >>
             long == <<"listen", "work", "rows", "paths", "midiScan">>
             short == <<"work", "rows", "paths">>
             last == <<"paths">>
  <1>1. /\ midiTail \in Seq(ScanSteps) /\ \A k \in 1..Len(midiTail) : midiTail[k] # "listen"
        /\ more \in Seq(ScanSteps) /\ \A k \in 1..Len(more) : more[k] # "listen"
    <2>1. CASE inMidi
      BY <2>1 DEF ScanSteps
    <2>2. CASE ~inMidi
      BY <2>2 DEF ScanSteps
    <2> QED
      BY <2>1, <2>2
  <1>2. /\ long \in Seq(ScanSteps) /\ long # << >> /\ Quiet(long) /\ long[1] = "listen"
        /\ Len(long) > 1
        /\ short \in Seq(ScanSteps) /\ short # << >> /\ Quiet(short) /\ short[1] = "work"
        /\ last \in Seq(ScanSteps) /\ last # << >> /\ Quiet(last) /\ last[1] = "paths"
    BY DEF ScanSteps, Quiet
  <1>3. CASE kind \in {"prompted", "import"}
    <2>1. Course(kind, inMidi) = long \o midiTail
      BY <1>3 DEF Course
    <2> HIDE DEF long, midiTail
    <2>2. kind \in Listeners
      BY <1>3 DEF Listeners, Scans
    <2> QED
      BY <1>1, <1>2, <2>1, <2>2, JoinedCourse
  <1>4. CASE kind = "file"
    <2>1. Course(kind, inMidi) = short \o more
      BY <1>4 DEF Course
    <2> HIDE DEF short, more
    <2>2. Head(Course(kind, inMidi)) = "work"
      BY <1>1, <1>2, <2>1, JoinedCourse
    <2>3. kind \notin Listeners
      BY <1>4 DEF Listeners, Scans
    <2> QED
      BY <1>1, <1>2, <2>1, <2>2, <2>3, JoinedCourse
  <1>5. CASE kind = "afterSidebar"
    <2>1. Course(kind, inMidi) = last \o midiTail
      BY <1>5 DEF Course
    <2> HIDE DEF last, midiTail
    <2>2. Head(Course(kind, inMidi)) = "paths"
      BY <1>1, <1>2, <2>1, JoinedCourse
    <2>3. kind \notin Listeners
      BY <1>5 DEF Listeners, Scans
    <2> QED
      BY <1>1, <1>2, <2>1, <2>2, <2>3, JoinedCourse
  <1>6. CASE kind \in {"rescan", "sidebar", "dbExport", "dbImport"}
    <2>1. CASE kind = "rescan"
      <3> DEFINE c == <<"listen", "work", "rows", "paths">>
      <3>1. Course(kind, inMidi) = c
        BY <2>1 DEF Course
      <3>2. c \in Seq(ScanSteps) /\ c # << >> /\ Quiet(c) /\ c[1] = "listen" /\ Len(c) > 1
        BY DEF ScanSteps, Quiet
      <3>3. kind \in Listeners
        BY <2>1 DEF Listeners, Scans
      <3> HIDE DEF c
      <3> QED
        BY <3>1, <3>2, <3>3
    <2>2. CASE kind = "sidebar"
      <3> DEFINE c == <<"listen", "work", "rows">>
      <3>1. Course(kind, inMidi) = c
        BY <2>2 DEF Course
      <3>2. c \in Seq(ScanSteps) /\ c # << >> /\ Quiet(c) /\ c[1] = "listen" /\ Len(c) > 1
        BY DEF ScanSteps, Quiet
      <3>3. kind \in Listeners
        BY <2>2 DEF Listeners, Scans
      <3> HIDE DEF c
      <3> QED
        BY <3>1, <3>2, <3>3
    <2>3. CASE kind = "dbExport"
      <3> DEFINE c == <<"work">>
      <3>1. Course(kind, inMidi) = c
        BY <2>3 DEF Course
      <3>2. c \in Seq(ScanSteps) /\ c # << >> /\ Quiet(c) /\ c[1] = "work"
        BY DEF ScanSteps, Quiet
      <3>3. kind \notin Listeners
        BY <2>3 DEF Listeners, Scans
      <3> HIDE DEF c
      <3> QED
        BY <3>1, <3>2, <3>3
    <2>4. CASE kind = "dbImport"
      <3> DEFINE c == <<"work", "rows", "paths", "midis">>
      <3>1. Course(kind, inMidi) = c
        BY <2>4 DEF Course
      <3>2. c \in Seq(ScanSteps) /\ c # << >> /\ Quiet(c) /\ c[1] = "work"
        BY DEF ScanSteps, Quiet
      <3>3. kind \notin Listeners
        BY <2>4 DEF Listeners, Scans
      <3> HIDE DEF c
      <3> QED
        BY <3>1, <3>2, <3>3
    <2> QED
      BY <1>6, <2>1, <2>2, <2>3, <2>4
  <1> QED
    BY <1>3, <1>4, <1>5, <1>6 DEF Scans, Migrations

LEMMA SlotSets ==
  /\ IsFiniteSet(Slots) /\ Cardinality(Slots) = MaxCalls
  /\ \A S : S \subseteq Slots => IsFiniteSet(S) /\ Cardinality(S) \in Nat /\ Cardinality(S) <= MaxCalls
  <1>1. IsFiniteSet(Slots) /\ Cardinality(Slots) = MaxCalls
    BY CallsAssumption, FS_Interval DEF Slots
  <1> QED
    BY <1>1, FS_Subset, FS_CardinalityType

LEMMA ScanInitInv == ScanInit => ScanInv
  <1> SUFFICES ASSUME ScanInit PROVE ScanInv
    OBVIOUS
  <1>1. Running(Scans) = {} /\ Running(Migrations) = {} /\ Running({"rescan"}) = {}
        /\ Running({"prompted"}) = {} /\ Listening = {}
    BY DEF ScanInit, Running, Listening
  <1>2. Cardinality({}) = 0
    BY FS_EmptySet
  <1>3. JobsFit /\ AloneFits /\ FlagsFit /\ PromptFits /\ ScanBooleans
    BY <1>1 DEF ScanInit, JobsFit, AloneFits, FlagsFit, PromptFits, PromptHasPath, ScanBooleans
  <1>4. CountersFit
    <2>1. MaxCalls \in Nat /\ MaxFailedRescans \in Nat
      BY CallsAssumption, ScanAssumption
    <2> QED
      BY <1>1, <1>2, <2>1 DEF ScanInit, CountersFit, ListenersReleased
  <1> QED
    BY <1>3, <1>4 DEF ScanInv

\* How a job of slot i changes what runs.
LEMMA JobChanged ==
  ASSUME ScanInv, NEW i \in Slots, NEW j \in ScanJob \cup {None}, j # None => JobFits(j),
         jobs' = [jobs EXCEPT ![i] = j]
  PROVE  /\ JobsFit'
         /\ jobs'[i] = j /\ \A k \in Slots \ {i} : jobs'[k] = jobs[k]
         /\ \A kinds : Running(kinds)' \ {i} = Running(kinds) \ {i}
         /\ \A kinds : i \in Running(kinds)' <=> j # None /\ j.kind \in kinds
         /\ Listening' \ {i} = Listening \ {i}
         /\ i \in Listening' <=> j # None /\ j.kind \in Listeners /\ Head(j.left) # "listen"
  <1>1. /\ jobs'[i] = j /\ \A k \in Slots \ {i} : jobs'[k] = jobs[k]
        /\ jobs' \in [Slots -> ScanJob \cup {None}]
    BY DEF ScanInv, JobsFit
  <1>2. JobsFit'
    BY <1>1 DEF ScanInv, JobsFit
  <1>3. \A kinds : /\ Running(kinds)' \ {i} = Running(kinds) \ {i}
                   /\ i \in Running(kinds)' <=> j # None /\ j.kind \in kinds
    BY <1>1 DEF Running
  <1>4. /\ Listening' \ {i} = Listening \ {i}
        /\ i \in Listening' <=> j # None /\ j.kind \in Listeners /\ Head(j.left) # "listen"
    BY <1>1 DEF Listening, Running, Awaits, Listeners
  <1> QED
    BY <1>1, <1>2, <1>3, <1>4

\* A job waits for the next answer, begins with its next directory, or loads the paths.
LEMMA TailFits ==
  ASSUME NEW j \in ScanJob, JobFits(j), Len(j.left) > 1
  PROVE  LET k == [j EXCEPT !.left = Tail(@)] IN
         k \in ScanJob /\ JobFits(k) /\ k.kind = j.kind /\ Head(k.left) # "listen"
  <1> DEFINE k == [j EXCEPT !.left = Tail(@)]
  <1>1. j.left \in Seq(ScanSteps)
    BY DEF ScanJob, ScanSteps
  <1>2. /\ Tail(j.left) \in Seq(ScanSteps) /\ Len(Tail(j.left)) = Len(j.left) - 1
        /\ \A n \in 1..Len(j.left) - 1 : Tail(j.left)[n] = j.left[n + 1]
    BY <1>1
  <1>3. k \in ScanJob /\ k.kind = j.kind /\ k.dirs = j.dirs /\ k.left = Tail(j.left)
    BY <1>2 DEF ScanJob, ScanSteps
  <1>4. Len(j.left) \in Nat
    BY <1>1
  <1>5. Quiet(Tail(j.left)) /\ Tail(j.left) # << >> /\ Head(Tail(j.left)) # "listen"
    <2> DEFINE s == Tail(j.left)
    <2>1. \A n \in 1..Len(s) : s[n] # "listen"
      <3> TAKE n \in 1..Len(s)
      <3>1. n + 1 \in 2..Len(j.left) /\ n \in 1..Len(j.left) - 1
        BY <1>2, <1>4
      <3> QED
        BY <1>2, <3>1 DEF JobFits, Quiet
    <2>2. s \in Seq(ScanSteps) /\ Len(s) \in Nat /\ Len(s) > 0
      BY <1>2, <1>4
    <2> HIDE DEF s
    <2>3. s # << >> /\ Head(s) = s[1] /\ 1 \in 1..Len(s)
      BY <2>2
    <2>4. Quiet(s)
      BY <2>1, <2>2 DEF Quiet
    <2> QED
      BY <2>1, <2>3, <2>4 DEF s
  <1> HIDE DEF k
  <1> QED
    BY <1>3, <1>5 DEF JobFits, k

LEMMA AgainFits ==
  ASSUME NEW j \in ScanJob, JobFits(j), j.dirs > 1
  PROVE  LET k == [j EXCEPT !.dirs = @ - 1, !.left = Course(j.kind, j.midi)] IN
         /\ k \in ScanJob /\ JobFits(k) /\ k.kind = j.kind /\ Head(k.left) = "listen"
         /\ j.kind \in Listeners \ {"rescan"}
  <1> DEFINE k == [j EXCEPT !.dirs = @ - 1, !.left = Course(j.kind, j.midi)]
  <1>1. j.kind \in {"import", "sidebar"} /\ j.midi \in BOOLEAN /\ j.dirs \in 1..MaxDirectories
        /\ MaxDirectories \in Nat
    BY ScanAssumption DEF JobFits, ScanJob
  <1>2. j.kind \in Listeners \ {"rescan"} /\ j.kind \in Scans
    BY <1>1 DEF Listeners, Scans
  <1>3. /\ Course(j.kind, j.midi) \in Seq(ScanSteps) /\ Course(j.kind, j.midi) # << >>
        /\ Quiet(Course(j.kind, j.midi)) /\ Head(Course(j.kind, j.midi)) = "listen"
        /\ Len(Course(j.kind, j.midi)) > 1
    BY <1>1, <1>2, CourseFacts
  <1>4. j.dirs - 1 \in 1..MaxDirectories
    BY <1>1
  <1>5. k \in ScanJob /\ k.kind = j.kind /\ k.left = Course(j.kind, j.midi)
    BY <1>3, <1>4 DEF ScanJob, ScanSteps
  <1> HIDE DEF k
  <1> QED
    BY <1>1, <1>2, <1>3, <1>5 DEF JobFits, k

LEMMA AfterFits ==
  ASSUME NEW j \in ScanJob, JobFits(j), j.kind = "sidebar", ~(j.dirs > 1)
  PROVE  LET k == [j EXCEPT !.kind = "afterSidebar", !.left = Course("afterSidebar", j.midi)] IN
         k \in ScanJob /\ JobFits(k) /\ k.kind = "afterSidebar" /\ k.kind \notin Scans \cup Migrations
  <1> DEFINE k == [j EXCEPT !.kind = "afterSidebar", !.left = Course("afterSidebar", j.midi)]
  <1>1. "afterSidebar" \notin Scans \cup Migrations /\ "afterSidebar" \notin Listeners
    BY DEF Scans, Migrations, Listeners
  <1>2. j.midi \in BOOLEAN
    BY DEF ScanJob
  <1>3. /\ Course("afterSidebar", j.midi) \in Seq(ScanSteps) /\ Course("afterSidebar", j.midi) # << >>
        /\ Quiet(Course("afterSidebar", j.midi)) /\ Head(Course("afterSidebar", j.midi)) # "listen"
    BY <1>1, <1>2, CourseFacts
  <1>4. k \in ScanJob /\ k.kind = "afterSidebar" /\ k.dirs = j.dirs
        /\ k.left = Course("afterSidebar", j.midi)
    BY <1>3 DEF ScanJob, ScanSteps
  <1> HIDE DEF k
  <1> QED
    BY <1>1, <1>3, <1>4 DEF JobFits, k

\* The counts that a change of one slot leaves.
LEMMA CountSlots ==
  ASSUME NEW S \in SUBSET Slots, NEW T \in SUBSET Slots, NEW i \in Slots, S \ {i} = T \ {i}
  PROVE  /\ Cardinality(S) \in Nat /\ Cardinality(T) \in Nat
         /\ i \in S /\ i \notin T => Cardinality(T) = Cardinality(S) - 1
         /\ i \notin S /\ i \in T => Cardinality(T) = Cardinality(S) + 1
         /\ (i \in S <=> i \in T) => Cardinality(T) = Cardinality(S)
  <1>1. IsFiniteSet(S) /\ IsFiniteSet(T) /\ Cardinality(S) \in Nat /\ Cardinality(T) \in Nat
    BY SlotSets
  <1>2. i \in S /\ i \notin T => Cardinality(T) = Cardinality(S) - 1
    <2>1. i \in S /\ i \notin T => T = S \ {i}
      OBVIOUS
    <2> QED
      BY <1>1, <2>1, FS_RemoveElement
  <1>3. i \notin S /\ i \in T => Cardinality(T) = Cardinality(S) + 1
    <2>1. i \notin S /\ i \in T => T = S \cup {i}
      OBVIOUS
    <2> QED
      BY <1>1, <2>1, FS_AddElement
  <1>4. (i \in S <=> i \in T) => S = T
    OBVIOUS
  <1> QED
    BY <1>1, <1>2, <1>3, <1>4

\* A handler starts.
LEMMA StartJobInv ==
  ASSUME ScanInv, NEW kind \in Scans \cup Migrations, NEW directories \in 1..MaxDirectories,
         NEW inMidi \in BOOLEAN, StartJob(kind, directories, inMidi),
         directories > 1 => kind \in {"import", "sidebar"},
         kind = "rescan" => failedRescans < MaxFailedRescans,
         \/ kind # "prompted" /\ UNCHANGED promptVars
         \/ promptOpen' = FALSE /\ UNCHANGED <<pendingPath, reopened>>
  PROVE  ScanInv'
  <1>0. JobsFit /\ FlagsFit /\ AloneFits /\ PromptFits /\ CountersFit /\ ScanBooleans
    BY DEF ScanInv
  <1>1. PICK i \in Slots :
          /\ jobs[i] = None
          /\ jobs' = [jobs EXCEPT ![i] = [kind |-> kind, dirs |-> directories, midi |-> inMidi,
                                          left |-> Course(kind, inMidi)]]
    BY DEF StartJob
  <1> DEFINE new == [kind |-> kind, dirs |-> directories, midi |-> inMidi,
                     left |-> Course(kind, inMidi)]
  <1>2. /\ new \in ScanJob /\ JobFits(new) /\ new.kind = kind
        /\ kind \in Listeners => Head(new.left) = "listen"
    <2>1. /\ Course(kind, inMidi) \in Seq(ScanSteps) /\ Course(kind, inMidi) # << >>
          /\ Quiet(Course(kind, inMidi))
          /\ Head(Course(kind, inMidi)) = "listen" <=> kind \in Listeners
          /\ kind \in Listeners => Len(Course(kind, inMidi)) > 1
      BY CourseFacts
    <2>2. /\ new \in ScanJob /\ new.kind = kind /\ new.dirs = directories
          /\ new.left = Course(kind, inMidi)
      BY <2>1 DEF ScanJob, ScanSteps
    <2> HIDE DEF new
    <2> QED
      BY <2>1, <2>2 DEF JobFits
  <1>3. new # None /\ jobs' = [jobs EXCEPT ![i] = new]
    BY <1>1, <1>2, ScanJobAssumption
  <1> HIDE DEF new
  <1>4. /\ JobsFit'
        /\ jobs'[i] = new /\ \A k \in Slots \ {i} : jobs'[k] = jobs[k]
        /\ \A kinds : Running(kinds)' \ {i} = Running(kinds) \ {i}
        /\ \A kinds : i \in Running(kinds)' <=> kind \in kinds
        /\ Listening' \ {i} = Listening \ {i}
        /\ i \notin Listening'
    BY <1>2, <1>3, JobChanged
  <1>5. /\ \A kinds : i \notin Running(kinds)
        /\ i \notin Listening
    BY <1>1 DEF Running, Listening
  <1>6. /\ jobsOverlapped' \in BOOLEAN
        /\ jobsOverlapped' <=> jobsOverlapped \/
             \E k \in Slots : jobs[k] # None /\ SameFlag(kind, jobs[k].kind)
        /\ UNCHANGED <<allPathsKnown, listeners, failedRescans>>
    <2>1. jobsOverlapped' = (jobsOverlapped \/
             \E k \in Slots : jobs[k] # None /\ SameFlag(kind, jobs[k].kind))
      BY DEF StartJob
    <2>2. UNCHANGED <<allPathsKnown, listeners, failedRescans>>
      BY DEF StartJob
    <2> QED
      BY <2>1, <2>2, Zenon
  <1>7. \/ kind \in Scans /\ scanning' = TRUE /\ progress' = FALSE /\ UNCHANGED migrationBusy
        \/ /\ kind \in Migrations /\ kind \notin Scans
           /\ migrationBusy' = TRUE /\ UNCHANGED <<scanning, progress>>
    BY DEF StartJob
  <1>8. FlagsFit'
    <2>1. CASE kind \in Scans
      <3>1. Running(Scans)' # {} /\ (Running(Migrations) # {} => Running(Migrations)' # {})
        BY <1>4, <1>5, <2>1
      <3> QED
        BY <1>0, <1>7, <2>1, <3>1 DEF FlagsFit
    <2>2. CASE kind \in Migrations /\ kind \notin Scans
      <3>1. Running(Migrations)' # {} /\ (Running(Scans) # {} => Running(Scans)' # {})
        BY <1>4, <1>5, <2>2
      <3> QED
        BY <1>0, <1>7, <2>2, <3>1 DEF FlagsFit
    <2> QED
      BY <2>1, <2>2
  <1>9. AloneFits'
    <2> SUFFICES ASSUME ~jobsOverlapped'
                 PROVE  /\ \A j, k \in Slots : j # k /\ jobs'[j] # None /\ jobs'[k] # None
                              => ~SameFlag(jobs'[j].kind, jobs'[k].kind)
                        /\ Running(Scans)' # {} => scanning'
                        /\ Running(Migrations)' # {} => migrationBusy'
                        /\ progress' => scanning'
      BY DEF AloneFits
    <2>1. ~jobsOverlapped /\ \A k \in Slots : jobs[k] # None => ~SameFlag(kind, jobs[k].kind)
      BY <1>6
    <2>2. /\ \A j, k \in Slots : j # k /\ jobs[j] # None /\ jobs[k] # None
                              => ~SameFlag(jobs[j].kind, jobs[k].kind)
          /\ Running(Scans) # {} => scanning
          /\ Running(Migrations) # {} => migrationBusy
          /\ progress => scanning
      BY <1>0, <2>1 DEF AloneFits
    <2>3. \A a, b : SameFlag(a, b) <=> SameFlag(b, a)
      BY DEF SameFlag
    <2>4. \A j, k \in Slots : j # k /\ jobs'[j] # None /\ jobs'[k] # None
                              => ~SameFlag(jobs'[j].kind, jobs'[k].kind)
      BY <1>2, <1>4, <2>1, <2>2, <2>3
    <2>5. \A kinds : kind \notin kinds => Running(kinds)' = Running(kinds)
      <3> TAKE kinds
      <3>1. /\ Running(kinds)' \ {i} = Running(kinds) \ {i}
            /\ i \in Running(kinds)' <=> kind \in kinds
            /\ i \notin Running(kinds)
        BY <1>4, <1>5
      <3> QED
        BY <3>1
    <2>6. kind \in Scans => kind \notin Migrations
      BY DEF Scans, Migrations
    <2> QED
      BY <1>7, <2>2, <2>4, <2>5, <2>6
  <1>10. PromptFits' /\ promptOpen' \in BOOLEAN /\ pendingPath' \in BOOLEAN /\ reopened' \in BOOLEAN
    <2>1. CASE kind # "prompted" /\ UNCHANGED promptVars
      <3>1. Running({"prompted"})' = Running({"prompted"})
        BY <1>4, <1>5, <2>1
      <3> QED
        BY <1>0, <2>1, <3>1 DEF PromptFits, PromptHasPath, promptVars, ScanBooleans
    <2>2. CASE promptOpen' = FALSE /\ UNCHANGED <<pendingPath, reopened>>
      BY <1>0, <2>2 DEF PromptFits, PromptHasPath, ScanBooleans
    <2> QED
      BY <2>1, <2>2
  <1>11. CountersFit'
    <2>1. Listening' = Listening
      <3>1. Listening' \ {i} = Listening \ {i} /\ i \notin Listening' /\ i \notin Listening
        BY <1>4, <1>5, Zenon
      <3>2. \A L, M : L \ {i} = M \ {i} /\ i \notin L /\ i \notin M => L = M
        OBVIOUS
      <3> QED
        BY <3>1, <3>2, Zenon
    <2>2. Running({"rescan"}) \subseteq Slots /\ Running({"rescan"})' \subseteq Slots
      BY DEF Running
    <2>3. /\ Cardinality(Running({"rescan"})) \in Nat /\ Cardinality(Running({"rescan"})') \in Nat
          /\ Cardinality(Running({"rescan"})') <= MaxCalls
      BY <2>2, SlotSets
    <2>4. kind # "rescan" => Running({"rescan"})' = Running({"rescan"})
      BY <1>4, <1>5
    <2>5. MaxFailedRescans \in Nat /\ MaxCalls \in Nat
      BY CallsAssumption, ScanAssumption
    <2>6. failedRescans + Cardinality(Running({"rescan"})') <= MaxFailedRescans + MaxCalls
      <3>1. CASE kind = "rescan"
        BY <1>0, <2>3, <2>5, <3>1 DEF CountersFit
      <3>2. CASE kind # "rescan"
        BY <1>0, <2>4, <3>2 DEF CountersFit
      <3> QED
        BY <3>1, <3>2
    <2> QED
      BY <1>0, <1>6, <2>1, <2>6 DEF CountersFit, ListenersReleased
  <1>12. ScanBooleans'
    BY <1>0, <1>6, <1>7, <1>10 DEF ScanBooleans
  <1> QED
    BY <1>4, <1>8, <1>9, <1>10, <1>11, <1>12 DEF ScanInv

\* A job changes in its slot, and the flags and counts with it.
LEMMA EndOrNextInv ==
  ASSUME ScanInv, NEW i \in Slots, jobs[i] # None, Head(jobs[i].left) # "listen",
         NEW failed \in BOOLEAN, EndOrNext(i, failed), allPathsKnown' \in BOOLEAN
  PROVE  ScanInv'
  <1>0. /\ JobsFit /\ FlagsFit /\ AloneFits /\ PromptFits /\ CountersFit /\ ScanBooleans
        /\ jobs[i] \in ScanJob /\ JobFits(jobs[i])
    BY DEF ScanInv, JobsFit
  <1>1. PICK j \in ScanJob : j = jobs[i]
    BY <1>0
  <1>2. PICK k \in ScanJob \cup {None} :
          /\ jobs' = [jobs EXCEPT ![i] = k]
          /\ k # None => JobFits(k) /\ (k.kind \in Scans \cup Migrations => k.kind = j.kind)
          /\ k # None => ~(k.kind \in Listeners /\ Head(k.left) # "listen")
          /\ IF j.dirs > 1
               THEN k # None /\ k.kind = j.kind /\ j.kind \in Listeners \ {"rescan"}
               ELSE k = None \/ k.kind \notin Scans \cup Migrations
    <2>1. CASE j.dirs > 1
      <3> DEFINE again == [j EXCEPT !.dirs = @ - 1, !.left = Course(j.kind, j.midi)]
      <3>1. /\ again \in ScanJob /\ JobFits(again) /\ again.kind = j.kind /\ Head(again.left) = "listen"
            /\ j.kind \in Listeners \ {"rescan"}
        BY <1>0, <1>1, <2>1, AgainFits
      <3>2. jobs' = [jobs EXCEPT ![i] = again]
        BY <1>0, <1>1, <2>1 DEF EndOrNext, JobsFit
      <3>3. again # None
        BY <3>1, ScanJobAssumption
      <3> HIDE DEF again
      <3> QED
        BY <2>1, <3>1, <3>2, <3>3
    <2>2. CASE ~(j.dirs > 1) /\ j.kind # "sidebar"
      BY <1>1, <2>2 DEF EndOrNext
    <2>3. CASE ~(j.dirs > 1) /\ j.kind = "sidebar"
      <3> DEFINE after == [j EXCEPT !.kind = "afterSidebar", !.left = Course("afterSidebar", j.midi)]
      <3>1. after \in ScanJob /\ JobFits(after) /\ after.kind \notin Scans \cup Migrations
        BY <1>0, <1>1, <2>3, AfterFits
      <3>2. jobs' = [jobs EXCEPT ![i] = after]
        BY <1>0, <1>1, <2>3 DEF EndOrNext, JobsFit
      <3>3. after.kind \notin Listeners
        BY <3>1 DEF Listeners
      <3> HIDE DEF after
      <3> QED
        BY <2>3, <3>1, <3>2, <3>3
    <2> QED
      BY <2>1, <2>2, <2>3
  <1>3. /\ JobsFit'
        /\ jobs'[i] = k /\ \A m \in Slots \ {i} : jobs'[m] = jobs[m]
        /\ \A kinds : Running(kinds)' \ {i} = Running(kinds) \ {i}
        /\ \A kinds : i \in Running(kinds)' <=> k # None /\ k.kind \in kinds
        /\ Listening' \ {i} = Listening \ {i}
        /\ i \notin Listening'
    BY <1>2, JobChanged
  <1>4. /\ \A kinds : i \in Running(kinds) <=> j.kind \in kinds
        /\ i \in Listening <=> j.kind \in Listeners
    BY <1>1 DEF Running, Listening, Awaits, Listeners
  <1>5. /\ jobsOverlapped' \in BOOLEAN
        /\ jobsOverlapped' <=> jobsOverlapped /\ \E m \in Slots : jobs'[m] # None
        /\ pendingPath' \in BOOLEAN
        /\ pendingPath' <=> pendingPath /\ j.kind # "prompted"
        /\ promptOpen' = promptOpen /\ reopened' = reopened
    <2>1. /\ jobsOverlapped' = (jobsOverlapped /\ \E m \in Slots : jobs'[m] # None)
          /\ pendingPath' = (pendingPath /\ j.kind # "prompted")
          /\ promptOpen' = promptOpen /\ reopened' = reopened
      BY <1>1 DEF EndOrNext
    <2> QED
      BY <2>1, Zenon
  <1>6. /\ scanning' \in BOOLEAN /\ progress' \in BOOLEAN /\ migrationBusy' \in BOOLEAN
        /\ IF j.dirs > 1
             THEN scanning' /\ ~progress' /\ (migrationBusy' <=> migrationBusy)
             ELSE /\ scanning' <=> scanning /\ j.kind \notin Scans
                  /\ progress' <=> progress /\ j.kind \notin Scans
                  /\ migrationBusy' <=> migrationBusy /\ j.kind \notin Migrations
    <2>1. CASE j.dirs > 1
      <3>1. scanning' = TRUE /\ progress' = FALSE /\ UNCHANGED migrationBusy
        BY <1>1, <2>1 DEF EndOrNext
      <3> QED
        BY <1>0, <2>1, <3>1 DEF ScanBooleans
    <2>2. CASE ~(j.dirs > 1)
      <3>1. /\ scanning' = (scanning /\ j.kind \notin Scans)
            /\ progress' = (progress /\ j.kind \notin Scans)
            /\ migrationBusy' = (migrationBusy /\ j.kind \notin Migrations)
        BY <1>1, <2>2 DEF EndOrNext, ClearFlags
      <3> QED
        BY <2>2, <3>1, Zenon
    <2> QED
      BY <2>1, <2>2
  <1>7. /\ j.kind \in Scans => j.kind \notin Migrations
        /\ j.dirs > 1 => j.kind \in Scans /\ j.kind # "rescan" /\ k.kind = j.kind
        /\ Listeners \subseteq Scans /\ "rescan" \in Listeners
    BY <1>2 DEF Scans, Migrations, Listeners
  <1>8. \A kinds : /\ Running(kinds)' \in {Running(kinds), Running(kinds) \ {i}, Running(kinds) \cup {i}}
                   /\ j.kind \notin kinds /\ kinds \subseteq Scans \cup Migrations
                        => Running(kinds)' = Running(kinds)
                   /\ kinds \subseteq Scans \cup Migrations => Running(kinds)' \subseteq Running(kinds)
                   /\ j.dirs > 1 => Running(kinds)' = Running(kinds)
    <2> TAKE kinds
    <2>1. /\ Running(kinds)' \ {i} = Running(kinds) \ {i}
          /\ i \in Running(kinds)' <=> k # None /\ k.kind \in kinds
          /\ i \in Running(kinds) <=> j.kind \in kinds
      BY <1>3, <1>4
    <2> QED
      BY <1>2, <2>1
  <1>9. FlagsFit'
    <2>1. CASE j.dirs > 1
      <3>1. Running(Scans)' # {} /\ Running(Migrations)' = Running(Migrations)
        BY <1>4, <1>7, <1>8, <2>1
      <3> QED
        BY <1>0, <1>6, <2>1, <3>1 DEF FlagsFit
    <2>2. CASE ~(j.dirs > 1)
      <3>1. /\ j.kind \notin Scans => Running(Scans)' = Running(Scans)
            /\ j.kind \notin Migrations => Running(Migrations)' = Running(Migrations)
        BY <1>8
      <3> QED
        BY <1>0, <1>6, <2>2, <3>1 DEF FlagsFit
    <2> QED
      BY <2>1, <2>2
  <1>10. AloneFits'
    <2> SUFFICES ASSUME ~jobsOverlapped'
                 PROVE  /\ \A a, b \in Slots : a # b /\ jobs'[a] # None /\ jobs'[b] # None
                              => ~SameFlag(jobs'[a].kind, jobs'[b].kind)
                        /\ Running(Scans)' # {} => scanning'
                        /\ Running(Migrations)' # {} => migrationBusy'
                        /\ progress' => scanning'
      BY DEF AloneFits
    <2>1. CASE jobsOverlapped
      <3>1. \A m \in Slots : jobs'[m] = None
        BY <1>5, <2>1
      <3>2. \A kinds : Running(kinds)' = {}
        BY <3>1 DEF Running
      <3>3. ~progress'
        BY <1>9, <3>2 DEF FlagsFit
      <3> QED
        BY <3>1, <3>2, <3>3
    <2>2. CASE ~jobsOverlapped
      <3>1. /\ \A a, b \in Slots : a # b /\ jobs[a] # None /\ jobs[b] # None
                              => ~SameFlag(jobs[a].kind, jobs[b].kind)
            /\ Running(Scans) # {} => scanning
            /\ Running(Migrations) # {} => migrationBusy
            /\ progress => scanning
        BY <1>0, <2>2 DEF AloneFits
      <3>2. k # None /\ k.kind \notin Scans \cup Migrations => \A a : ~SameFlag(k.kind, a) /\ ~SameFlag(a, k.kind)
        BY DEF SameFlag
      <3>3. \A a, b \in Slots : a # b /\ jobs'[a] # None /\ jobs'[b] # None
                              => ~SameFlag(jobs'[a].kind, jobs'[b].kind)
        BY <1>1, <1>2, <1>3, <3>1, <3>2
      <3>4. \A kinds : kinds \in {Scans, Migrations} /\ j.kind \in kinds => Running(kinds) = {i}
        <4> SUFFICES ASSUME NEW kinds \in {Scans, Migrations}, j.kind \in kinds, NEW m \in Running(kinds), m # i
                     PROVE  FALSE
          BY <1>4
        <4>1. jobs[m] # None /\ jobs[m].kind \in kinds /\ m \in Slots
          BY DEF Running
        <4> QED
          BY <1>1, <3>1, <4>1 DEF SameFlag
      <3>5. /\ Running(Scans)' # {} => scanning'
            /\ progress' => scanning'
        <4>1. CASE j.dirs > 1
          BY <1>6, <4>1
        <4>2. CASE ~(j.dirs > 1) /\ j.kind \in Scans
          <5>1. Running(Scans)' = {}
            BY <1>2, <1>3, <1>4, <3>4, <4>2
          <5> QED
            BY <1>6, <4>2, <5>1
        <4>3. CASE ~(j.dirs > 1) /\ j.kind \notin Scans
          <5>1. Running(Scans)' = Running(Scans)
            BY <1>8, <4>3
          <5> QED
            BY <1>6, <3>1, <4>3, <5>1
        <4> QED
          BY <4>1, <4>2, <4>3
      <3>6. Running(Migrations)' # {} => migrationBusy'
        <4>1. CASE j.dirs > 1
          BY <1>6, <1>8, <3>1, <4>1
        <4>2. CASE ~(j.dirs > 1) /\ j.kind \in Migrations
          <5>1. Running(Migrations)' = {}
            BY <1>2, <1>3, <1>4, <3>4, <4>2
          <5> QED
            BY <5>1
        <4>3. CASE ~(j.dirs > 1) /\ j.kind \notin Migrations
          <5>1. Running(Migrations)' = Running(Migrations)
            BY <1>8, <4>3
          <5> QED
            BY <1>6, <3>1, <4>3, <5>1
        <4> QED
          BY <4>1, <4>2, <4>3
      <3> QED
        BY <3>3, <3>5, <3>6
    <2> QED
      BY <2>1, <2>2
  <1>11. PromptFits'
    <2>1. "prompted" \in Scans
      BY DEF Scans
    <2>2. Running({"prompted"})' \subseteq Running({"prompted"})
      BY <1>8, <2>1
    <2>3. j.kind = "prompted" => Running({"prompted"}) # {}
      BY <1>4
    <2> QED
      BY <1>0, <1>5, <2>2, <2>3 DEF PromptFits, PromptHasPath
  <1>12. CountersFit'
    <2>1. /\ listeners' = IF i \in Listening /\ ~(failed /\ j.kind = "rescan") THEN listeners - 1 ELSE listeners
          /\ failedRescans' = IF failed /\ j.kind = "rescan" THEN failedRescans + 1 ELSE failedRescans
      BY <1>1 DEF EndOrNext, Unlistened
    <2>2. Listening \subseteq Slots /\ Listening' \subseteq Slots
          /\ Running({"rescan"}) \subseteq Slots /\ Running({"rescan"})' \subseteq Slots
      BY DEF Running, Listening
    <2>3. PICK L, M \in SUBSET Slots : L = Listening /\ M = Listening'
      BY <2>2
    <2>4. PICK R, Q \in SUBSET Slots : R = Running({"rescan"}) /\ Q = Running({"rescan"})'
      BY <2>2
    <2>5. /\ Cardinality(L) \in Nat /\ Cardinality(M) \in Nat
          /\ i \in L => Cardinality(M) = Cardinality(L) - 1
          /\ i \notin L => Cardinality(M) = Cardinality(L)
      BY <1>3, <2>3, CountSlots
    <2>6. /\ i \in R <=> j.kind = "rescan"
          /\ i \in Q => j.kind = "rescan"
          /\ R \ {i} = Q \ {i}
          /\ j.kind = "rescan" => i \notin Q
      <3>1. "rescan" \in Scans
        BY DEF Scans
      <3> QED
        BY <1>2, <1>3, <1>4, <1>7, <2>4, <3>1
    <2>7. /\ Cardinality(R) \in Nat /\ Cardinality(Q) \in Nat
          /\ j.kind = "rescan" => Cardinality(Q) = Cardinality(R) - 1
          /\ j.kind # "rescan" => Cardinality(Q) = Cardinality(R)
      BY <2>6, CountSlots
    <2>8. /\ listeners = Cardinality(L) + failedRescans /\ failedRescans \in Nat
          /\ failedRescans + Cardinality(R) <= MaxFailedRescans + MaxCalls
      BY <1>0, <2>3, <2>4 DEF CountersFit, ListenersReleased
    <2>9. i \in L <=> j.kind \in Listeners
      BY <1>4, <2>3
    <2>10. MaxFailedRescans \in Nat /\ MaxCalls \in Nat
      BY CallsAssumption, ScanAssumption
    <2>11. listeners' = Cardinality(M) + failedRescans'
      BY <1>7, <2>1, <2>3, <2>5, <2>8, <2>9
    <2>12. failedRescans' \in Nat /\ listeners' \in Nat
      BY <2>1, <2>5, <2>8, <2>11
    <2>13. failedRescans' + Cardinality(Q) <= MaxFailedRescans + MaxCalls
      BY <2>1, <2>7, <2>8, <2>10
    <2> QED
      BY <2>3, <2>4, <2>11, <2>12, <2>13 DEF CountersFit, ListenersReleased
  <1>13. ScanBooleans'
    BY <1>0, <1>5, <1>6 DEF ScanBooleans
  <1> QED
    BY <1>3, <1>9, <1>10, <1>11, <1>12, <1>13 DEF ScanInv

\* A job waits for its next answer; if it has just registered, one listens more.
LEMMA NextStepInv ==
  ASSUME ScanInv, NEW i \in Slots, jobs[i] # None, Len(jobs[i].left) > 1,
         jobs' = [jobs EXCEPT ![i].left = Tail(@)],
         listeners' = IF Head(jobs[i].left) = "listen" THEN listeners + 1 ELSE listeners,
         allPathsKnown' \in BOOLEAN,
         UNCHANGED <<flagVars, promptVars, jobsOverlapped, failedRescans>>
  PROVE  ScanInv'
  <1>0. /\ JobsFit /\ FlagsFit /\ AloneFits /\ PromptFits /\ CountersFit /\ ScanBooleans
        /\ jobs[i] \in ScanJob /\ JobFits(jobs[i])
    BY DEF ScanInv, JobsFit
  <1>1. PICK j \in ScanJob : j = jobs[i]
    BY <1>0
  <1>2. PICK k \in ScanJob :
          /\ jobs' = [jobs EXCEPT ![i] = k]
          /\ JobFits(k) /\ k.kind = j.kind /\ Head(k.left) # "listen" /\ k # None
    <2> DEFINE next == [j EXCEPT !.left = Tail(@)]
    <2>1. next \in ScanJob /\ JobFits(next) /\ next.kind = j.kind /\ Head(next.left) # "listen"
      BY <1>0, <1>1, TailFits
    <2>2. jobs' = [jobs EXCEPT ![i] = next]
      BY <1>0, <1>1 DEF JobsFit
    <2>3. next # None
      BY <2>1, ScanJobAssumption
    <2> HIDE DEF next
    <2> QED
      BY <2>1, <2>2, <2>3
  <1>3. /\ JobsFit'
        /\ jobs'[i] = k /\ \A m \in Slots \ {i} : jobs'[m] = jobs[m]
        /\ \A kinds : Running(kinds)' \ {i} = Running(kinds) \ {i}
        /\ \A kinds : i \in Running(kinds)' <=> k # None /\ k.kind \in kinds
        /\ Listening' \ {i} = Listening \ {i}
        /\ i \in Listening' <=> j.kind \in Listeners
    BY <1>2, JobChanged
  <1>4. \A kinds : Running(kinds)' = Running(kinds)
    <2> TAKE kinds
    <2>1. i \in Running(kinds) <=> j.kind \in kinds
      BY <1>1 DEF Running
    <2>2. /\ Running(kinds)' \ {i} = Running(kinds) \ {i}
          /\ i \in Running(kinds)' <=> j.kind \in kinds
      BY <1>2, <1>3
    <2>3. \A m : m \in Running(kinds)' <=> m \in Running(kinds)
      BY <2>1, <2>2
    <2> QED
      BY <2>3
  <1>5. FlagsFit'
    BY <1>0, <1>4 DEF FlagsFit, flagVars
  <1>6. AloneFits'
    <2>1. \A m \in Slots : (jobs'[m] # None <=> jobs[m] # None) /\ (jobs[m] # None => jobs'[m].kind = jobs[m].kind)
      BY <1>1, <1>2, <1>3
    <2> QED
      BY <1>0, <1>4, <2>1 DEF AloneFits, flagVars
  <1>7. PromptFits'
    BY <1>0, <1>4 DEF PromptFits, PromptHasPath, promptVars
  <1>8. CountersFit'
    <2>1. Listening \subseteq Slots /\ Listening' \subseteq Slots
      BY DEF Running, Listening
    <2>2. PICK L, M \in SUBSET Slots : L = Listening /\ M = Listening'
      BY <2>1
    <2>3. i \in L <=> j.kind \in Listeners /\ Head(j.left) # "listen"
      BY <1>1, <2>2 DEF Listening, Running, Awaits, Listeners
    <2>4. Head(j.left) = "listen" => j.kind \in Listeners
      BY <1>0, <1>1 DEF JobFits
    <2>5. /\ Cardinality(L) \in Nat /\ Cardinality(M) \in Nat
          /\ Head(j.left) = "listen" => Cardinality(M) = Cardinality(L) + 1
          /\ Head(j.left) # "listen" => Cardinality(M) = Cardinality(L)
      BY <1>3, <2>2, <2>3, <2>4, CountSlots
    <2>6. listeners = Cardinality(L) + failedRescans /\ failedRescans \in Nat
      BY <1>0, <2>2 DEF CountersFit, ListenersReleased
    <2>7. listeners' = Cardinality(M) + failedRescans /\ listeners' \in Nat
      BY <1>1, <2>5, <2>6
    <2> QED
      BY <1>0, <1>4, <2>2, <2>7 DEF CountersFit, ListenersReleased
  <1>9. ScanBooleans'
    BY <1>0 DEF ScanBooleans, flagVars, promptVars
  <1> QED
    BY <1>3, <1>5, <1>6, <1>7, <1>8, <1>9 DEF ScanInv

LEMMA AdvanceInv ==
  ASSUME ScanInv, NEW i \in Slots, jobs[i] # None, Head(jobs[i].left) # "listen", Advance(i),
         allPathsKnown' \in BOOLEAN
  PROVE  ScanInv'
  <1>1. PICK n \in Nat : n = Len(jobs[i].left) /\ n # 0
    <2>1. PICK s \in Seq(ScanSteps) : s = jobs[i].left /\ s # << >>
      BY DEF ScanInv, JobsFit, JobFits, ScanJob, ScanSteps
    <2>2. Len(s) \in Nat /\ Len(s) # 0
      BY <2>1
    <2> QED
      BY <2>1, <2>2, Zenon
  <1>2. n = 1 \/ (n > 1 /\ n # 1)
    <2>1. n \in Nat /\ n # 0
      BY <1>1, Zenon
    <2> QED
      BY <2>1
  <1>3. CASE n = 1
    BY <1>1, <1>3, EndOrNextInv DEF Advance
  <1>4. CASE n > 1 /\ n # 1
    <2>1. /\ jobs' = [jobs EXCEPT ![i].left = Tail(@)]
          /\ UNCHANGED <<flagVars, promptVars, listeners, jobsOverlapped, failedRescans>>
      BY <1>1, <1>4 DEF Advance
    <2> QED
      BY <1>1, <1>4, <2>1, NextStepInv
  <1> QED
    BY <1>2, <1>3, <1>4

LEMMA JobStepInv ==
  ASSUME ScanInv, NEW i \in Slots, JobStep(i)
  PROVE  ScanInv'
  <1>0. allPathsKnown \in BOOLEAN /\ JobsFit
    BY DEF ScanInv, ScanBooleans
  <1>1. CASE Registered(i)
    <2>1. jobs[i] # None /\ Head(jobs[i].left) = "listen"
      BY <1>1 DEF Registered, Awaits
    <2>2. Len(jobs[i].left) > 1
      BY <1>0, <2>1 DEF JobsFit, JobFits
    <2> QED
      BY <1>0, <1>1, <2>1, <2>2, NextStepInv DEF Registered
  <1>2. CASE StepDone(i)
    <2>1. jobs[i] # None /\ Head(jobs[i].left) # "listen" /\ allPathsKnown' \in BOOLEAN /\ Advance(i)
      BY <1>0, <1>2 DEF StepDone, Awaits
    <2> QED
      BY <2>1, AdvanceInv
  <1>3. CASE StepFails(i)
    <2>1. jobs[i] # None /\ Head(jobs[i].left) # "listen" /\ allPathsKnown' \in BOOLEAN
          /\ (Advance(i) \/ \E failed \in BOOLEAN : EndOrNext(i, failed))
      BY <1>0, <1>3 DEF StepFails
    <2> QED
      BY <2>1, AdvanceInv, EndOrNextInv
  <1> QED
    BY <1>1, <1>2, <1>3 DEF JobStep

LEMMA StartOneInv ==
  ASSUME ScanInv, NEW kind \in Scans \cup Migrations, kind # "prompted", NEW inMidi \in BOOLEAN,
         StartJob(kind, 1, inMidi), UNCHANGED promptVars,
         kind = "rescan" => failedRescans < MaxFailedRescans
  PROVE  ScanInv'
  <1>1. 1 \in 1..MaxDirectories /\ ~(1 > 1)
    BY ScanAssumption
  <1> QED
    BY <1>1, StartJobInv

LEMMA ScanNextInv == ScanInv /\ [ScanNext]_scanVars => ScanInv'
  <1> SUFFICES ASSUME ScanInv, [ScanNext]_scanVars PROVE ScanInv'
    OBVIOUS
  <1>0. 1 \in 1..MaxDirectories /\ {"prompted", "import", "file", "rescan", "sidebar"} \subseteq Scans
    BY ScanAssumption DEF Scans
  <1>1. ASSUME NEW n \in 1..MaxDirectories, NEW inMidi \in BOOLEAN,
               HandleImportPaths(n, inMidi) \/ HandleSidebarImport(n, inMidi)
        PROVE  ScanInv'
    <2>1. PICK kind \in {"import", "file", "sidebar"} :
            StartJob(kind, n, inMidi) /\ (n > 1 => kind # "file") /\ UNCHANGED promptVars
      BY <1>1 DEF HandleImportPaths, HandleSidebarImport
    <2>2. kind \in Scans \cup Migrations /\ kind \notin {"prompted", "rescan"}
          /\ (n > 1 => kind \in {"import", "sidebar"})
      BY <1>0, <2>1
    <2> QED
      BY <2>1, <2>2, StartJobInv
  <1>2. CASE HandleReScanClick
    BY <1>0, <1>2, StartOneInv DEF HandleReScanClick
  <1>3. ASSUME NEW purpose \in Migrations, HandleMigration(purpose) PROVE ScanInv'
    <2>1. purpose \notin {"prompted", "rescan"}
      BY DEF Migrations
    <2> QED
      BY <1>3, <2>1, StartOneInv DEF HandleMigration
  <1>4. ASSUME NEW inMidi \in BOOLEAN, OnRescan(inMidi) PROVE ScanInv'
    <2>1. StartJob("prompted", 1, inMidi) /\ promptOpen' = FALSE /\ UNCHANGED <<pendingPath, reopened>>
      BY <1>4 DEF OnRescan
    <2>2. "prompted" \in Scans \cup Migrations /\ ~(1 > 1) /\ "prompted" # "rescan"
      BY <1>0
    <2> QED
      BY <1>0, <2>1, <2>2, StartJobInv
  <1>5. ASSUME NEW inMidi \in BOOLEAN, HandleScanClick(inMidi) PROVE ScanInv'
    <2>1. CASE allPathsKnown
      <3>1. /\ promptOpen' = TRUE /\ pendingPath' = TRUE
            /\ reopened' = (reopened \/ Running({"prompted"}) # {})
            /\ UNCHANGED <<jobs, scanning, migrationBusy, progress, allPathsKnown, listeners, jobsOverlapped,
                           failedRescans>>
        BY <1>5, <2>1 DEF HandleScanClick, flagVars
      <3>2. reopened' \in BOOLEAN /\ (Running({"prompted"}) # {} => reopened')
        BY <3>1, Zenon
      <3>3. (\A kinds : Running(kinds)' = Running(kinds)) /\ Listening' = Listening
        BY <3>1 DEF Running, Listening, Awaits
      <3>4. JobsFit' /\ FlagsFit' /\ AloneFits' /\ CountersFit'
        BY <3>1, <3>3 DEF ScanInv, JobsFit, FlagsFit, AloneFits, CountersFit, ListenersReleased
      <3>5. PromptFits' /\ ScanBooleans'
        BY <3>1, <3>2, <3>3 DEF ScanInv, PromptFits, PromptHasPath, ScanBooleans
      <3> QED
        BY <3>4, <3>5 DEF ScanInv
    <2>2. CASE ~allPathsKnown
      BY <1>0, <1>5, <2>2, StartOneInv DEF HandleScanClick
    <2> QED
      BY <2>1, <2>2
  <1>6. CASE OnSkip \/ ProgressReported \/ UNCHANGED scanVars
    <2>1. UNCHANGED <<jobs, scanning, migrationBusy, allPathsKnown, listeners, jobsOverlapped, failedRescans>>
      BY <1>6 DEF OnSkip, ProgressReported, flagVars, scanVars
    <2>2. /\ progress' = progress \/ (progress' = TRUE /\ Running(Scans) # {})
          /\ \/ promptOpen' = FALSE /\ pendingPath' = FALSE /\ reopened' = FALSE
             \/ UNCHANGED <<promptOpen, pendingPath, reopened>>
      <3>1. CASE ProgressReported
        <4>1. PICK i \in Awaiting("work") : jobs[i].kind \in Scans \ {"file"}
          BY <3>1 DEF ProgressReported
        <4>2. i \in Running(Scans)
          BY <4>1 DEF Awaiting, Awaits, Running
        <4> QED
          BY <3>1, <4>2 DEF ProgressReported, promptVars
      <3>2. CASE OnSkip \/ UNCHANGED scanVars
        BY <3>2 DEF OnSkip, scanVars, flagVars, promptVars
      <3> QED
        BY <1>6, <3>1, <3>2
    <2>3. (\A kinds : Running(kinds)' = Running(kinds)) /\ Listening' = Listening
      BY <2>1 DEF Running, Listening, Awaits
    <2>4. JobsFit' /\ CountersFit'
      BY <2>1, <2>3 DEF ScanInv, JobsFit, CountersFit, ListenersReleased
    <2>5. FlagsFit' /\ AloneFits'
      BY <2>1, <2>2, <2>3 DEF ScanInv, FlagsFit, AloneFits
    <2>6. PromptFits'
      BY <2>1, <2>2, <2>3 DEF ScanInv, PromptFits, PromptHasPath
    <2>7. ScanBooleans'
      <3>1. {progress', promptOpen', pendingPath', reopened'} \subseteq BOOLEAN
        BY <2>2 DEF ScanInv, ScanBooleans
      <3> QED
        BY <2>1, <3>1 DEF ScanInv, ScanBooleans
    <2> QED
      BY <2>7, <2>4, <2>5, <2>6 DEF ScanInv
  <1>7. ASSUME NEW i \in Slots, JobStep(i) PROVE ScanInv'
    BY <1>7, JobStepInv
  <1> QED
    BY <1>1, <1>2, <1>3, <1>4, <1>5, <1>6, <1>7 DEF ScanNext, ScanUser

LEMMA ScanKept == ScanInv => ScanTypeOK /\ OverlayIsWork /\ ListenersReleased /\ PromptHasPath
  <1> SUFFICES ASSUME ScanInv PROVE ScanTypeOK /\ OverlayIsWork /\ ListenersReleased /\ PromptHasPath
    OBVIOUS
  <1>1. ScanTypeOK
    <2>1. Running({"rescan"}) \subseteq Slots
      BY DEF Running
    <2>2. Cardinality(Running({"rescan"})) \in Nat
      BY <2>1, SlotSets
    <2>3. MaxFailedRescans \in Nat /\ MaxCalls \in Nat
      BY CallsAssumption, ScanAssumption
    <2>4. failedRescans \in 0..MaxFailedRescans + MaxCalls /\ listeners \in Nat
      BY <2>2, <2>3 DEF ScanInv, CountersFit
    <2> QED
      BY <2>4 DEF ScanInv, ScanTypeOK, JobsFit, JobFits, ScanBooleans
  <1>2. OverlayIsWork
    BY DEF ScanInv, OverlayIsWork, FlagsFit, AloneFits
  <1> QED
    BY <1>1, <1>2 DEF ScanInv, CountersFit, PromptFits

\* A flag has the job that set it, a listener the job that registered it, and an open
\* prompt its folder, whatever overlaps and fails.
THEOREM ScanInvariant == ScanSpec => []ScanInv
  BY ScanInitInv, ScanNextInv, PTL DEF ScanSpec

-----------------------------------------------------------------------------
(***************************************************************************)
(* The discovery screen.  One query at most is the newest, it is of what   *)
(* is chosen, and it asks for the page after those that are shown.         *)
(***************************************************************************)

\* The first page of the query is awaited.
FirstAwaited == \E q \in queries : q.newest /\ q.page = 0

\* The newest query, if it is awaited, asks for the next page of what is chosen.
QueriesFit ==
  /\ \A q \in queries : q.newest =>
       /\ q.of = Asked(tab, projectId) /\ loading
       /\ q.page = 0 => pages = << >>
       /\ q.page > 0 /\ "rows" \notin missed => q.page = Len(pages)
  /\ \A q, r \in queries : q.newest /\ r.newest => q = r
  /\ loading => \E q \in queries : q.newest

PagesFit ==
  "rows" \notin missed =>
    /\ \A k \in 1..Len(pages) : pages[k] = [of |-> Asked(tab, projectId), page |-> k - 1]
    /\ FirstAwaited \/ (/\ Len(pages) = pageOffset + 1
                        /\ hasMore <=> pageOffset < LastPage(Asked(tab, projectId)))

ListsFit == "lists" \notin missed /\ [newest |-> TRUE] \notin loads => offered = stored

MutationFits ==
  mutation # None => mutation.kind \in {"create", "save", "delete", "member"}
                     /\ (mutation.kind = "create" => mutation.item \in Projects)

DiscoveryInv ==
  /\ DiscoveryTypeOK
  /\ QueriesFit
  /\ PagesFit
  /\ ListsFit
  /\ MutationFits

LEMMA AskedType ==
  ASSUME NEW t \in Tabs, NEW p \in Projects \cup {None}
  PROVE  Asked(t, p) \in Targets
  BY DEF Asked, Targets

LEMMA OvertakenQueries ==
  ASSUME NEW calls \in SUBSET Query
  PROVE  Overtaken(calls) \subseteq Query /\ \A q \in Overtaken(calls) : ~q.newest
  BY DEF Overtaken, Query

LEMMA OvertakenLoads ==
  ASSUME NEW calls \in SUBSET Load
  PROVE  Overtaken(calls) \subseteq Load /\ [newest |-> TRUE] \notin Overtaken(calls)
  BY DEF Overtaken, Load

LEMMA DiscoveryInitInv == DiscoveryInit => DiscoveryInv
  <1> SUFFICES ASSUME DiscoveryInit PROVE DiscoveryInv
    OBVIOUS
  <1>1. /\ "ranking" \in Tabs /\ Asked(tab, None) \in Targets
        /\ tab = "ranking" /\ projectId = None
    BY DiscoveryAssumption, AskedType DEF DiscoveryInit
  <1>2. PICK q \in Query : q = [of |-> Asked(tab, None), page |-> 0, newest |-> TRUE]
    BY <1>1 DEF Query
  <1>3. queries = {q} /\ q.newest /\ q.page = 0 /\ q.of = Asked(tab, projectId)
    BY <1>1, <1>2 DEF DiscoveryInit
  <1>4. pages \in Seq([of : Targets, page : Nat]) /\ Len(pages) = 0 /\ pages = << >>
    BY DEF DiscoveryInit
  <1>5. /\ hasMore \in BOOLEAN /\ loading \in BOOLEAN /\ error \in BOOLEAN /\ loading
        /\ pageOffset \in Nat
    BY Zenon, 0 \in Nat DEF DiscoveryInit
  <1>6. [newest |-> TRUE] \in Load
    BY DEF Load
  <1>7. DiscoveryTypeOK
    BY <1>1, <1>3, <1>4, <1>5, <1>6 DEF DiscoveryInit, DiscoveryTypeOK
  <1>8. QueriesFit
    BY <1>3, <1>4, <1>5 DEF QueriesFit
  <1>9. PagesFit
    BY <1>3, <1>4 DEF PagesFit, FirstAwaited
  <1>10. ListsFit /\ MutationFits
    BY DEF DiscoveryInit, ListsFit, MutationFits
  <1> QED
    BY <1>7, <1>8, <1>9, <1>10 DEF DiscoveryInv

\* A new query: the rows are asked for again, and with a revision the lists are.
LEMMA AskedInv ==
  ASSUME DiscoveryInv, NEW t \in Tabs, NEW p \in Projects \cup {None},
         tab' = t, projectId' = p, AskFirst(Asked(t, p)),
         savedId' \in Rules \cup {None},
         stored' \subseteq Projects \cup Rules, UNCHANGED <<offered, missed>>,
         \/ UNCHANGED <<stored, loads>>
         \/ loads' = Overtaken(loads) \cup {[newest |-> TRUE]},
         mutation' = None \/ UNCHANGED mutation
  PROVE  DiscoveryInv'
  <1>1. PICK q \in Query : q = [of |-> Asked(t, p), page |-> 0, newest |-> TRUE]
    BY AskedType DEF Query
  <1>2. /\ queries' = Overtaken(queries) \cup {q} /\ q.newest /\ q.page = 0 /\ q.of = Asked(t, p)
        /\ loading' = TRUE /\ pages' = << >> /\ pageOffset' = 0 /\ error' = FALSE
        /\ hasMore' = hasMore
    BY <1>1 DEF AskFirst
  <1>3. Overtaken(queries) \subseteq Query /\ \A r \in Overtaken(queries) : ~r.newest
    BY OvertakenQueries DEF DiscoveryInv, DiscoveryTypeOK
  <1>4. /\ loads' \subseteq Load
        /\ [newest |-> TRUE] \notin loads' => UNCHANGED <<stored, loads>>
    <2>1. loads \subseteq Load
      BY DEF DiscoveryInv, DiscoveryTypeOK
    <2>2. [newest |-> TRUE] \in Load
      BY DEF Load
    <2> QED
      BY <2>1, <2>2, OvertakenLoads
  <1>5. /\ pages' \in Seq([of : Targets, page : Nat]) /\ Len(pages') = 0
        /\ loading' \in BOOLEAN /\ error' \in BOOLEAN /\ loading'
    <2>1. loading' \in BOOLEAN /\ error' \in BOOLEAN /\ loading'
      BY <1>2, Zenon
    <2> QED
      BY <1>2, <2>1
  <1>6. DiscoveryTypeOK'
    BY <1>2, <1>3, <1>4, <1>5 DEF DiscoveryInv, DiscoveryTypeOK
  <1>7. QueriesFit'
    BY <1>2, <1>3, <1>5 DEF QueriesFit, Asked
  <1>8. PagesFit'
    BY <1>2, <1>5 DEF PagesFit, FirstAwaited
  <1>9. ListsFit'
    BY <1>4 DEF DiscoveryInv, ListsFit
  <1>10. MutationFits'
    BY DEF DiscoveryInv, MutationFits
  <1> QED
    BY <1>6, <1>7, <1>8, <1>9, <1>10 DEF DiscoveryInv

\* The rows and what is chosen stay.
LEMMA RestInv ==
  ASSUME DiscoveryInv, UNCHANGED <<tab, projectId, rowVars>>, savedId' \in Rules \cup {None},
         error' \in BOOLEAN, stored' = stored, offered' \subseteq Projects \cup Rules, loads' \subseteq Load,
         missed' \in SUBSET {"rows", "lists"}, "rows" \in missed' <=> "rows" \in missed,
         ListsFit', mutation' # None => mutation'.item \in Projects \cup Rules, MutationFits'
  PROVE  DiscoveryInv'
  <1>1. DiscoveryTypeOK'
    BY DEF DiscoveryInv, DiscoveryTypeOK, rowVars
  <1>2. QueriesFit'
    BY DEF DiscoveryInv, QueriesFit, rowVars, Asked
  <1>3. PagesFit'
    BY DEF DiscoveryInv, PagesFit, FirstAwaited, rowVars, Asked
  <1> QED
    BY <1>1, <1>2, <1>3 DEF DiscoveryInv

LEMMA MoreRowsInv ==
  ASSUME DiscoveryInv, LoadMoreRows
  PROVE  DiscoveryInv'
  <1>0. /\ tab \in Tabs /\ projectId \in Projects \cup {None} /\ pageOffset \in Nat /\ queries \subseteq Query
        /\ ~loading /\ loading' = TRUE
    BY DEF DiscoveryInv, DiscoveryTypeOK, LoadMoreRows
  <1>1. PICK q \in Query : q = [of |-> Asked(tab, projectId), page |-> pageOffset + 1, newest |-> TRUE]
    <2>1. Asked(tab, projectId) \in Targets /\ pageOffset + 1 \in Nat
      BY <1>0, AskedType
    <2> QED
      BY <2>1 DEF Query
  <1>2. /\ queries' = queries \cup {q} /\ q.newest /\ q.page = pageOffset + 1 /\ q.page > 0
        /\ q.of = Asked(tab, projectId)
        /\ UNCHANGED <<choice, pages, pageOffset, hasMore, error, stored, offered, loads, mutation, missed>>
    BY <1>0, <1>1 DEF LoadMoreRows
  <1>3. \A r \in queries : ~r.newest
    BY <1>0 DEF DiscoveryInv, QueriesFit
  <1>4. loading' \in BOOLEAN /\ loading'
    BY <1>0, Zenon
  <1>5. DiscoveryTypeOK'
    BY <1>0, <1>2, <1>4 DEF DiscoveryInv, DiscoveryTypeOK, choice
  <1>6. QueriesFit'
    <2>1. "rows" \notin missed => q.page = Len(pages)
      BY <1>2, <1>3 DEF DiscoveryInv, PagesFit, FirstAwaited
    <2>2. \A r \in queries' : r.newest => r = q
      BY <1>2, <1>3
    <2>3. q.page # 0
      BY <1>0, <1>2
    <2> QED
      BY <1>2, <1>4, <2>1, <2>2, <2>3 DEF QueriesFit, Asked, choice
  <1>7. PagesFit'
    BY <1>2, <1>3 DEF DiscoveryInv, PagesFit, FirstAwaited, Asked, choice
  <1>8. ListsFit' /\ MutationFits'
    BY <1>2 DEF DiscoveryInv, ListsFit, MutationFits
  <1> QED
    BY <1>5, <1>6, <1>7, <1>8 DEF DiscoveryInv

LEMMA RowsEndInv ==
  ASSUME DiscoveryInv, NEW q \in queries, RowsReturn(q) \/ RowsFail(q)
  PROVE  DiscoveryInv'
  <1>0. /\ tab \in Tabs /\ projectId \in Projects \cup {None} /\ pageOffset \in Nat /\ queries \subseteq Query
        /\ q \in Query /\ pages \in Seq([of : Targets, page : Nat]) /\ loading \in BOOLEAN
        /\ hasMore \in BOOLEAN /\ error \in BOOLEAN /\ missed \subseteq {"rows", "lists"}
    BY DEF DiscoveryInv, DiscoveryTypeOK
  <1>1. /\ queries' = queries \ {q}
        /\ loading' = IF q.newest THEN FALSE ELSE loading
        /\ UNCHANGED <<choice, stored, offered, loads, mutation>>
    BY DEF RowsReturn, RowsFail, EndQuery
  <1>2. loading' \in BOOLEAN
    BY <1>0, <1>1, Zenon
  <1>3. ListsFit' /\ MutationFits'
    BY <1>1 DEF DiscoveryInv, ListsFit, MutationFits, RowsReturn, RowsFail
  <1>4. UNCHANGED Asked(tab, projectId)
    BY <1>1 DEF Asked, choice
  <1>5. PICK n \in Nat : n = Len(pages)
    BY <1>0
  <1>6. CASE ~q.newest
    <2>1. /\ UNCHANGED <<pages, pageOffset, hasMore, missed, loading, error>>
          /\ \A r \in queries : r.newest => r \in queries'
      <3>1. UNCHANGED <<pages, pageOffset, hasMore, missed>>
        BY <1>6 DEF RowsReturn, RowsFail
      <3>2. error' = error
        BY <1>0, <1>6, Zenon DEF RowsReturn, RowsFail
      <3> QED
        BY <1>1, <1>6, <3>1, <3>2
    <2>2. DiscoveryTypeOK'
      BY <1>1, <2>1 DEF DiscoveryInv, DiscoveryTypeOK, choice
    <2>3. QueriesFit'
      BY <1>1, <1>4, <2>1 DEF DiscoveryInv, QueriesFit
    <2>4. PagesFit'
      BY <1>1, <1>4, <2>1 DEF DiscoveryInv, PagesFit, FirstAwaited
    <2> QED
      BY <1>3, <2>2, <2>3, <2>4 DEF DiscoveryInv
  <1>7. CASE q.newest
    <2>1. (\A r \in queries' : ~r.newest) /\ ~loading'
      <3>1. ~loading'
        BY <1>1, <1>7, Zenon
      <3> QED
        BY <1>1, <1>7, <3>1 DEF DiscoveryInv, QueriesFit
    <2>2. QueriesFit'
      BY <2>1 DEF QueriesFit
    <2>3. /\ q.of = Asked(tab, projectId) /\ q.page \in Nat
          /\ q.page = 0 => pages = << >>
          /\ q.page > 0 /\ "rows" \notin missed => q.page = n
      BY <1>0, <1>5, <1>7 DEF DiscoveryInv, QueriesFit, Query
    <2>4. CASE RowsReturn(q)
      <3>1. /\ pages' = Append(pages, [of |-> q.of, page |-> q.page])
            /\ pageOffset' = q.page
            /\ missed' = IF q.page = 0 THEN missed \ {"rows"} ELSE missed
            /\ error' = error
        BY <1>7, <2>4 DEF RowsReturn
      <3>2. hasMore' \in BOOLEAN /\ (hasMore' <=> q.page < LastPage(q.of))
        <4>1. hasMore' = (q.page < LastPage(q.of))
          BY <1>7, <2>4 DEF RowsReturn
        <4>2. PICK more \in BOOLEAN : more <=> q.page < LastPage(q.of)
          OBVIOUS
        <4>3. hasMore' \in BOOLEAN /\ (hasMore' <=> more)
          <5>1. CASE q.page < LastPage(q.of)
            BY <4>1, <4>2, <5>1
          <5>2. CASE ~(q.page < LastPage(q.of))
            BY <4>1, <4>2, <5>2
          <5> QED
            BY <5>1, <5>2
        <4> QED
          BY <4>2, <4>3
      <3>3. PICK new \in [of : Targets, page : Nat] : new = [of |-> q.of, page |-> q.page]
        BY <1>0 DEF Query
      <3>4. /\ pages' \in Seq([of : Targets, page : Nat]) /\ Len(pages') = n + 1
            /\ \A k \in 1..n : pages'[k] = pages[k]
            /\ pages'[n + 1] = new
        BY <1>0, <1>5, <3>1, <3>3
      <3>5. DiscoveryTypeOK'
        BY <1>0, <1>1, <1>2, <2>3, <3>1, <3>2, <3>4 DEF DiscoveryInv, DiscoveryTypeOK, choice
      <3>6. "rows" \notin missed' => q.page = n
        <4>1. CASE q.page = 0
          <5>1. pages = << >>
            BY <2>3, <4>1
          <5>2. n = 0
            BY <1>5, <5>1
          <5> QED
            BY <4>1, <5>2
        <4>2. CASE q.page # 0
          BY <2>3, <3>1, <4>2
        <4> QED
          BY <4>1, <4>2
      <3>7. PagesFit'
        <4> SUFFICES ASSUME "rows" \notin missed'
                     PROVE  /\ \A k \in 1..n + 1 : pages'[k] = [of |-> Asked(tab, projectId), page |-> k - 1]
                            /\ n + 1 = pageOffset' + 1
                            /\ hasMore' <=> pageOffset' < LastPage(Asked(tab, projectId))
          BY <1>4, <3>4 DEF PagesFit, LastPage
        <4>1. q.page = n /\ pageOffset' = n
          BY <3>1, <3>6
        <4>2. \A k \in 1..n : pages[k] = [of |-> Asked(tab, projectId), page |-> k - 1]
          <5>1. CASE n = 0
            BY <5>1
          <5>2. CASE n # 0
            <6>1. "rows" \notin missed
              BY <3>1, <4>1, <5>2
            <6> QED
              BY <1>5, <6>1 DEF DiscoveryInv, PagesFit
          <5> QED
            BY <5>1, <5>2
        <4>3. \A k \in 1..n + 1 : k \in 1..n \/ k = n + 1
          OBVIOUS
        <4>4. new = [of |-> Asked(tab, projectId), page |-> (n + 1) - 1]
          BY <2>3, <3>3, <4>1
        <4>5. \A k \in 1..n + 1 : pages'[k] = [of |-> Asked(tab, projectId), page |-> k - 1]
          BY <3>4, <4>2, <4>3, <4>4
        <4> QED
          BY <2>3, <3>2, <4>1, <4>5
      <3> QED
        BY <1>3, <2>2, <3>5, <3>7 DEF DiscoveryInv
    <2>5. CASE RowsFail(q)
      <3>1. /\ UNCHANGED <<pages, pageOffset, hasMore>>
            /\ missed' = IF q.page = 0 THEN missed \cup {"rows"} ELSE missed
        BY <1>7, <2>5 DEF RowsFail
      <3>2. error' \in BOOLEAN
        BY <2>5, Zenon DEF RowsFail
      <3>3. DiscoveryTypeOK'
        BY <1>0, <1>1, <1>2, <3>1, <3>2 DEF DiscoveryInv, DiscoveryTypeOK, choice
      <3>4. PagesFit'
        <4> SUFFICES ASSUME "rows" \notin missed' PROVE PagesFit'
          BY DEF PagesFit
        <4>1. q.page # 0 /\ "rows" \notin missed
          BY <3>1
        <4>2. ~FirstAwaited
          BY <1>7, <4>1 DEF DiscoveryInv, QueriesFit, FirstAwaited
        <4> QED
          BY <1>4, <3>1, <4>1, <4>2 DEF DiscoveryInv, PagesFit, LastPage
      <3> QED
        BY <1>3, <2>2, <3>3, <3>4 DEF DiscoveryInv
    <2> QED
      BY <2>4, <2>5
  <1> QED
    BY <1>6, <1>7

LEMMA ListsEndInv ==
  ASSUME DiscoveryInv, NEW l \in loads, ListsReturn(l) \/ ListsFail(l)
  PROVE  DiscoveryInv'
  <1>1. l \in Load /\ loads \subseteq Load /\ missed \subseteq {"rows", "lists"}
    BY DEF DiscoveryInv, DiscoveryTypeOK
  <1>2. /\ loads' = loads \ {l} /\ UNCHANGED <<choice, rowVars, stored, mutation>>
    BY DEF ListsReturn, ListsFail
  <1>3. /\ offered' = stored \/ offered' = offered
        /\ missed' \in SUBSET {"rows", "lists"} /\ ("rows" \in missed' <=> "rows" \in missed)
    BY <1>1 DEF ListsReturn, ListsFail
  <1>4. error' \in BOOLEAN
    <2>1. error \in BOOLEAN
      BY DEF DiscoveryInv, DiscoveryTypeOK
    <2> QED
      BY <2>1, Zenon DEF ListsReturn, ListsFail
  <1>5. ListsFit'
    <2>1. CASE l.newest
      BY <1>2, <2>1 DEF ListsReturn, ListsFail, ListsFit
    <2>2. CASE ~l.newest
      <3>1. UNCHANGED <<offered, missed>>
        BY <2>2 DEF ListsReturn, ListsFail
      <3>2. l # [newest |-> TRUE]
        BY <2>2
      <3> QED
        BY <1>2, <3>1, <3>2 DEF DiscoveryInv, ListsFit
    <2> QED
      BY <2>1, <2>2
  <1> QED
    BY <1>1, <1>2, <1>3, <1>4, <1>5, RestInv DEF DiscoveryInv, DiscoveryTypeOK, MutationFits, choice

LEMMA MutateInv ==
  ASSUME DiscoveryInv, NEW kind \in {"create", "save", "delete", "member"},
         NEW item \in Projects \cup Rules, kind = "create" => item \in Projects, Mutate(kind, item)
  PROVE  DiscoveryInv'
  <1>1. /\ mutation'.kind = kind /\ mutation'.item = item
        /\ UNCHANGED <<choice, rowVars, stored, offered, loads, missed>>
    BY DEF Mutate
  <1>2. error' \in BOOLEAN
    BY Zenon DEF Mutate
  <1>3. ListsFit' /\ MutationFits'
    BY <1>1 DEF DiscoveryInv, ListsFit, MutationFits
  <1> QED
    BY <1>1, <1>2, <1>3, RestInv DEF DiscoveryInv, DiscoveryTypeOK, choice

LEMMA MutationEndInv ==
  ASSUME DiscoveryInv, MutationReturns \/ MutationFails
  PROVE  DiscoveryInv'
  <1>0. tab \in Tabs /\ projectId \in Projects \cup {None} /\ savedId \in Rules \cup {None}
        /\ stored \subseteq Projects \cup Rules
    BY DEF DiscoveryInv, DiscoveryTypeOK
  <1>1. mutation # None /\ mutation' = None /\ mutation.item \in Projects \cup Rules
        /\ mutation.kind \in {"create", "save", "delete", "member"}
        /\ (mutation.kind = "create" => mutation.item \in Projects)
    BY DEF DiscoveryInv, DiscoveryTypeOK, MutationFits, MutationReturns, MutationFails
  <1>2. CASE MutationReturns
    <2>1. PICK p \in Projects \cup {None} :
            p = IF mutation.kind = "create" THEN mutation.item ELSE projectId
      BY <1>0, <1>1
    <2>2. /\ Revise(tab, p) /\ savedId' \in Rules \cup {None} /\ UNCHANGED <<offered, missed>>
          /\ stored' = Applied(mutation)
      BY <1>0, <1>2, <2>1 DEF MutationReturns
    <2>3. PICK t \in Tabs : t = tab
      BY <1>0
    <2>4. stored' \subseteq Projects \cup Rules
      BY <1>0, <1>1, <2>2 DEF Applied
    <2>5. /\ tab' = t /\ projectId' = p /\ AskFirst(Asked(t, p))
          /\ loads' = Overtaken(loads) \cup {[newest |-> TRUE]}
      BY <2>2, <2>3 DEF Revise
    <2> QED
      BY <1>1, <2>2, <2>4, <2>5, AskedInv
  <1>3. CASE MutationFails
    <2>1. error' \in BOOLEAN
      BY <1>3, Zenon DEF MutationFails
    <2>2. UNCHANGED <<choice, rowVars, stored, offered, loads, missed>>
      BY <1>3 DEF MutationFails
    <2>3. ListsFit' /\ MutationFits'
      BY <1>1, <2>2 DEF DiscoveryInv, ListsFit, MutationFits
    <2> QED
      BY <1>1, <2>1, <2>2, <2>3, RestInv DEF DiscoveryInv, DiscoveryTypeOK, choice
  <1> QED
    BY <1>2, <1>3

LEMMA DiscoveryUserInv ==
  ASSUME DiscoveryInv, DiscoveryUser
  PROVE  DiscoveryInv'
  <1>0. tab \in Tabs /\ projectId \in Projects \cup {None} /\ savedId \in Rules \cup {None}
        /\ stored \subseteq Projects \cup Rules /\ offered \subseteq Projects \cup Rules
        /\ error \in BOOLEAN
    BY DEF DiscoveryInv, DiscoveryTypeOK
  <1>a. PICK t0 \in Tabs, p0 \in Projects \cup {None} : t0 = tab /\ p0 = projectId
    BY <1>0
  <1>1. ASSUME NEW t \in Tabs, ChooseTab(t) PROVE DiscoveryInv'
    BY <1>0, <1>a, <1>1, AskedInv DEF ChooseTab, Choose
  <1>2. ASSUME NEW p \in Projects \cup {None}, ChooseProject(p) PROVE DiscoveryInv'
    BY <1>0, <1>a, <1>2, AskedInv DEF ChooseProject, Choose
  <1>3. ASSUME NEW r \in Rules \cup {None}, ChooseRules(r) PROVE DiscoveryInv'
    <2>1. savedId' \in Rules \cup {None} /\ UNCHANGED <<stored, offered, loads, mutation, missed>>
      BY <1>3 DEF ChooseRules
    <2>2. CASE r = None
      <3>1. UNCHANGED <<tab, projectId, rowVars, error>>
        BY <1>3, <2>2 DEF ChooseRules
      <3>2. ListsFit' /\ MutationFits'
        BY <2>1 DEF DiscoveryInv, ListsFit, MutationFits
      <3> QED
        BY <2>1, <3>1, <3>2, RestInv DEF DiscoveryInv, DiscoveryTypeOK
    <2>3. CASE r # None
      BY <1>0, <1>a, <1>3, <2>1, <2>3, AskedInv DEF ChooseRules, Choose
    <2> QED
      BY <2>2, <2>3
  <1>4. CASE RefreshDiscovery
    BY <1>0, <1>a, <1>4, AskedInv DEF RefreshDiscovery, Revise
  <1>5. CASE LoadMoreRows
    BY <1>5, MoreRowsInv
  <1>6. CASE StartMutation
    <2>1. ASSUME NEW p \in Projects, CreateProject(p) PROVE DiscoveryInv'
      BY <2>1, MutateInv DEF CreateProject
    <2>2. ASSUME NEW r \in Rules, Mutate("save", r) PROVE DiscoveryInv'
      BY <2>2, MutateInv
    <2>3. CASE savedId # None /\ Mutate("delete", savedId)
      <3>1. PICK r \in Rules : r = savedId
        BY <1>0, <2>3
      <3> QED
        BY <2>3, <3>1, MutateInv
    <2>4. ASSUME NEW p \in TargetProjects, Mutate("member", p) PROVE DiscoveryInv'
      <3>1. p \in Projects \cup Rules
        BY <1>0 DEF TargetProjects
      <3> QED
        BY <2>4, <3>1, MutateInv
    <2> QED
      BY <1>6, <2>1, <2>2, <2>3, <2>4 DEF StartMutation
  <1> QED
    BY <1>1, <1>2, <1>3, <1>4, <1>5, <1>6 DEF DiscoveryUser

LEMMA DiscoveryNextInv == DiscoveryInv /\ [DiscoveryNext]_discoveryVars => DiscoveryInv'
  <1> SUFFICES ASSUME DiscoveryInv, [DiscoveryNext]_discoveryVars PROVE DiscoveryInv'
    OBVIOUS
  <1>1. CASE UNCHANGED discoveryVars
    <2>1. DiscoveryTypeOK'
      BY <1>1 DEF DiscoveryInv, DiscoveryTypeOK, discoveryVars, choice, rowVars
    <2>2. QueriesFit' /\ PagesFit'
      BY <1>1 DEF DiscoveryInv, QueriesFit, PagesFit, FirstAwaited, Asked, discoveryVars, choice, rowVars
    <2>3. ListsFit' /\ MutationFits'
      BY <1>1 DEF DiscoveryInv, ListsFit, MutationFits, discoveryVars
    <2> QED
      BY <2>1, <2>2, <2>3 DEF DiscoveryInv
  <1> QED
    BY <1>1, DiscoveryUserInv, MutationEndInv, ListsEndInv, RowsEndInv DEF DiscoveryNext

LEMMA DiscoveryKept ==
  DiscoveryInv => DiscoveryTypeOK /\ LoadingIsQuery /\ RowsOfQuery /\ ListsCurrent
  <1> SUFFICES ASSUME DiscoveryInv PROVE LoadingIsQuery /\ RowsOfQuery /\ ListsCurrent
    BY DEF DiscoveryInv
  <1>1. LoadingIsQuery
    BY DEF DiscoveryInv, DiscoveryTypeOK, QueriesFit, LoadingIsQuery
  <1>2. ASSUME "rows" \notin missed
        PROVE  /\ \A k \in DOMAIN pages : pages[k] = [of |-> Asked(tab, projectId), page |-> k - 1]
               /\ ~loading => hasMore = (pageOffset < LastPage(Asked(tab, projectId)))
    <2>1. DOMAIN pages = 1..Len(pages) /\ hasMore \in BOOLEAN
      BY DEF DiscoveryInv, DiscoveryTypeOK
    <2>2. ~loading => (hasMore <=> pageOffset < LastPage(Asked(tab, projectId)))
      BY <1>2, <1>1 DEF DiscoveryInv, PagesFit, FirstAwaited, LoadingIsQuery
    <2>3. ~loading => hasMore = (pageOffset < LastPage(Asked(tab, projectId)))
      BY <2>1, <2>2
    <2> QED
      BY <1>2, <2>1, <2>3 DEF DiscoveryInv, PagesFit
  <1>3. ListsCurrent
    BY DEF DiscoveryInv, ListsFit, ListsCurrent
  <1> QED
    BY <1>1, <1>2, <1>3 DEF RowsOfQuery

\* Rows, flag and lists of the discovery screen are those of the newest query and load,
\* for every number of pages and however the calls overtake one another.
THEOREM DiscoveryInvariant == DiscoverySpec => []DiscoveryInv
  BY DiscoveryInitInv, DiscoveryNextInv, PTL DEF DiscoverySpec

-----------------------------------------------------------------------------
(***************************************************************************)
(* The flags of the MIDI list.  Of each kind of call that has a flag, one  *)
(* is under way at most, and its answer takes the flag away.               *)
(***************************************************************************)

Trashes == {"trash", "trashSearch"}

\* Of each kind that a flag is about, one call is under way at most.
OneEach ==
  \A j, k \in 1..Len(midiCalls) : j # k =>
    /\ ~(midiCalls[j].kind = "more" /\ midiCalls[k].kind = "more")
    /\ ~(midiCalls[j].kind = "previous" /\ midiCalls[k].kind = "previous")
    /\ ~(midiCalls[j].kind \in Trashes /\ midiCalls[k].kind \in Trashes)

FlagsTell ==
  /\ loadingMore <=> \E k \in 1..Len(midiCalls) : midiCalls[k].kind = "more"
  /\ loadingPrevious <=> \E k \in 1..Len(midiCalls) : midiCalls[k].kind = "previous"
  /\ trashing # "no" <=> \E k \in 1..Len(midiCalls) : midiCalls[k].kind \in Trashes

\* What the calls bring does not matter to the flags.
MidiFlagsInv ==
  /\ \E S : midiCalls \in Seq(S)
  /\ OneEach
  /\ FlagsTell

LEMMA MidiInitFlags == MidiInit => MidiFlagsInv
  <1> SUFFICES ASSUME MidiInit PROVE MidiFlagsInv
    OBVIOUS
  <1>1. PICK c : c = MidiCallOf("search", None, 0)
    OBVIOUS
  <1>2. /\ midiCalls \in Seq({c}) /\ Len(midiCalls) = 1 /\ midiCalls[1].kind = "search"
        /\ ~loadingMore /\ ~loadingPrevious /\ trashing = "no"
    BY <1>1 DEF MidiInit, MidiCallOf
  <1>3. \A k \in 1..Len(midiCalls) : midiCalls[k].kind = "search"
    BY <1>2
  <1> QED
    BY <1>2, <1>3 DEF MidiFlagsInv, OneEach, FlagsTell, Trashes

\* A call is sent, and its flag goes on.
LEMMA MidiSentFlags ==
  ASSUME MidiFlagsInv, NEW kind, NEW f, NEW at, AskMidi(kind, f, at),
         kind = "more" => ~loadingMore, kind = "previous" => ~loadingPrevious,
         kind \in Trashes => trashing = "no",
         loadingMore' <=> loadingMore \/ kind = "more",
         loadingPrevious' <=> loadingPrevious \/ kind = "previous",
         trashing' # "no" <=> trashing # "no" \/ kind \in Trashes
  PROVE  MidiFlagsInv'
  <1>1. PICK S0 : midiCalls \in Seq(S0)
    BY DEF MidiFlagsInv
  <1>2. PICK c : c = MidiCallOf(kind, f, at)
    OBVIOUS
  <1>3. PICK S : S = S0 \cup {c}
    OBVIOUS
  <1>4. c.kind = kind /\ c \in S /\ midiCalls \in Seq(S)
    BY <1>1, <1>2, <1>3 DEF MidiCallOf
  <1>5. PICK n \in Nat : n = Len(midiCalls)
    BY <1>1
  <1>6. /\ midiCalls' \in Seq(S) /\ Len(midiCalls') = n + 1
        /\ \A k \in 1..n : midiCalls'[k] = midiCalls[k]
        /\ midiCalls'[n + 1].kind = kind
    BY <1>2, <1>4, <1>5 DEF AskMidi
  <1>7. \A k \in 1..n + 1 : k \in 1..n \/ k = n + 1
    BY <1>5
  <1>8. \A k \in 1..n : k \in 1..n + 1 /\ k # n + 1
    BY <1>5
  <1>9. n + 1 \in 1..n + 1
    BY <1>5
  <1>10. FlagsTell'
    <2>1. \A K : (\E k \in 1..n + 1 : midiCalls'[k].kind \in K)
                   <=> (\E k \in 1..n : midiCalls[k].kind \in K) \/ kind \in K
      BY <1>6, <1>7, <1>8, <1>9
    <2>2. /\ loadingMore <=> \E k \in 1..n : midiCalls[k].kind \in {"more"}
          /\ loadingPrevious <=> \E k \in 1..n : midiCalls[k].kind \in {"previous"}
          /\ trashing # "no" <=> \E k \in 1..n : midiCalls[k].kind \in Trashes
      BY <1>5 DEF MidiFlagsInv, FlagsTell
    <2>3. /\ loadingMore' <=> \E k \in 1..n + 1 : midiCalls'[k].kind \in {"more"}
          /\ loadingPrevious' <=> \E k \in 1..n + 1 : midiCalls'[k].kind \in {"previous"}
          /\ trashing' # "no" <=> \E k \in 1..n + 1 : midiCalls'[k].kind \in Trashes
      BY <2>1, <2>2
    <2> QED
      BY <1>6, <2>3 DEF FlagsTell
  <1>11. OneEach'
    <2>1. \A j \in 1..n : /\ kind = "more" => midiCalls[j].kind # "more"
                          /\ kind = "previous" => midiCalls[j].kind # "previous"
                          /\ kind \in Trashes => midiCalls[j].kind \notin Trashes
      BY <1>5 DEF MidiFlagsInv, FlagsTell
    <2> SUFFICES ASSUME NEW j \in 1..n + 1, NEW k \in 1..n + 1, j # k
                 PROVE  /\ ~(midiCalls'[j].kind = "more" /\ midiCalls'[k].kind = "more")
                        /\ ~(midiCalls'[j].kind = "previous" /\ midiCalls'[k].kind = "previous")
                        /\ ~(midiCalls'[j].kind \in Trashes /\ midiCalls'[k].kind \in Trashes)
      BY <1>6 DEF OneEach
    <2>2. CASE j \in 1..n /\ k \in 1..n
      BY <1>5, <1>6, <2>2 DEF MidiFlagsInv, OneEach
    <2>3. CASE j = n + 1 /\ k \in 1..n
      BY <1>6, <2>1, <2>3
    <2>4. CASE k = n + 1 /\ j \in 1..n
      BY <1>6, <2>1, <2>4
    <2> QED
      BY <1>7, <2>2, <2>3, <2>4
  <1> QED
    BY <1>6, <1>10, <1>11 DEF MidiFlagsInv

\* The first call is answered, and its flag goes off unless a call follows it.
LEMMA MidiAnsweredFlags ==
  ASSUME MidiFlagsInv, midiCalls # << >>, NEW c, c = Head(midiCalls), NEW d,
         d.kind \notin {"more", "previous"}, d.kind \in Trashes => c.kind \in Trashes,
         NEW more \in BOOLEAN, midiCalls' = IF more THEN Append(Tail(midiCalls), d) ELSE Tail(midiCalls),
         loadingMore' <=> loadingMore /\ c.kind # "more",
         loadingPrevious' <=> loadingPrevious /\ c.kind # "previous",
         trashing' # "no" <=> trashing # "no" /\ (c.kind \in Trashes => more /\ d.kind \in Trashes)
  PROVE  MidiFlagsInv'
  <1>1. PICK S0 : midiCalls \in Seq(S0)
    BY DEF MidiFlagsInv
  <1>2. PICK S : S = S0 \cup {d}
    OBVIOUS
  <1>3. d \in S /\ midiCalls \in Seq(S)
    BY <1>1, <1>2
  <1>4. PICK n \in Nat : n = Len(midiCalls)
    BY <1>1
  <1>5. /\ n > 0 /\ Tail(midiCalls) \in Seq(S) /\ Len(Tail(midiCalls)) = n - 1
        /\ \A i \in 1..n - 1 : Tail(midiCalls)[i] = midiCalls[i + 1]
        /\ Append(Tail(midiCalls), d) \in Seq(S) /\ Len(Append(Tail(midiCalls), d)) = n
        /\ \A i \in 1..n - 1 : Append(Tail(midiCalls), d)[i] = midiCalls[i + 1]
        /\ Append(Tail(midiCalls), d)[n] = d
        /\ c = midiCalls[1]
    BY <1>3, <1>4, QueueAdvances
  <1>6. PICK p \in Nat : p = IF more THEN n ELSE n - 1
    BY <1>5
  <1>7. /\ midiCalls' \in Seq(S) /\ Len(midiCalls') = p
        /\ \A i \in 1..n - 1 : midiCalls'[i] = midiCalls[i + 1]
        /\ more => midiCalls'[n] = d
    BY <1>5, <1>6
  <1>8. \A i \in 1..n - 1 : i \in 1..p /\ i + 1 \in 2..n
    BY <1>5, <1>6
  <1>9. \A i \in 1..p : i \in 1..n - 1 \/ (more /\ i = n)
    BY <1>6
  <1>10. \A i \in 2..n : i \in 1..n /\ i # 1 /\ i - 1 \in 1..n - 1 /\ (i - 1) + 1 = i
    BY <1>5
  <1>11. 1 \in 1..n /\ (more => n \in 1..p)
    BY <1>5, <1>6
  <1>12. \A k \in 1..n : k = 1 \/ k \in 2..n
    OBVIOUS
  <1>13. FlagsTell'
    <2>1. ASSUME NEW K
          PROVE  (\E k \in 1..p : midiCalls'[k].kind \in K)
                   <=> (\E k \in 2..n : midiCalls[k].kind \in K) \/ (more /\ d.kind \in K)
      <3>1. ASSUME NEW k \in 1..p, midiCalls'[k].kind \in K
            PROVE  (\E i \in 2..n : midiCalls[i].kind \in K) \/ (more /\ d.kind \in K)
        BY <1>7, <1>8, <1>9, <3>1
      <3>2. ASSUME NEW i \in 2..n, midiCalls[i].kind \in K PROVE \E k \in 1..p : midiCalls'[k].kind \in K
        <4>1. i - 1 \in 1..n - 1 /\ midiCalls'[i - 1] = midiCalls[i]
          BY <1>7, <1>10
        <4> QED
          BY <1>8, <3>2, <4>1
      <3>3. more /\ d.kind \in K => \E k \in 1..p : midiCalls'[k].kind \in K
        BY <1>7, <1>11
      <3> QED
        BY <3>1, <3>2, <3>3
    <2>2. /\ loadingMore <=> \E k \in 1..n : midiCalls[k].kind = "more"
          /\ loadingPrevious <=> \E k \in 1..n : midiCalls[k].kind = "previous"
          /\ trashing # "no" <=> \E k \in 1..n : midiCalls[k].kind \in Trashes
      BY <1>4 DEF MidiFlagsInv, FlagsTell
    <2>3. \A k \in 2..n :
            /\ c.kind = "more" => midiCalls[k].kind # "more"
            /\ c.kind = "previous" => midiCalls[k].kind # "previous"
            /\ c.kind \in Trashes => midiCalls[k].kind \notin Trashes
      BY <1>4, <1>5, <1>10, <1>11 DEF MidiFlagsInv, OneEach
    <2>4. /\ loadingMore /\ c.kind # "more" <=> \E k \in 2..n : midiCalls[k].kind \in {"more"}
          /\ loadingPrevious /\ c.kind # "previous" <=> \E k \in 2..n : midiCalls[k].kind \in {"previous"}
          /\ trashing # "no" /\ c.kind \notin Trashes <=> \E k \in 2..n : midiCalls[k].kind \in Trashes
      BY <1>5, <1>10, <1>11, <1>12, <2>2, <2>3
    <2>5. c.kind \in Trashes => trashing # "no"
      BY <1>5, <1>11, <2>2
    <2>6. /\ loadingMore' <=> \E k \in 1..p : midiCalls'[k].kind \in {"more"}
          /\ loadingPrevious' <=> \E k \in 1..p : midiCalls'[k].kind \in {"previous"}
      BY <2>1, <2>4
    <2>7. trashing' # "no" <=> \E k \in 1..p : midiCalls'[k].kind \in Trashes
      BY <2>1, <2>4, <2>5
    <2> QED
      BY <1>7, <2>6, <2>7 DEF FlagsTell
  <1>14. OneEach'
    <2> SUFFICES ASSUME NEW j \in 1..p, NEW k \in 1..p, j # k
                 PROVE  /\ ~(midiCalls'[j].kind = "more" /\ midiCalls'[k].kind = "more")
                        /\ ~(midiCalls'[j].kind = "previous" /\ midiCalls'[k].kind = "previous")
                        /\ ~(midiCalls'[j].kind \in Trashes /\ midiCalls'[k].kind \in Trashes)
      BY <1>7 DEF OneEach
    <2>1. CASE j \in 1..n - 1 /\ k \in 1..n - 1
      <3>1. j + 1 \in 1..n /\ k + 1 \in 1..n /\ j + 1 # k + 1
        BY <2>1
      <3> QED
        BY <1>4, <1>7, <2>1, <3>1 DEF MidiFlagsInv, OneEach
    <2>2. ASSUME NEW i \in 1..n - 1, more, d.kind \in Trashes PROVE midiCalls'[i].kind \notin Trashes
      <3>1. c.kind \in Trashes /\ i + 1 \in 1..n /\ i + 1 # 1 /\ midiCalls'[i] = midiCalls[i + 1]
        <4>1. c.kind \in Trashes
          BY <2>2
        <4>2. i + 1 \in 1..n /\ i + 1 # 1
          BY <1>5
        <4>3. midiCalls'[i] = midiCalls[i + 1]
          BY <1>7
        <4> QED
          BY <4>1, <4>2, <4>3
      <3> QED
        BY <1>4, <1>5, <1>11, <3>1 DEF MidiFlagsInv, OneEach
    <2>3. CASE more /\ j = n /\ k \in 1..n - 1
      BY <1>7, <2>2, <2>3
    <2>4. CASE more /\ k = n /\ j \in 1..n - 1
      BY <1>7, <2>2, <2>4
    <2> QED
      BY <1>9, <2>1, <2>3, <2>4
  <1> QED
    BY <1>7, <1>13, <1>14 DEF MidiFlagsInv

\* What is done on the screen but sends nothing.
LEMMA MidiRestFlags ==
  ASSUME MidiFlagsInv, UNCHANGED <<midiCalls, loadingMore, loadingPrevious, trashing>>
  PROVE  MidiFlagsInv'
  BY DEF MidiFlagsInv, OneEach, FlagsTell

LEMMA MidiUserFlags ==
  ASSUME MidiFlagsInv, MidiUser
  PROVE  MidiFlagsInv'
  <1>1. ASSUME NEW f \in MidiFilters, SearchMidis(f) PROVE MidiFlagsInv'
    BY <1>1, MidiSentFlags DEF SearchMidis, Trashes
  <1>2. ASSUME NEW f \in MidiFilters, ChooseMidiDirectory(f) PROVE MidiFlagsInv'
    <2>1. PICK g : g = midiFilter'
      OBVIOUS
    <2>2. AskMidi("search", g, 0) /\ UNCHANGED <<loadingMore, loadingPrevious, trashing>>
      BY <1>2, <2>1 DEF ChooseMidiDirectory, AskMidi, MidiCallOf
    <2> QED
      BY <2>2, MidiSentFlags DEF Trashes
  <1>3. CASE ShowMidis
    BY <1>3, MidiSentFlags DEF ShowMidis, Trashes
  <1>4. CASE LoadMoreMidi
    BY <1>4, MidiSentFlags DEF LoadMoreMidi, Trashes
  <1>5. CASE LoadPreviousMidi
    BY <1>5, MidiSentFlags DEF LoadPreviousMidi, PreviousOffered, Trashes
  <1>6. ASSUME NEW id \in Midis, ClickMidiFile(id) PROVE MidiFlagsInv'
    <2>1. PICK g : g = midiFilter'
      OBVIOUS
    <2>2. AskMidi("row", g, id) /\ UNCHANGED <<loadingMore, loadingPrevious, trashing>>
      BY <1>6, <2>1 DEF ClickMidiFile, AskMidi, MidiCallOf
    <2> QED
      BY <2>2, MidiSentFlags DEF Trashes
  <1>7. ASSUME NEW id \in Midis, SelectMidi(id) \/ RequestTrashMidi(id) PROVE MidiFlagsInv'
    BY <1>7, MidiRestFlags DEF SelectMidi, RequestTrashMidi
  <1>8. CASE CancelTrashMidi
    BY <1>8, MidiRestFlags DEF CancelTrashMidi
  <1>9. CASE ConfirmTrashMidi
    <2>1. UNCHANGED <<loadingMore, loadingPrevious>> /\ trashing = "no"
      BY <1>9 DEF ConfirmTrashMidi
    <2>2. CASE UNCHANGED <<midiCalls, trashing>>
      BY <2>1, <2>2, MidiRestFlags
    <2>3. CASE AskMidi("trash", midiFilter, doomed) /\ trashing' \in {"selected", "other"}
      BY <2>1, <2>3, MidiSentFlags DEF Trashes
    <2> QED
      BY <1>9, <2>2, <2>3 DEF ConfirmTrashMidi
  <1> QED
    BY <1>1, <1>2, <1>3, <1>4, <1>5, <1>6, <1>7, <1>8, <1>9 DEF MidiUser

\* The head leaves, whatever comes with it.
LEMMA MidiLeftFlags ==
  ASSUME MidiFlagsInv, midiCalls # << >>, midiCalls' = Tail(midiCalls),
         loadingMore' <=> loadingMore /\ Head(midiCalls).kind # "more",
         loadingPrevious' <=> loadingPrevious /\ Head(midiCalls).kind # "previous",
         trashing' # "no" <=> trashing # "no" /\ Head(midiCalls).kind \notin Trashes
  PROVE  MidiFlagsInv'
  <1>1. PICK c : c = Head(midiCalls)
    OBVIOUS
  <1>2. PICK d : d = [kind |-> "search"]
    OBVIOUS
  <1>3. d.kind \notin {"more", "previous"} /\ d.kind \notin Trashes
    BY <1>2 DEF Trashes
  <1>4. midiCalls' = IF FALSE THEN Append(Tail(midiCalls), d) ELSE Tail(midiCalls)
    OBVIOUS
  <1> QED
    BY <1>1, <1>3, <1>4, MidiAnsweredFlags

LEMMA MidiReturnFlags ==
  ASSUME MidiFlagsInv, MidiReturn \/ MidiCallFails
  PROVE  MidiFlagsInv'
  <1>1. CASE SearchMidiReturns
    <2>1. Head(midiCalls).kind = "search" /\ midiCalls # << >> /\ midiCalls' = Tail(midiCalls)
          /\ UNCHANGED <<loadingMore, loadingPrevious, trashing>>
      BY <1>1 DEF SearchMidiReturns, Answered, Next1
    <2> QED
      BY <2>1, MidiLeftFlags DEF Trashes
  <1>2. CASE MoreMidiReturns
    <2>1. Head(midiCalls).kind = "more" /\ midiCalls # << >> /\ midiCalls' = Tail(midiCalls)
          /\ ~loadingMore' /\ UNCHANGED <<loadingPrevious, trashing>>
      BY <1>2 DEF MoreMidiReturns, Answered, Next1
    <2> QED
      BY <2>1, MidiLeftFlags DEF Trashes
  <1>3. CASE PreviousMidiReturns
    <2>1. Head(midiCalls).kind = "previous" /\ midiCalls # << >> /\ midiCalls' = Tail(midiCalls)
          /\ ~loadingPrevious' /\ UNCHANGED <<loadingMore, trashing>>
      BY <1>3 DEF PreviousMidiReturns, Answered, Next1
    <2> QED
      BY <2>1, MidiLeftFlags DEF Trashes
  <1>4. CASE RowReturns
    <2>1. Head(midiCalls).kind = "row" /\ midiCalls # << >>
          /\ UNCHANGED <<loadingMore, loadingPrevious, trashing>>
      BY <1>4 DEF RowReturns, Answered, Next1
    <2>2. CASE midiCalls' = Tail(midiCalls)
      BY <2>1, <2>2, MidiLeftFlags DEF Trashes
    <2>3. ASSUME NEW kind \in {"around", "rowPage"}, NEW f, NEW at,
                 midiCalls' = Append(Tail(midiCalls), MidiCallOf(kind, f, at))
          PROVE  MidiFlagsInv'
      <3>1. PICK c, d : c = Head(midiCalls) /\ d = MidiCallOf(kind, f, at)
        OBVIOUS
      <3>2. c.kind = "row" /\ d.kind \notin {"more", "previous"} /\ d.kind \notin Trashes
        BY <2>1, <3>1 DEF MidiCallOf, Trashes
      <3>3. midiCalls' = IF TRUE THEN Append(Tail(midiCalls), d) ELSE Tail(midiCalls)
        BY <2>3, <3>1
      <3> QED
        BY <2>1, <3>1, <3>2, <3>3, MidiAnsweredFlags DEF Trashes
    <2>4. midiCalls' = Tail(midiCalls)
            \/ \E kind \in {"around", "rowPage"} :
                 midiCalls' = Append(Tail(midiCalls), MidiCallOf(kind, Next1.filter, Next1.at))
      BY <1>4 DEF RowReturns
    <2> QED
      BY <2>2, <2>3, <2>4
  <1>5. CASE RowPageReturns
    <2>1. Head(midiCalls).kind \in {"around", "rowPage"} /\ midiCalls # << >> /\ midiCalls' = Tail(midiCalls)
          /\ UNCHANGED <<loadingMore, loadingPrevious, trashing>>
      BY <1>5 DEF RowPageReturns, Answered, Next1
    <2> QED
      BY <2>1, MidiLeftFlags DEF Trashes
  <1>6. CASE TrashMidiReturns
    <2>1. /\ Head(midiCalls).kind = "trash" /\ midiCalls # << >>
          /\ midiCalls' = Append(Tail(midiCalls), MidiCallOf("trashSearch", Next1.filter, Next1.at))
          /\ UNCHANGED <<loadingMore, loadingPrevious, trashing>>
      BY <1>6 DEF TrashMidiReturns, Answered, Next1
    <2>2. PICK c, d : c = Head(midiCalls) /\ d = MidiCallOf("trashSearch", Next1.filter, Next1.at)
      OBVIOUS
    <2>3. c.kind = "trash" /\ d.kind = "trashSearch"
      BY <2>1, <2>2 DEF MidiCallOf
    <2>4. midiCalls' = IF TRUE THEN Append(Tail(midiCalls), d) ELSE Tail(midiCalls)
      BY <2>1, <2>2
    <2> QED
      BY <2>1, <2>2, <2>3, <2>4, MidiAnsweredFlags DEF Trashes
  <1>7. CASE TrashSearchReturns
    <2>1. Head(midiCalls).kind = "trashSearch" /\ midiCalls # << >> /\ midiCalls' = Tail(midiCalls)
          /\ UNCHANGED <<loadingMore, loadingPrevious>> /\ trashing' = "no"
      BY <1>7 DEF TrashSearchReturns, Answered, Next1, EndTrash
    <2> QED
      BY <2>1, MidiLeftFlags DEF Trashes
  <1>8. CASE MidiCallFails
    <2>1. /\ midiCalls # << >> /\ midiCalls' = Tail(midiCalls)
          /\ loadingMore' = IF Head(midiCalls).kind = "more" THEN FALSE ELSE loadingMore
          /\ loadingPrevious' = IF Head(midiCalls).kind = "previous" THEN FALSE ELSE loadingPrevious
          /\ trashing' = IF Head(midiCalls).kind \in Trashes THEN "no" ELSE trashing
      BY <1>8 DEF MidiCallFails, Next1, EndTrash, Trashes
    <2> QED
      BY <2>1, MidiLeftFlags
  <1> QED
    BY <1>1, <1>2, <1>3, <1>4, <1>5, <1>6, <1>7, <1>8 DEF MidiReturn

LEMMA MidiNextFlags == MidiFlagsInv /\ [MidiNext]_midiVars => MidiFlagsInv'
  <1> SUFFICES ASSUME MidiFlagsInv, [MidiNext]_midiVars PROVE MidiFlagsInv'
    OBVIOUS
  <1>1. CASE UNCHANGED midiVars
    BY <1>1, MidiRestFlags DEF midiVars
  <1> QED
    BY <1>1, MidiUserFlags, MidiReturnFlags DEF MidiNext

LEMMA MidiFlagsKept == MidiFlagsInv => MidiFlags
  <1> SUFFICES ASSUME MidiFlagsInv PROVE MidiFlags
    OBVIOUS
  <1>1. DOMAIN midiCalls = 1..Len(midiCalls)
    BY DEF MidiFlagsInv
  <1> QED
    BY <1>1 DEF MidiFlagsInv, FlagsTell, MidiFlags, Trashes

-----------------------------------------------------------------------------
(***************************************************************************)
(* The sample list. Two rows are ordered by the sort key, then by their    *)
(* place in the list as it came; the row an arrow goes to is the extreme   *)
(* one of those on its side, and it exists as long as the rows are finitely*)
(* many.                                                                   *)
(***************************************************************************)

ListInv == ListTypeOK /\ ArrowIsNeighbour /\ SelectionHasRow

LEMMA KeyIsNumber ==
  ASSUME ListTypeOK, NEW id \in RowIds
  PROVE  SortKey(id) \in Nat
  BY ListAssumption DEF SortKey, ListTypeOK

\* The rows come in one order: none before itself, any two one before the other.
LEMMA BeforeIsOrder ==
  ASSUME ListTypeOK, NEW a \in RowIds, NEW b \in RowIds, NEW c \in RowIds
  PROVE  /\ ~Before(a, a)
         /\ a # b => Before(a, b) \/ Before(b, a)
         /\ ~(Before(a, b) /\ Before(b, a))
         /\ Before(a, b) /\ Before(b, c) => Before(a, c)
  <1> DEFINE up == ascending \/ preserveOrder
  <1>1. /\ SortKey(a) \in Nat /\ SortKey(b) \in Nat /\ SortKey(c) \in Nat
        /\ a \in Nat /\ b \in Nat /\ c \in Nat
    BY KeyIsNumber, ListAssumption
  <1>2. CASE up
    <2>1. \A x, y : Before(x, y) <=> IF SortKey(x) = SortKey(y) THEN x < y ELSE SortKey(x) < SortKey(y)
      BY <1>2, Zenon DEF Before
    <2> QED
      BY <1>1, <2>1
  <1>3. CASE ~up
    <2>1. ASSUME NEW x, NEW y
          PROVE  Before(x, y) <=> IF SortKey(x) = SortKey(y) THEN x < y ELSE ~(SortKey(x) < SortKey(y))
      <3>1. ((SortKey(x) < SortKey(y)) = up) <=> ~(SortKey(x) < SortKey(y))
        BY <1>3
      <3> QED
        BY <3>1, Zenon DEF Before
    <2> QED
      BY <1>1, <2>1
  <1> QED
    BY <1>2, <1>3

LEMMA VisibleRows ==
  ASSUME ListTypeOK
  PROVE  Visible \subseteq RowIds
  BY DEF Visible, ListTypeOK

\* Finitely many rows that are in an order have a first one.
LEMMA ExtremeRow ==
  ASSUME NEW rows, IsFiniteSet(rows), rows # {}, NEW E,
         \A a, b \in rows : a # b => <<a, b>> \in E \/ <<b, a>> \in E,
         \A a, b, c \in rows : <<a, b>> \in E /\ <<b, c>> \in E => <<a, c>> \in E,
         \A a \in rows : <<a, a>> \notin E
  PROVE  \E id \in rows : \A other \in rows \ {id} : <<id, other>> \in E
  <1> DEFINE Ahead(id) == {other \in rows : <<other, id>> \in E}
  <1>1. \A id \in rows : IsFiniteSet(Ahead(id)) /\ Cardinality(Ahead(id)) \in Nat
    BY FS_Subset, FS_CardinalityType
  <1>2. \A id, other \in rows : <<other, id>> \in E =>
          Ahead(other) \in SUBSET Ahead(id) /\ other \in Ahead(id) /\ other \notin Ahead(other)
    OBVIOUS
  <1> HIDE DEF Ahead
  <1> DEFINE Counts == {Cardinality(Ahead(id)) : id \in rows}
  <1>3. Counts \subseteq Nat /\ Counts # {}
    BY <1>1
  <1>4. PICK m \in Counts : \A n \in Counts : m <= n
    BY <1>3, SmallestNumber
  <1>5. PICK id \in rows : Cardinality(Ahead(id)) = m
    BY <1>4
  <1>6. ASSUME NEW other \in rows PROVE Cardinality(Ahead(id)) <= Cardinality(Ahead(other))
    BY <1>4, <1>5
  <1> HIDE DEF Counts
  <1>7. ASSUME NEW other \in rows, <<other, id>> \in E PROVE FALSE
    <2>1. Ahead(other) \in SUBSET Ahead(id) /\ other \in Ahead(id) /\ other \notin Ahead(other)
      BY <1>2, <1>7
    <2>2. /\ Cardinality(Ahead(other)) <= Cardinality(Ahead(id))
          /\ Cardinality(Ahead(id)) = Cardinality(Ahead(other)) => Ahead(id) = Ahead(other)
      BY <1>1, <2>1, FS_Subset
    <2>3. Cardinality(Ahead(id)) <= Cardinality(Ahead(other))
      BY <1>6
    <2>4. Cardinality(Ahead(other)) \in Nat /\ Cardinality(Ahead(id)) \in Nat
      BY <1>1
    <2> QED
      BY <2>1, <2>2, <2>3, <2>4
  <1> QED
    BY <1>7

LEMMA TopmostRow ==
  ASSUME ListTypeOK, NEW rows, rows \subseteq RowIds, rows # {}
  PROVE  Topmost(rows) \in rows /\ \A other \in rows \ {Topmost(rows)} : Before(Topmost(rows), other)
  <1> DEFINE E == {e \in RowIds \X RowIds : Before(e[1], e[2])}
  <1>1. \A a, b \in RowIds : <<a, b>> \in E <=> Before(a, b)
    OBVIOUS
  <1> HIDE DEF E
  <1>2. IsFiniteSet(rows)
    BY FS_Subset, ListAssumption
  <1>3. \A a, b \in rows : a # b => <<a, b>> \in E \/ <<b, a>> \in E
    BY <1>1, BeforeIsOrder
  <1>4. \A a, b, c \in rows : <<a, b>> \in E /\ <<b, c>> \in E => <<a, c>> \in E
    BY <1>1, BeforeIsOrder
  <1>5. \A a \in rows : <<a, a>> \notin E
    BY <1>1, BeforeIsOrder
  <1>6. \E id \in rows : \A other \in rows \ {id} : <<id, other>> \in E
    BY <1>2, <1>3, <1>4, <1>5, ExtremeRow, Zenon
  <1>7. \E id \in rows : \A other \in rows \ {id} : Before(id, other)
    BY <1>1, <1>6
  <1> QED
    BY <1>7, Zenon DEF Topmost

LEMMA LowestRow ==
  ASSUME ListTypeOK, NEW rows, rows \subseteq RowIds, rows # {}
  PROVE  Lowest(rows) \in rows /\ \A other \in rows \ {Lowest(rows)} : Before(other, Lowest(rows))
  <1> DEFINE E == {e \in RowIds \X RowIds : Before(e[2], e[1])}
  <1>1. \A a, b \in RowIds : <<a, b>> \in E <=> Before(b, a)
    OBVIOUS
  <1> HIDE DEF E
  <1>2. IsFiniteSet(rows)
    BY FS_Subset, ListAssumption
  <1>3. \A a, b \in rows : a # b => <<a, b>> \in E \/ <<b, a>> \in E
    BY <1>1, BeforeIsOrder
  <1>4. \A a, b, c \in rows : <<a, b>> \in E /\ <<b, c>> \in E => <<a, c>> \in E
    BY <1>1, BeforeIsOrder
  <1>5. \A a \in rows : <<a, a>> \notin E
    BY <1>1, BeforeIsOrder
  <1>6. \E id \in rows : \A other \in rows \ {id} : <<id, other>> \in E
    BY <1>2, <1>3, <1>4, <1>5, ExtremeRow, Zenon
  <1>7. \E id \in rows : \A other \in rows \ {id} : Before(other, id)
    BY <1>1, <1>6
  <1> QED
    BY <1>7, Zenon DEF Lowest

\* The list is as it was, and an armed key too.
LEMMA ArrowKept ==
  ASSUME ListInv, pendingSelect'.armed => UNCHANGED <<pendingSelect, selectedRow>>,
         Visible' = Visible, \A a, b : Before(a, b)' <=> Before(a, b)
  PROVE  ArrowIsNeighbour'
  BY DEF ListInv, ArrowIsNeighbour

LEMMA SameList ==
  ASSUME UNCHANGED listedVars
  PROVE  Visible' = Visible /\ \A a, b : Before(a, b)' <=> Before(a, b)
  BY DEF listedVars, sortVars, Visible, Before, SortKey

LEMMA IdleTimer ==
  ASSUME ListTypeOK
  PROVE  Idle \in [row : RowIds \cup {None}, armed : BOOLEAN] /\ ~Idle.armed
  BY DEF Idle, ListTypeOK

\* What changes the rows clears the timer, or leaves the list as it was.
LEMMA RowsChangeInv ==
  ASSUME ListInv, NEW rows \in SUBSET RowIds, RowsChange(rows)
  PROVE  ListInv'
  BY IdleTimer DEF RowsChange, ClearTimer, sortVars, chosenVars, randomVars, ListInv, ListTypeOK,
                   ArrowIsNeighbour, SelectionHasRow

LEMMA ShowGivenOrderInv ==
  ASSUME ListInv, ShowGivenOrder
  PROVE  ListInv'
  <1>1. preserveOrder' \in BOOLEAN
    BY Zenon DEF ShowGivenOrder
  <1> QED
    BY <1>1, IdleTimer DEF ShowGivenOrder, ClearTimer, sortVars, chosenVars, randomVars, ListInv,
                           ListTypeOK, ArrowIsNeighbour, SelectionHasRow

LEMMA FilterQualityInv ==
  ASSUME ListInv, FilterQuality
  PROVE  ListInv'
  <1>1. qualityOnly' \in BOOLEAN
    BY Zenon DEF FilterQuality
  <1>2. ListTypeOK' /\ SelectionHasRow'
    BY <1>1, IdleTimer DEF FilterQuality, ClearTimer, sortVars, chosenVars, randomVars, ListInv,
                           ListTypeOK, SelectionHasRow
  <1>3. CASE preserveOrder
    <2>1. Visible' = Visible
      BY <1>3 DEF FilterQuality, Visible
    <2>2. \A a, b : Before(a, b)' <=> Before(a, b)
      BY DEF FilterQuality, sortVars, Before, SortKey
    <2> QED
      BY <1>2, <1>3, <2>1, <2>2, ArrowKept DEF FilterQuality, chosenVars, ListInv
  <1>4. CASE ~preserveOrder
    BY <1>2, <1>4, IdleTimer DEF FilterQuality, ClearTimer, ListInv, ArrowIsNeighbour
  <1> QED
    BY <1>3, <1>4

LEMMA SortByInv ==
  ASSUME ListInv, NEW field \in {"id", "bpm"}, SortBy(field)
  PROVE  ListInv'
  <1>1. ascending' \in BOOLEAN
    BY Zenon DEF SortBy
  <1>2. ListTypeOK' /\ SelectionHasRow'
    BY <1>1, IdleTimer DEF SortBy, ClearTimer, chosenVars, randomVars, ListInv,
                           ListTypeOK, SelectionHasRow
  <1>3. CASE preserveOrder
    <2>1. Visible' = Visible
      BY DEF SortBy, Visible
    <2>2. \A a : SortKey(a)' = SortKey(a)
      BY <1>3 DEF SortBy, SortKey
    <2>3. preserveOrder' /\ ((ascending' \/ preserveOrder') <=> (ascending \/ preserveOrder))
      BY <1>3 DEF SortBy
    <2>4. \A a, b : Before(a, b)' <=> Before(a, b)
      <3> SUFFICES ASSUME NEW a, NEW b PROVE Before(a, b)' <=> Before(a, b)
        OBVIOUS
      <3>1. SortKey(a)' = SortKey(a) /\ SortKey(b)' = SortKey(b)
        BY <2>2
      <3> QED
        BY <2>3, <3>1 DEF Before
    <2> QED
      BY <1>2, <1>3, <2>1, <2>4, ArrowKept DEF SortBy, chosenVars, ListInv
  <1>4. CASE ~preserveOrder
    BY <1>2, <1>4, IdleTimer DEF SortBy, ClearTimer, ListInv, ArrowIsNeighbour
  <1> QED
    BY <1>3, <1>4

LEMMA SwitchViewInv ==
  ASSUME ListInv, SwitchView
  PROVE  ListInv'
  <1>1. inGrid' \in BOOLEAN
    BY Zenon DEF SwitchView
  <1>2. ListTypeOK' /\ SelectionHasRow'
    BY <1>1 DEF SwitchView, sortVars, chosenVars, randomVars, ListInv, ListTypeOK, SelectionHasRow
  <1>3. Visible' = Visible /\ \A a, b : Before(a, b)' <=> Before(a, b)
    BY DEF SwitchView, sortVars, Visible, Before, SortKey
  <1> QED
    BY <1>2, <1>3, ArrowKept DEF SwitchView, chosenVars, ListInv

\* A row is selected, with others or alone.
LEMMA SelectSampleInv ==
  ASSUME ListInv, NEW id \in RowIds, NEW ids \in SUBSET RowIds, id \in ids, SelectSample(id, ids),
         UNCHANGED listedVars, randomHistory' \in Seq(RowIds), lastRandom' \in RowIds \cup {None}
  PROVE  ListInv'
  <1>1. pendingSelect' \in [row : RowIds \cup {None}, armed : BOOLEAN]
    BY IdleTimer DEF SelectSample, ListInv, ListTypeOK
  <1>2. ListTypeOK' /\ SelectionHasRow'
    BY <1>1, ListAssumption DEF SelectSample, listedVars, sortVars, ListInv, ListTypeOK, SelectionHasRow
  <1>3. pendingSelect'.armed => UNCHANGED <<pendingSelect, selectedRow>>
    BY IdleTimer DEF SelectSample, ListInv
  <1> QED
    BY <1>2, <1>3, SameList, ArrowKept DEF ListInv

LEMMA ClickInv ==
  ASSUME ListInv, NEW id \in RowIds, ClickSample(id) \/ ShiftClickSample(id) \/ RandomRow(id)
  PROVE  ListInv'
  <1>1. id \in {id} /\ {id} \in SUBSET RowIds
    OBVIOUS
  <1>2. CASE ClickSample(id)
    BY <1>1, <1>2, SelectSampleInv DEF ClickSample, randomVars, ListInv, ListTypeOK
  <1>3. CASE ShiftClickSample(id)
    <2> DEFINE ids == IF selectedRow \notin Visible THEN {id}
                ELSE {id, selectedRow} \cup (Below(id) \cap Above(selectedRow))
                                       \cup (Above(id) \cap Below(selectedRow))
    <2>1. ids \in SUBSET RowIds /\ id \in ids
      BY VisibleRows DEF Below, Above, ListInv
    <2>2. SelectSample(id, ids) /\ UNCHANGED <<listedVars, randomVars>>
      BY <1>3 DEF ShiftClickSample
    <2> HIDE DEF ids
    <2> QED
      BY <2>1, <2>2, SelectSampleInv DEF randomVars, ListInv, ListTypeOK
  <1>4. CASE RandomRow(id)
    <2>1. randomHistory' \in Seq(RowIds) /\ lastRandom' \in RowIds \cup {None}
      BY <1>4 DEF RandomRow, ListInv, ListTypeOK
    <2> QED
      BY <1>1, <1>4, <2>1, SelectSampleInv DEF RandomRow
  <1> QED
    BY <1>2, <1>3, <1>4

LEMMA RandomBackInv ==
  ASSUME ListInv, RandomBack
  PROVE  ListInv'
  <1> DEFINE previous == randomHistory[Len(randomHistory)]
  <1>1. randomHistory \in Seq(RowIds) /\ randomHistory # << >> /\ Len(randomHistory) \in Nat
    BY DEF RandomBack, ListInv, ListTypeOK
  <1>2. previous \in RowIds /\ {previous} \in SUBSET RowIds /\ previous \in {previous}
    BY <1>1
  <1>3. randomHistory' \in Seq(RowIds)
    BY <1>1 DEF RandomBack
  <1>4. lastRandom' = previous /\ SelectSample(previous, {previous}) /\ UNCHANGED listedVars
    BY DEF RandomBack
  <1> HIDE DEF previous
  <1> QED
    BY <1>2, <1>3, <1>4, SelectSampleInv

\* An arrow key aims at a row beside the selected one, or at an end of the list.
LEMMA ArrowToInv ==
  ASSUME ListInv, NEW id \in Visible \ {selectedRow}, ArrowTo(id),
         selectedRow \in Visible =>
           ~\E other \in Visible : \/ Before(selectedRow, other) /\ Before(other, id)
                                   \/ Before(id, other) /\ Before(other, selectedRow)
  PROVE  ListInv'
  <1>1. pendingSelect' = [row |-> id, armed |-> TRUE] /\ id \in RowIds
        /\ UNCHANGED <<listedVars, chosenVars, randomVars>>
    BY VisibleRows DEF ArrowTo, ListInv
  <1>2. ListTypeOK' /\ SelectionHasRow'
    BY <1>1 DEF listedVars, sortVars, chosenVars, randomVars, ListInv, ListTypeOK, SelectionHasRow
  <1>3. ArrowIsNeighbour'
    BY <1>1, SameList DEF ArrowIsNeighbour, chosenVars
  <1> QED
    BY <1>2, <1>3 DEF ListInv

LEMMA ArrowDownInv ==
  ASSUME ListInv, ArrowDown
  PROVE  ListInv'
  <1>1. Visible \subseteq RowIds /\ ListTypeOK
    BY VisibleRows DEF ListInv
  <1>2. CASE selectedRow \in Visible
    <2> DEFINE rows == Below(selectedRow)
               id == Topmost(rows)
    <2>1. rows # {} /\ ArrowTo(id) /\ rows \subseteq RowIds
      BY <1>1, <1>2 DEF ArrowDown, Below
    <2>2. id \in rows /\ \A other \in rows \ {id} : Before(id, other)
      BY <1>1, <2>1, TopmostRow
    <2> HIDE DEF id
    <2>3. id \in Visible /\ Before(selectedRow, id)
          /\ \A other \in Visible : Before(selectedRow, other) => other = id \/ Before(id, other)
      BY <2>2 DEF Below
    <2>4. ASSUME NEW other \in Visible
          PROVE  ~(Before(selectedRow, other) /\ Before(other, id))
                 /\ ~(Before(id, other) /\ Before(other, selectedRow))
      <3>1. ~(Before(other, id) /\ Before(id, other)) /\ ~Before(id, id)
        BY <1>1, <2>3, BeforeIsOrder
      <3>2. Before(id, other) /\ Before(other, selectedRow) => Before(id, selectedRow)
        BY <1>1, <1>2, <2>3, BeforeIsOrder
      <3>3. ~(Before(id, selectedRow) /\ Before(selectedRow, id))
        BY <1>1, <1>2, <2>3, BeforeIsOrder
      <3> QED
        BY <2>3, <3>1, <3>2, <3>3
    <2>5. id # selectedRow
      BY <1>1, <1>2, <2>3, BeforeIsOrder
    <2> QED
      BY <2>1, <2>3, <2>4, <2>5, ArrowToInv
  <1>3. CASE selectedRow \notin Visible
    <2>1. ArrowTo(Topmost(Visible)) /\ Visible # {}
      BY <1>3 DEF ArrowDown
    <2>2. Topmost(Visible) \in Visible
      BY <1>1, <2>1, TopmostRow
    <2> QED
      BY <1>3, <2>1, <2>2, ArrowToInv
  <1> QED
    BY <1>2, <1>3

LEMMA ArrowUpInv ==
  ASSUME ListInv, ArrowUp
  PROVE  ListInv'
  <1>1. Visible \subseteq RowIds /\ ListTypeOK
    BY VisibleRows DEF ListInv
  <1>2. CASE selectedRow \in Visible
    <2> DEFINE rows == Above(selectedRow)
               id == Lowest(rows)
    <2>1. rows # {} /\ ArrowTo(id) /\ rows \subseteq RowIds
      BY <1>1, <1>2 DEF ArrowUp, Above
    <2>2. id \in rows /\ \A other \in rows \ {id} : Before(other, id)
      BY <1>1, <2>1, LowestRow
    <2> HIDE DEF id
    <2>3. id \in Visible /\ Before(id, selectedRow)
          /\ \A other \in Visible : Before(other, selectedRow) => other = id \/ Before(other, id)
      BY <2>2 DEF Above
    <2>4. ASSUME NEW other \in Visible
          PROVE  ~(Before(selectedRow, other) /\ Before(other, id))
                 /\ ~(Before(id, other) /\ Before(other, selectedRow))
      <3>1. ~(Before(other, id) /\ Before(id, other)) /\ ~Before(id, id)
        BY <1>1, <2>3, BeforeIsOrder
      <3>2. Before(selectedRow, other) /\ Before(other, id) => Before(selectedRow, id)
        BY <1>1, <1>2, <2>3, BeforeIsOrder
      <3>3. ~(Before(id, selectedRow) /\ Before(selectedRow, id))
        BY <1>1, <1>2, <2>3, BeforeIsOrder
      <3> QED
        BY <2>3, <3>1, <3>2, <3>3
    <2>5. id # selectedRow
      BY <1>1, <1>2, <2>3, BeforeIsOrder
    <2> QED
      BY <2>1, <2>3, <2>4, <2>5, ArrowToInv
  <1>3. CASE selectedRow \notin Visible
    <2>1. ArrowTo(Lowest(Visible)) /\ Visible # {}
      BY <1>3 DEF ArrowUp
    <2>2. Lowest(Visible) \in Visible
      BY <1>1, <2>1, LowestRow
    <2> QED
      BY <1>3, <2>1, <2>2, ArrowToInv
  <1> QED
    BY <1>2, <1>3

LEMMA ArrowFiresInv ==
  ASSUME ListInv, ArrowFires
  PROVE  ListInv'
  <1>1. pendingSelect' = [row |-> None, armed |-> FALSE] /\ UNCHANGED <<listedVars, randomVars>>
    BY DEF ArrowFires
  <1>2. pendingSelect.row \in RowIds \cup {None}
    BY DEF ListInv, ListTypeOK
  <1>3. selectedRow' \in RowIds \cup {None} /\ selectedRowIds' \subseteq RowIds /\ SelectionHasRow'
    BY <1>2 DEF ArrowFires, chosenVars, ListInv, ListTypeOK, SelectionHasRow
  <1> QED
    BY <1>1, <1>3 DEF listedVars, sortVars, randomVars, ListInv, ListTypeOK, ArrowIsNeighbour

LEMMA DeselectInv ==
  ASSUME ListInv, Deselect
  PROVE  ListInv'
  BY IdleTimer DEF Deselect, ClearTimer, listedVars, sortVars, randomVars, ListInv, ListTypeOK,
                   ArrowIsNeighbour, SelectionHasRow

LEMMA ListNextInv == ListInv /\ [ListNext]_listVars => ListInv'
  <1> SUFFICES ASSUME ListInv, [ListNext]_listVars PROVE ListInv'
    OBVIOUS
  <1>1. CASE UNCHANGED listVars
    <2>1. ListTypeOK' /\ SelectionHasRow' /\ UNCHANGED listedVars
      BY <1>1 DEF listVars, listedVars, sortVars, chosenVars, randomVars, ListInv, ListTypeOK,
                  SelectionHasRow
    <2> QED
      BY <1>1, <2>1, SameList, ArrowKept DEF listVars, chosenVars, ListInv
  <1> QED
    BY <1>1, RowsChangeInv, ShowGivenOrderInv, FilterQualityInv, SwitchViewInv, SortByInv, ClickInv,
       ArrowDownInv, ArrowUpInv, ArrowFiresInv, RandomBackInv, DeselectInv, Zenon DEF ListNext

LEMMA ListInitInv == ListInit => ListInv
  <1> SUFFICES ASSUME ListInit PROVE ListInv
    OBVIOUS
  <1>1. pendingSelect \in [row : RowIds \cup {None}, armed : BOOLEAN] /\ ~pendingSelect.armed
    BY DEF ListInit
  <1>2. {ascending, inGrid, preserveOrder} \subseteq BOOLEAN
    BY DEF ListInit
  <1>3. randomHistory \in Seq(RowIds)
    BY DEF ListInit
  <1> QED
    BY <1>1, <1>2, <1>3 DEF ListInit, ListInv, ListTypeOK, ArrowIsNeighbour, SelectionHasRow

\* An arrow key's delay ends at the neighbour of the selected row, and the
\* selection has its row, for any list of rows in any of its orders.
THEOREM ListInvariant == ListSpec => []ListInv
  BY ListInitInv, ListNextInv, PTL DEF ListSpec

-----------------------------------------------------------------------------
(***************************************************************************)
(* The sidebar of collections. What the newest reads will bring, or a      *)
(* change that was announced and not yet handled, accounts for every       *)
(* difference between the sidebar and the database.                        *)
(***************************************************************************)

\* One command is handled at a time, and it is not acknowledged before it ends.
OneCommand ==
  /\ \A c, d \in listCalls : c.command /\ d.command => c = d
  /\ \A c, d \in memberCalls : c.command /\ d.command => c = d
  /\ \A c \in listCalls, d \in memberCalls : ~(c.command /\ d.command)
  /\ Handling => announced > 0

\* One request of each kind has the newest number; the first list comes to an
\* empty sidebar.
OneNewestEach ==
  /\ \A c, d \in listCalls : c.newest /\ d.newest => c = d
  /\ \A c, d \in memberCalls : c.newest /\ d.newest => c = d
  /\ \A c \in listCalls : c.newest /\ ~c.refresh => listed = {} /\ active = None

\* A change was announced whose refresh has not begun.
Waiting == announced > 1 \/ (announced > 0 /\ ~Handling)

Refreshing == \E c \in listCalls : c.newest /\ c.refresh

\* Whatever was read exists.
ReadExists ==
  /\ listed \subseteq DOMAIN shelf
  /\ active \in DOMAIN shelf \cup {None}
  /\ \A c \in listCalls : c.answer # None => c.answer \subseteq DOMAIN shelf

\* What the list and the members lack is on its way.
ListComes ==
  \/ Waiting
  \/ /\ listed = DOMAIN shelf \/ "list" \in unread \/ \E c \in listCalls : c.newest
     /\ \A c \in listCalls : c.newest => c.answer \in {None, DOMAIN shelf}

MembersCome ==
  \/ Waiting \/ Refreshing \/ "list" \in unread \/ active = None
  \/ /\ \/ shown = [of |-> active, rows |-> shelf[active]]
        \/ "members" \in unread
        \/ \E c \in memberCalls : Accepted(c)
     /\ \A c \in memberCalls : Accepted(c) => c.answer \in {None, shelf[active]}

CollectionsInv ==
  /\ CollectionsTypeOK /\ OneCommand /\ OneNewestEach
  /\ active = None => shown = NoMembers
  /\ "replaced" \in unread \/ (ReadExists /\ ListComes /\ MembersCome)

LEMMA ShelfFacts ==
  ASSUME NEW s \in Shelves
  PROVE  DOMAIN s \subseteq CollectionIds /\ \A c \in DOMAIN s : s[c] \subseteq MemberRows
  BY DEF Shelves

LEMMA ListOvertaken ==
  ASSUME listCalls \subseteq ListCall
  PROVE  /\ Overtaken(listCalls) \subseteq ListCall
         /\ \A d \in Overtaken(listCalls) : ~d.newest /\ \E c \in listCalls :
              /\ d = [c EXCEPT !.newest = FALSE]
              /\ d.refresh = c.refresh /\ d.command = c.command /\ d.answer = c.answer
         /\ \A c \in listCalls : \E d \in Overtaken(listCalls) : d.command = c.command
  <1>1. ASSUME NEW c \in listCalls
        PROVE  LET d == [c EXCEPT !.newest = FALSE] IN
                 d \in ListCall /\ ~d.newest /\ d.refresh = c.refresh /\ d.command = c.command /\ d.answer = c.answer
    BY DEF ListCall
  <1> QED
    BY <1>1 DEF Overtaken

LEMMA MembersOvertaken ==
  ASSUME memberCalls \subseteq MemberCall
  PROVE  /\ Overtaken(memberCalls) \subseteq MemberCall
         /\ \A d \in Overtaken(memberCalls) : ~d.newest /\ \E c \in memberCalls :
              /\ d = [c EXCEPT !.newest = FALSE]
              /\ d.of = c.of /\ d.command = c.command /\ d.answer = c.answer
         /\ \A c \in memberCalls : \E d \in Overtaken(memberCalls) : d.command = c.command
  <1>1. ASSUME NEW c \in memberCalls
        PROVE  LET d == [c EXCEPT !.newest = FALSE] IN
                 d \in MemberCall /\ ~d.newest /\ d.of = c.of /\ d.command = c.command /\ d.answer = c.answer
    BY DEF MemberCall
  <1> QED
    BY <1>1 DEF Overtaken

LEMMA CollectionsInitInv == CollectionsInit => CollectionsInv
  <1> SUFFICES ASSUME CollectionsInit PROVE CollectionsInv
    OBVIOUS
  <1> DEFINE c0 == [newest |-> TRUE, refresh |-> FALSE, command |-> FALSE, answer |-> None]
  <1>1. /\ c0 \in ListCall /\ c0.newest /\ ~c0.refresh /\ ~c0.command /\ c0.answer = None
        /\ listCalls = {c0} /\ memberCalls = {}
    BY DEF CollectionsInit, ListCall
  <1> HIDE DEF c0
  <1>2. CollectionsTypeOK
    <2>1. 0 \in 0..MaxAnnounced
      BY ShelfAssumption
    <2>2. NoMembers \in [of : CollectionIds \cup {None}, rows : SUBSET MemberRows]
      BY DEF NoMembers
    <2> QED
      BY <1>1, <2>1, <2>2, ShelfAssumption DEF CollectionsInit, CollectionsTypeOK
  <1>3. OneCommand
    BY <1>1 DEF CollectionsInit, OneCommand, Handling
  <1>4. OneNewestEach
    BY <1>1 DEF CollectionsInit, OneNewestEach
  <1>5. ReadExists /\ ListComes /\ MembersCome
    BY <1>1 DEF CollectionsInit, ReadExists, ListComes, MembersCome
  <1> QED
    BY <1>2, <1>3, <1>4, <1>5 DEF CollectionsInit, CollectionsInv

\* The database changes, and the change is announced or asked for.
LEMMA ApiChangesInv ==
  ASSUME CollectionsInv, NEW s \in Shelves, ApiChanges(s)
  PROVE  CollectionsInv'
  <1>1. /\ shelf' = s /\ announced' = announced + 1 /\ announced < MaxAnnounced
        /\ DOMAIN shelf \subseteq DOMAIN shelf'
        /\ UNCHANGED <<collectionUi, listCalls, memberCalls, unread>>
    BY DEF ApiChanges
  <1>2. announced \in Nat /\ announced' \in 0..MaxAnnounced
    BY <1>1, ShelfAssumption DEF CollectionsInv, CollectionsTypeOK
  <1>3. CollectionsTypeOK'
    BY <1>1, <1>2 DEF CollectionsInv, CollectionsTypeOK, collectionUi
  <1>4. OneCommand' /\ OneNewestEach'
    BY <1>1, <1>2 DEF CollectionsInv, OneCommand, OneNewestEach, Handling, collectionUi
  <1>5. Waiting'
    <2>1. Handling' <=> Handling
      BY <1>1 DEF Handling
    <2> QED
      BY <1>1, <1>2, <2>1 DEF CollectionsInv, OneCommand, Waiting
  <1>6. "replaced" \in unread' \/ ReadExists'
    BY <1>1 DEF CollectionsInv, ReadExists, collectionUi
  <1>7. (active = None => shown = NoMembers)'
    BY <1>1 DEF CollectionsInv, collectionUi
  <1> QED
    BY <1>3, <1>4, <1>5, <1>6, <1>7 DEF CollectionsInv, ListComes, MembersCome

LEMMA LibraryReplacedInv ==
  ASSUME CollectionsInv, LibraryReplaced
  PROVE  CollectionsInv'
  <1>1. CollectionsTypeOK'
    BY ShelfAssumption DEF LibraryReplaced, CollectionsInv, CollectionsTypeOK, collectionUi
  <1> QED
    BY <1>1 DEF LibraryReplaced, CollectionsInv, OneCommand, OneNewestEach, Handling, collectionUi

\* The newest list is asked for: on a command when none is handled, or else.
LEMMA AskListInv ==
  ASSUME CollectionsInv, NEW command \in BOOLEAN, AskList(command),
         command => announced > 0 /\ ~Handling,
         UNCHANGED <<announced, collectionUi, memberCalls, unread>>,
         shelf' \in Shelves, DOMAIN shelf \subseteq DOMAIN shelf'
  PROVE  CollectionsInv'
  <1> DEFINE n == [newest |-> TRUE, refresh |-> TRUE, command |-> command, answer |-> None]
             O == Overtaken(listCalls)
  <1>1. n \in ListCall /\ n.newest /\ n.refresh /\ n.command = command /\ n.answer = None
    BY DEF ListCall
  <1>2. listCalls' = O \cup {n}
    BY DEF AskList
  <1>3. /\ O \subseteq ListCall
        /\ \A d \in O : ~d.newest /\ \E c \in listCalls :
              /\ d = [c EXCEPT !.newest = FALSE]
              /\ d.refresh = c.refresh /\ d.command = c.command /\ d.answer = c.answer
    BY ListOvertaken DEF CollectionsInv, CollectionsTypeOK
  <1> HIDE DEF n, O
  <1>4. CollectionsTypeOK'
    BY <1>1, <1>2, <1>3 DEF CollectionsInv, CollectionsTypeOK, collectionUi
  <1>5. OneCommand'
    <2>1. \A c, d \in O : c.command /\ d.command => c = d
      BY <1>3 DEF CollectionsInv, OneCommand
    <2>2. command => \A d \in O \cup memberCalls : ~d.command
      BY <1>3 DEF Handling
    <2>3. \A c, d \in listCalls' : c.command /\ d.command => c = d
      BY <1>1, <1>2, <2>1, <2>2
    <2>4. \A c \in O, d \in memberCalls : ~(c.command /\ d.command)
      BY <1>3 DEF CollectionsInv, OneCommand
    <2>5. \A c \in listCalls', d \in memberCalls : ~(c.command /\ d.command)
      BY <1>1, <1>2, <2>2, <2>4
    <2>6. Handling' => announced' > 0
      <3>1. (\E d \in O \cup memberCalls : d.command) => Handling
        BY <1>3 DEF Handling
      <3> QED
        BY <1>1, <1>2, <3>1 DEF CollectionsInv, OneCommand, Handling
    <2> QED
      BY <2>3, <2>5, <2>6 DEF CollectionsInv, OneCommand
  <1>6. OneNewestEach' /\ Refreshing'
    BY <1>1, <1>2, <1>3 DEF CollectionsInv, OneNewestEach, Refreshing
  <1>7. ListComes'
    BY <1>1, <1>2, <1>3 DEF ListComes
  <1>8. "replaced" \in unread' \/ ReadExists'
    BY <1>1, <1>2, <1>3 DEF CollectionsInv, ReadExists, collectionUi
  <1>9. (active = None => shown = NoMembers)'
    BY DEF CollectionsInv, collectionUi
  <1> QED
    BY <1>4, <1>5, <1>6, <1>7, <1>8, <1>9 DEF CollectionsInv, MembersCome

\* The members of a collection are asked for; the calls before are overtaken.
LEMMA LoadFacts ==
  ASSUME memberCalls \subseteq MemberCall, NEW id \in CollectionIds, NEW command \in BOOLEAN,
         LoadMembers(id, command, memberCalls),
         \A c, d \in memberCalls : c.command /\ d.command => c = d,
         command => \A c \in memberCalls : ~c.command
  PROVE  /\ memberCalls' \subseteq MemberCall
         /\ \A d \in memberCalls' : d.newest => d.of = id /\ d.answer = None
         /\ \A c, d \in memberCalls' : c.newest /\ d.newest => c = d
         /\ \A c, d \in memberCalls' : c.command /\ d.command => c = d
         /\ \E d \in memberCalls' : d.newest /\ d.of = id
         /\ (\E d \in memberCalls' : d.command) <=> (command \/ \E c \in memberCalls : c.command)
  <1> DEFINE n == [of |-> id, newest |-> TRUE, command |-> command, answer |-> None]
             O == Overtaken(memberCalls)
  <1>1. n \in MemberCall /\ n.newest /\ n.of = id /\ n.answer = None /\ (n.command <=> command)
    BY DEF MemberCall
  <1>2. memberCalls' = O \cup {n}
    BY DEF LoadMembers
  <1>3. /\ O \subseteq MemberCall
        /\ \A d \in O : ~d.newest /\ \E c \in memberCalls :
              /\ d = [c EXCEPT !.newest = FALSE]
              /\ d.of = c.of /\ d.command = c.command /\ d.answer = c.answer
        /\ \A c \in memberCalls : \E d \in O : d.command = c.command
    BY MembersOvertaken
  <1> HIDE DEF n, O
  <1>4. ASSUME NEW c \in O, NEW d \in O, c.command, d.command PROVE c = d
    <2>1. PICK x \in memberCalls : c = [x EXCEPT !.newest = FALSE] /\ c.command = x.command
      BY <1>3
    <2>2. PICK y \in memberCalls : d = [y EXCEPT !.newest = FALSE] /\ d.command = y.command
      BY <1>3
    <2>3. x = y
      BY <1>4, <2>1, <2>2
    <2> QED
      BY <2>1, <2>2, <2>3
  <1>5. command => \A d \in O : ~d.command
    BY <1>3
  <1>6. \A c, d \in memberCalls' : c.command /\ d.command => c = d
    BY <1>1, <1>2, <1>4, <1>5
  <1>7. (\E d \in memberCalls' : d.command) <=> (command \/ \E c \in memberCalls : c.command)
    BY <1>1, <1>2, <1>3
  <1> QED
    BY <1>1, <1>2, <1>3, <1>6, <1>7

LEMMA SelectCollectionInv ==
  ASSUME CollectionsInv, NEW id \in CollectionIds, SelectCollection(id)
  PROVE  CollectionsInv'
  <1>1. /\ id \in listed /\ view' = TRUE /\ active' = id /\ LoadMembers(id, FALSE, memberCalls)
        /\ UNCHANGED <<shelf, announced, listed, shown, listCalls, unread>>
    BY DEF SelectCollection, Selectable
  <1>2. /\ memberCalls' \subseteq MemberCall
        /\ \A d \in memberCalls' : d.newest => d.of = id /\ d.answer = None
        /\ \A c, d \in memberCalls' : c.newest /\ d.newest => c = d
        /\ \A c, d \in memberCalls' : c.command /\ d.command => c = d
        /\ \E d \in memberCalls' : d.newest /\ d.of = id
        /\ (\E d \in memberCalls' : d.command) <=> (\E c \in memberCalls : c.command)
    BY <1>1, LoadFacts DEF CollectionsInv, CollectionsTypeOK, OneCommand
  <1>3. CollectionsTypeOK'
    BY <1>1, <1>2 DEF CollectionsInv, CollectionsTypeOK
  <1>4. Handling' <=> Handling
    BY <1>1, <1>2 DEF Handling
  <1>5. OneCommand'
    <2>1. \A c \in listCalls', d \in memberCalls' : ~(c.command /\ d.command)
      BY <1>1, <1>2 DEF CollectionsInv, OneCommand
    <2> QED
      BY <1>1, <1>2, <1>4, <2>1 DEF CollectionsInv, OneCommand
  <1>6. OneNewestEach'
    BY <1>1, <1>2 DEF CollectionsInv, OneNewestEach
  <1>7. "replaced" \in unread \/ (ReadExists' /\ ListComes' /\ MembersCome')
    <2>1. CASE ReadExists /\ ListComes
      <3>1. ReadExists'
        BY <1>1, <2>1 DEF ReadExists
      <3>2. ListComes'
        BY <1>1, <1>4, <2>1 DEF ListComes, Waiting
      <3>3. MembersCome'
        BY <1>1, <1>2 DEF MembersCome, Accepted
      <3> QED
        BY <3>1, <3>2, <3>3
    <2> QED
      BY <2>1 DEF CollectionsInv
  <1>8. active' # None
    BY <1>1, ShelfAssumption
  <1> QED
    BY <1>1, <1>3, <1>5, <1>6, <1>7, <1>8 DEF CollectionsInv

LEMMA ClearCollectionInv ==
  ASSUME CollectionsInv, ClearCollection
  PROVE  CollectionsInv'
  <1>1. /\ view' = FALSE /\ active' = None /\ shown' = NoMembers
        /\ UNCHANGED <<shelf, announced, listed, listCalls, memberCalls, unread>>
    BY DEF ClearCollection
  <1>2. CollectionsTypeOK'
    <2>1. NoMembers \in [of : CollectionIds \cup {None}, rows : SUBSET MemberRows]
      BY DEF NoMembers
    <2> QED
      BY <1>1, <2>1 DEF CollectionsInv, CollectionsTypeOK
  <1>3. OneCommand' /\ OneNewestEach' /\ (Waiting' <=> Waiting)
    BY <1>1 DEF CollectionsInv, OneCommand, OneNewestEach, Handling, Waiting
  <1>4. "replaced" \in unread \/ (ReadExists' /\ ListComes' /\ MembersCome')
    BY <1>1, <1>3 DEF CollectionsInv, ReadExists, ListComes, MembersCome
  <1> QED
    BY <1>1, <1>2, <1>3, <1>4 DEF CollectionsInv

\* The backend reads: the call now has an answer, which is what the shelf holds.
LEMMA ReadListInv ==
  ASSUME CollectionsInv, NEW c \in listCalls, ReadList(c)
  PROVE  CollectionsInv'
  <1> DEFINE n == [c EXCEPT !.answer = DOMAIN shelf]
  <1>1. c.answer = None /\ listCalls' = (listCalls \ {c}) \cup {n}
        /\ UNCHANGED <<shelf, announced, collectionUi, memberCalls, unread>>
    BY DEF ReadList
  <1>2. /\ n \in ListCall /\ n.answer = DOMAIN shelf /\ c \in ListCall
        /\ n.newest = c.newest /\ n.refresh = c.refresh /\ n.command = c.command
    BY ShelfFacts DEF ListCall, CollectionsInv, CollectionsTypeOK
  <1> HIDE DEF n
  <1>3. CollectionsTypeOK'
    BY <1>1, <1>2 DEF CollectionsInv, CollectionsTypeOK, collectionUi
  <1>4. Handling' <=> Handling
    BY <1>1, <1>2 DEF Handling
  <1>5. OneCommand'
    BY <1>1, <1>2, <1>4 DEF CollectionsInv, OneCommand
  <1>6. OneNewestEach' /\ (Refreshing' <=> Refreshing)
    BY <1>1, <1>2 DEF CollectionsInv, OneNewestEach, Refreshing, collectionUi
  <1>7. "replaced" \in unread \/ (ReadExists' /\ ListComes' /\ MembersCome')
    <2>1. CASE ReadExists /\ ListComes /\ MembersCome
      <3>1. ReadExists'
        BY <1>1, <1>2, <2>1 DEF ReadExists, collectionUi
      <3>2. ListComes'
        <4>1. (\E d \in listCalls' : d.newest) <=> (\E d \in listCalls : d.newest)
          BY <1>1, <1>2
        <4>2. (\A d \in listCalls : d.newest => d.answer \in {None, DOMAIN shelf}) =>
                \A d \in listCalls' : d.newest => d.answer \in {None, DOMAIN shelf}
          BY <1>1, <1>2
        <4> QED
          BY <1>1, <1>4, <2>1, <4>1, <4>2 DEF ListComes, Waiting, collectionUi
      <3>3. MembersCome'
        BY <1>1, <1>4, <1>6, <2>1 DEF MembersCome, Waiting, Accepted, collectionUi
      <3> QED
        BY <3>1, <3>2, <3>3
    <2> QED
      BY <2>1 DEF CollectionsInv
  <1> QED
    BY <1>1, <1>3, <1>5, <1>6, <1>7 DEF CollectionsInv, collectionUi

LEMMA ReadMembersInv ==
  ASSUME CollectionsInv, NEW c \in memberCalls, ReadMembers(c)
  PROVE  CollectionsInv'
  <1> DEFINE r == IF c.of \in DOMAIN shelf THEN shelf[c.of] ELSE {}
             n == [c EXCEPT !.answer = r]
  <1>1. c.answer = None /\ memberCalls' = (memberCalls \ {c}) \cup {n}
        /\ UNCHANGED <<shelf, announced, collectionUi, listCalls, unread>>
    BY DEF ReadMembers
  <1>a. r \in SUBSET MemberRows /\ (c.of \in DOMAIN shelf => r = shelf[c.of])
    BY ShelfFacts DEF CollectionsInv, CollectionsTypeOK
  <1> HIDE DEF r
  <1>2. /\ n \in MemberCall /\ n.answer = r /\ c \in MemberCall
        /\ n.newest = c.newest /\ n.of = c.of /\ n.command = c.command
    BY <1>a DEF MemberCall, CollectionsInv, CollectionsTypeOK
  <1> HIDE DEF n
  <1>3. CollectionsTypeOK'
    BY <1>1, <1>2 DEF CollectionsInv, CollectionsTypeOK, collectionUi
  <1>4. Handling' <=> Handling
    BY <1>1, <1>2 DEF Handling
  <1>5. OneCommand'
    BY <1>1, <1>2, <1>4 DEF CollectionsInv, OneCommand
  <1>6. OneNewestEach' /\ (Refreshing' <=> Refreshing)
    BY <1>1, <1>2 DEF CollectionsInv, OneNewestEach, Refreshing, collectionUi
  <1>7. "replaced" \in unread \/ (ReadExists' /\ ListComes' /\ MembersCome')
    <2>1. CASE ReadExists /\ ListComes /\ MembersCome
      <3>1. ReadExists' /\ ListComes'
        BY <1>1, <1>4, <2>1 DEF ReadExists, ListComes, Waiting, collectionUi
      <3>2. MembersCome'
        <4>1. (\E d \in memberCalls' : Accepted(d)') <=> (\E d \in memberCalls : Accepted(d))
          BY <1>1, <1>2 DEF Accepted, collectionUi
        <4>2. ASSUME active # None, \A d \in memberCalls : Accepted(d) => d.answer \in {None, shelf[active]}
              PROVE  \A d \in memberCalls' : Accepted(d)' => d.answer \in {None, shelf[active]}
          <5>1. Accepted(n) => r = shelf[active]
            BY <1>2, <1>a, <2>1, <4>2 DEF Accepted, ReadExists
          <5> QED
            BY <1>1, <1>2, <4>2, <5>1 DEF Accepted, collectionUi
        <4> QED
          BY <1>1, <1>4, <1>6, <2>1, <4>1, <4>2 DEF MembersCome, Waiting, collectionUi
      <3> QED
        BY <3>1, <3>2
    <2> QED
      BY <2>1 DEF CollectionsInv
  <1> QED
    BY <1>1, <1>3, <1>5, <1>6, <1>7 DEF CollectionsInv, collectionUi

\* A request that ends, acknowledged if it had a command, starts nothing and
\* leaves as many changes waiting as there were; unacknowledged, no fewer.
LEMMA EndedCall ==
  ASSUME CollectionsInv, NEW c,
         \/ c \in listCalls /\ listCalls' = listCalls \ {c} /\ UNCHANGED memberCalls
         \/ c \in memberCalls /\ memberCalls' = memberCalls \ {c} /\ UNCHANGED listCalls,
         Acknowledge(c) \/ UNCHANGED announced
  PROVE  /\ announced' \in 0..MaxAnnounced /\ OneCommand'
         /\ Acknowledge(c) => (Waiting' <=> Waiting)
         /\ Waiting => Waiting'
  <1>1. announced \in 0..MaxAnnounced /\ MaxAnnounced \in Nat
    BY ShelfAssumption DEF CollectionsInv, CollectionsTypeOK
  <1>2. CASE c.command
    <2>1. Handling /\ announced > 0 /\ ~Handling'
      BY <1>2 DEF CollectionsInv, OneCommand, Handling
    <2>2. announced' \in {announced, announced - 1}
          /\ (Acknowledge(c) => announced' = announced - 1)
      BY <1>2 DEF Acknowledge
    <2>3. OneCommand'
      BY <2>1 DEF CollectionsInv, OneCommand
    <2> QED
      BY <1>1, <2>1, <2>2, <2>3 DEF Waiting
  <1>3. CASE ~c.command
    <2>1. announced' = announced
      BY <1>3 DEF Acknowledge
    <2>2. Handling' <=> Handling
      BY <1>3 DEF Handling
    <2>3. OneCommand'
      BY <2>1, <2>2 DEF CollectionsInv, OneCommand
    <2> QED
      BY <1>1, <2>1, <2>2, <2>3 DEF Waiting
  <1> QED
    BY <1>2, <1>3

LEMMA MembersReturnInv ==
  ASSUME CollectionsInv, NEW c \in memberCalls, MembersReturn(c)
  PROVE  CollectionsInv'
  <1>1. /\ c.answer # None /\ memberCalls' = memberCalls \ {c} /\ Acknowledge(c)
        /\ UNCHANGED <<shelf, listed, active, view, listCalls>>
        /\ Accepted(c) => shown' = [of |-> c.of, rows |-> c.answer] /\ unread' = unread \ {"members"}
        /\ ~Accepted(c) => UNCHANGED <<shown, unread>>
    BY DEF MembersReturn
  <1>2. announced' \in 0..MaxAnnounced /\ OneCommand' /\ (Waiting' <=> Waiting)
    BY <1>1, EndedCall
  <1>3. c \in MemberCall /\ c.of \in CollectionIds /\ c.answer \in SUBSET MemberRows
    BY <1>1 DEF MemberCall, CollectionsInv, CollectionsTypeOK
  <1>4. CollectionsTypeOK'
    <2>1. shown' \in [of : CollectionIds \cup {None}, rows : SUBSET MemberRows]
      BY <1>1, <1>3 DEF CollectionsInv, CollectionsTypeOK
    <2> QED
      BY <1>1, <1>2, <2>1 DEF CollectionsInv, CollectionsTypeOK
  <1>5. OneNewestEach' /\ (Refreshing' <=> Refreshing)
    BY <1>1 DEF CollectionsInv, OneNewestEach, Refreshing
  <1>6. (active = None => shown = NoMembers)'
    <2>1. CASE Accepted(c)
      BY <1>1, <1>3, <2>1, ShelfAssumption DEF Accepted
    <2>2. CASE ~Accepted(c)
      BY <1>1, <2>2 DEF CollectionsInv
    <2> QED
      BY <2>1, <2>2
  <1>7. "replaced" \in unread' \/ (ReadExists' /\ ListComes' /\ MembersCome')
    <2>1. CASE "replaced" \in unread
      BY <1>1, <2>1
    <2>2. CASE ReadExists /\ ListComes /\ MembersCome
      <3>1. ReadExists'
        BY <1>1, <2>2 DEF ReadExists
      <3>2. "list" \in unread' <=> "list" \in unread
        BY <1>1
      <3>3. ListComes'
        BY <1>1, <1>2, <2>2, <3>2 DEF ListComes
      <3>4. MembersCome'
        <4>1. CASE Waiting \/ Refreshing \/ "list" \in unread \/ active = None
          BY <1>1, <1>2, <1>5, <3>2, <4>1 DEF MembersCome
        <4>2. ASSUME ~(Waiting \/ Refreshing \/ "list" \in unread \/ active = None), Accepted(c)
              PROVE  MembersCome'
          <5>1. c.answer = shelf[active] /\ c.of = active
            BY <1>1, <2>2, <4>2 DEF MembersCome, Accepted
          <5>2. shown' = [of |-> active', rows |-> shelf'[active']]
            BY <1>1, <4>2, <5>1
          <5>3. \A d \in memberCalls' : Accepted(d)' => d.answer \in {None, shelf'[active']}
            BY <1>1, <2>2, <4>2 DEF MembersCome, Accepted
          <5> QED
            BY <5>2, <5>3 DEF MembersCome
        <4>3. ASSUME ~(Waiting \/ Refreshing \/ "list" \in unread \/ active = None), ~Accepted(c)
              PROVE  MembersCome'
          BY <1>1, <2>2, <4>3 DEF MembersCome, Accepted
        <4> QED
          BY <4>1, <4>2, <4>3
      <3> QED
        BY <3>1, <3>3, <3>4
    <2> QED
      BY <2>1, <2>2 DEF CollectionsInv
  <1> QED
    BY <1>2, <1>4, <1>5, <1>6, <1>7 DEF CollectionsInv

LEMMA MembersFailInv ==
  ASSUME CollectionsInv, NEW c \in memberCalls, MembersFail(c)
  PROVE  CollectionsInv'
  <1>1. /\ memberCalls' = memberCalls \ {c}
        /\ UNCHANGED <<shelf, announced, listed, active, shown, view, listCalls>>
        /\ Accepted(c) => unread' = unread \cup {"members"}
        /\ ~Accepted(c) => unread' = unread
    BY DEF MembersFail, collectionUi
  <1>2. announced' \in 0..MaxAnnounced /\ OneCommand' /\ (Waiting => Waiting')
    BY <1>1, EndedCall
  <1>3. CollectionsTypeOK'
    BY <1>1, <1>2 DEF CollectionsInv, CollectionsTypeOK
  <1>4. OneNewestEach' /\ (Refreshing' <=> Refreshing)
    BY <1>1 DEF CollectionsInv, OneNewestEach, Refreshing
  <1>5. "replaced" \in unread' \/ (ReadExists' /\ ListComes' /\ MembersCome')
    <2>1. CASE "replaced" \in unread
      BY <1>1, <2>1
    <2>2. CASE ReadExists /\ ListComes /\ MembersCome
      <3>1. ReadExists' /\ ListComes'
        BY <1>1, <1>2, <2>2 DEF ReadExists, ListComes
      <3>2. MembersCome'
        <4>1. CASE Accepted(c)
          BY <1>1, <1>2, <1>4, <2>2, <4>1 DEF MembersCome, Accepted
        <4>2. CASE ~Accepted(c)
          BY <1>1, <1>2, <1>4, <2>2, <4>2 DEF MembersCome, Accepted
        <4> QED
          BY <4>1, <4>2
      <3> QED
        BY <3>1, <3>2
    <2> QED
      BY <2>1, <2>2 DEF CollectionsInv
  <1> QED
    BY <1>1, <1>2, <1>3, <1>4, <1>5 DEF CollectionsInv

LEMMA ListFailsInv ==
  ASSUME CollectionsInv, NEW c \in listCalls, ListFails(c)
  PROVE  CollectionsInv'
  <1>1. /\ listCalls' = listCalls \ {c}
        /\ UNCHANGED <<shelf, announced, listed, active, shown, view, memberCalls>>
        /\ c.newest => unread' = unread \cup {"list"}
        /\ ~c.newest => unread' = unread
    BY DEF ListFails, collectionUi
  <1>2. announced' \in 0..MaxAnnounced /\ OneCommand' /\ (Waiting => Waiting')
    BY <1>1, EndedCall
  <1>3. CollectionsTypeOK'
    BY <1>1, <1>2 DEF CollectionsInv, CollectionsTypeOK
  <1>4. OneNewestEach'
    BY <1>1 DEF CollectionsInv, OneNewestEach
  <1>5. "replaced" \in unread' \/ (ReadExists' /\ ListComes' /\ MembersCome')
    <2>1. CASE "replaced" \in unread
      BY <1>1, <2>1
    <2>2. CASE ReadExists /\ ListComes /\ MembersCome
      <3>1. ReadExists'
        BY <1>1, <2>2 DEF ReadExists
      <3>2. ListComes'
        BY <1>1, <1>2, <2>2 DEF ListComes
      <3>3. MembersCome'
        <4>1. CASE c.newest
          BY <1>1, <4>1 DEF MembersCome
        <4>2. CASE ~c.newest
          <5>1. Refreshing' <=> Refreshing
            BY <1>1, <4>2 DEF Refreshing
          <5> QED
            BY <1>1, <1>2, <2>2, <4>2, <5>1 DEF MembersCome, Accepted
        <4> QED
          BY <4>1, <4>2
      <3> QED
        BY <3>1, <3>2, <3>3
    <2> QED
      BY <2>1, <2>2 DEF CollectionsInv
  <1> QED
    BY <1>1, <1>2, <1>3, <1>4, <1>5 DEF CollectionsInv

\* What the newest list brings is the shelf, unless a change waits.
LEMMA NewestListIsShelf ==
  ASSUME CollectionsInv, NEW c \in listCalls, c.newest, c.answer # None,
         listCalls' = listCalls \ {c}, listed' = c.answer, shelf' = shelf, Waiting => Waiting',
         ReadExists, ListComes
  PROVE  /\ ListComes' /\ listed' \subseteq DOMAIN shelf'
         /\ \A d \in listCalls' : d.answer # None => d.answer \subseteq DOMAIN shelf'
  <1>1. \A d \in listCalls' : ~d.newest
    BY DEF CollectionsInv, OneNewestEach
  <1>2. Waiting \/ c.answer = DOMAIN shelf
    BY DEF ListComes
  <1> QED
    BY <1>1, <1>2 DEF ListComes, ReadExists

\* The list is overtaken: it is thrown away.
LEMMA OldListInv ==
  ASSUME CollectionsInv, NEW c \in listCalls, ListReturns(c), ~c.newest
  PROVE  CollectionsInv'
  <1>1. /\ listCalls' = listCalls \ {c} /\ Acknowledge(c)
        /\ UNCHANGED <<shelf, listed, active, shown, view, memberCalls, unread>>
    BY DEF ListReturns
  <1>2. announced' \in 0..MaxAnnounced /\ OneCommand' /\ (Waiting => Waiting')
    BY <1>1, EndedCall
  <1>3. CollectionsTypeOK'
    BY <1>1, <1>2 DEF CollectionsInv, CollectionsTypeOK
  <1>4. OneNewestEach' /\ (Refreshing' <=> Refreshing)
    BY <1>1 DEF CollectionsInv, OneNewestEach, Refreshing
  <1>5. "replaced" \in unread' \/ (ReadExists' /\ ListComes' /\ MembersCome')
    <2>1. CASE "replaced" \in unread
      BY <1>1, <2>1
    <2>2. CASE ReadExists /\ ListComes /\ MembersCome
      <3>1. ReadExists' /\ ListComes'
        BY <1>1, <1>2, <2>2 DEF ReadExists, ListComes
      <3>2. MembersCome'
        BY <1>1, <1>2, <1>4, <2>2 DEF MembersCome, Accepted
      <3> QED
        BY <3>1, <3>2
    <2> QED
      BY <2>1, <2>2 DEF CollectionsInv
  <1> QED
    BY <1>1, <1>2, <1>3, <1>4, <1>5 DEF CollectionsInv

\* The list is shown and no members are asked for: none are shown.
LEMMA ListAloneInv ==
  ASSUME CollectionsInv, NEW c \in listCalls, ListReturns(c), c.newest,
         active' = None, shown' = NoMembers, Acknowledge(c), UNCHANGED memberCalls
  PROVE  CollectionsInv'
  <1>1. /\ c.answer # None /\ listCalls' = listCalls \ {c} /\ listed' = c.answer
        /\ unread' = unread \ {"list"} /\ UNCHANGED <<shelf, view>>
    BY DEF ListReturns
  <1>2. announced' \in 0..MaxAnnounced /\ OneCommand' /\ (Waiting => Waiting')
    BY <1>1, EndedCall
  <1>3. CollectionsTypeOK'
    <2>1. c.answer \in SUBSET CollectionIds
      BY <1>1 DEF CollectionsInv, CollectionsTypeOK, ListCall
    <2>2. NoMembers \in [of : CollectionIds \cup {None}, rows : SUBSET MemberRows]
      BY DEF NoMembers
    <2> QED
      BY <1>1, <1>2, <2>1, <2>2 DEF CollectionsInv, CollectionsTypeOK
  <1>4. OneNewestEach'
    BY <1>1 DEF CollectionsInv, OneNewestEach
  <1>5. "replaced" \in unread' \/ (ReadExists' /\ ListComes' /\ MembersCome')
    <2>1. CASE "replaced" \in unread
      BY <1>1, <2>1
    <2>2. CASE ReadExists /\ ListComes /\ MembersCome
      BY <1>1, <1>2, <2>2, NewestListIsShelf DEF ReadExists, MembersCome
    <2> QED
      BY <2>1, <2>2 DEF CollectionsInv
  <1> QED
    BY <1>2, <1>3, <1>4, <1>5 DEF CollectionsInv

\* The list is shown, and the members of the active collection are asked for.
LEMMA ListAndMembersInv ==
  ASSUME CollectionsInv, NEW c \in listCalls, ListReturns(c), c.newest, c.refresh,
         active # None, active \in c.answer
  PROVE  CollectionsInv'
  <1>1. /\ c.answer # None /\ listCalls' = listCalls \ {c} /\ listed' = c.answer
        /\ unread' = unread \ {"list"} /\ UNCHANGED <<shelf, view, announced, active, shown>>
        /\ LoadMembers(active, c.command, memberCalls)
    BY DEF ListReturns, AfterList
  <1>2. /\ active \in CollectionIds /\ c.command \in BOOLEAN
        /\ c.answer \in SUBSET CollectionIds /\ memberCalls \subseteq MemberCall
    BY <1>1 DEF CollectionsInv, CollectionsTypeOK, ListCall
  <1>3. c.command => \A d \in memberCalls : ~d.command
    BY DEF CollectionsInv, OneCommand
  <1>4. \A d, e \in memberCalls : d.command /\ e.command => d = e
    BY DEF CollectionsInv, OneCommand
  <1>5. /\ memberCalls' \subseteq MemberCall
        /\ \A d \in memberCalls' : d.newest => d.of = active /\ d.answer = None
        /\ \A d, e \in memberCalls' : d.newest /\ e.newest => d = e
        /\ \A d, e \in memberCalls' : d.command /\ e.command => d = e
        /\ \E d \in memberCalls' : d.newest /\ d.of = active
        /\ (\E d \in memberCalls' : d.command) <=> (c.command \/ \E d \in memberCalls : d.command)
    BY <1>1, <1>2, <1>3, <1>4, LoadFacts
  <1>6. CollectionsTypeOK'
    BY <1>1, <1>2, <1>5 DEF CollectionsInv, CollectionsTypeOK
  <1>7. Handling' <=> Handling
    BY <1>1, <1>5 DEF Handling
  <1>8. OneCommand'
    <2>1. \A d \in listCalls', e \in memberCalls' : ~(d.command /\ e.command)
      BY <1>1, <1>5 DEF CollectionsInv, OneCommand
    <2> QED
      BY <1>1, <1>5, <1>7, <2>1 DEF CollectionsInv, OneCommand
  <1>9. OneNewestEach'
    BY <1>1, <1>5 DEF CollectionsInv, OneNewestEach
  <1>10. "replaced" \in unread' \/ (ReadExists' /\ ListComes' /\ MembersCome')
    <2>1. CASE "replaced" \in unread
      BY <1>1, <2>1
    <2>2. CASE ReadExists /\ ListComes /\ MembersCome
      <3>1. Waiting' <=> Waiting
        BY <1>1, <1>7 DEF Waiting
      <3>2. ListComes' /\ ReadExists'
        BY <1>1, <2>2, <3>1, NewestListIsShelf DEF ReadExists
      <3>3. MembersCome'
        BY <1>1, <1>5 DEF MembersCome, Accepted
      <3> QED
        BY <3>2, <3>3
    <2> QED
      BY <2>1, <2>2 DEF CollectionsInv
  <1> QED
    BY <1>1, <1>6, <1>8, <1>9, <1>10 DEF CollectionsInv

LEMMA ListReturnsInv ==
  ASSUME CollectionsInv, NEW c \in listCalls, ListReturns(c)
  PROVE  CollectionsInv'
  <1>1. CASE ~c.newest
    BY <1>1, OldListInv
  <1>2. CASE c.newest /\ ~c.refresh
    <2>1. active = None /\ shown = NoMembers
      BY <1>2 DEF CollectionsInv, OneNewestEach
    <2>2. Acknowledge(c) /\ UNCHANGED <<active, shown, memberCalls>>
      BY <1>2 DEF ListReturns
    <2> QED
      BY <1>2, <2>1, <2>2, ListAloneInv
  <1>3. CASE c.newest /\ c.refresh /\ active = None
    <2>1. AfterList(c) /\ shown = NoMembers
      BY <1>3 DEF ListReturns, CollectionsInv
    <2>2. CASE Acknowledge(c) /\ UNCHANGED <<active, shown, memberCalls>>
      BY <1>3, <2>1, <2>2, ListAloneInv
    <2>3. CASE active \in c.answer
      <3>1. c.answer # None /\ c.answer \in SUBSET CollectionIds
        BY DEF ListReturns, CollectionsInv, CollectionsTypeOK, ListCall
      <3> QED
        BY <1>3, <2>3, <3>1, ShelfAssumption
    <2> QED
      BY <1>3, <2>1, <2>2, <2>3 DEF AfterList
  <1>4. CASE c.newest /\ c.refresh /\ active \notin c.answer \cup {None}
    <2>1. active' = None /\ shown' = NoMembers /\ Acknowledge(c) /\ UNCHANGED memberCalls
      BY <1>4 DEF ListReturns, AfterList
    <2> QED
      BY <1>4, <2>1, ListAloneInv
  <1>5. CASE c.newest /\ c.refresh /\ active # None /\ active \in c.answer
    BY <1>5, ListAndMembersInv
  <1> QED
    BY <1>1, <1>2, <1>3, <1>4, <1>5

LEMMA CollectionsNextInv == CollectionsInv /\ [CollectionsNext]_collectionVars => CollectionsInv'
  <1> SUFFICES ASSUME CollectionsInv, [CollectionsNext]_collectionVars PROVE CollectionsInv'
    OBVIOUS
  <1>1. CASE RefreshOnCommand
    BY <1>1, AskListInv DEF RefreshOnCommand, CollectionsInv, CollectionsTypeOK
  <1>2. ASSUME NEW s \in Shelves, VisitDiscovery(s) PROVE CollectionsInv'
    <2>1. AskList(FALSE) /\ UNCHANGED <<announced, collectionUi, memberCalls, unread>>
          /\ shelf' \in Shelves /\ DOMAIN shelf \subseteq DOMAIN shelf'
      BY <1>2 DEF VisitDiscovery
    <2> QED
      BY <2>1, AskListInv
  <1>3. CASE UNCHANGED collectionVars
    BY <1>3 DEF collectionVars, collectionUi, CollectionsInv, CollectionsTypeOK, OneCommand,
                OneNewestEach, Handling, ReadExists, ListComes, MembersCome, Waiting, Refreshing, Accepted
  <1> QED
    BY <1>1, <1>2, <1>3, ApiChangesInv, LibraryReplacedInv, SelectCollectionInv, ClearCollectionInv,
       ReadMembersInv, MembersReturnInv, MembersFailInv, ReadListInv, ListReturnsInv, ListFailsInv,
       Zenon DEF CollectionsNext

\* The sidebar: what it lacks of the shelf is under way, announced, or could not be read.
THEOREM CollectionsInvariant == CollectionsSpec => []CollectionsInv
  BY CollectionsInitInv, CollectionsNextInv, PTL DEF CollectionsSpec

LEMMA CollectionsAreCurrent == CollectionsInv => CollectionsTypeOK /\ CollectionsCurrent
  <1> SUFFICES ASSUME CollectionsInv, announced = 0, listCalls = {}, memberCalls = {}, unread = {}
               PROVE  /\ listed = DOMAIN shelf
                      /\ active = None => shown.rows = {}
                      /\ active # None => shown = [of |-> active, rows |-> shelf[active]]
    BY DEF CollectionsCurrent, CollectionsInv
  <1>1. ~Waiting /\ ~Refreshing
    BY DEF Waiting, Refreshing
  <1>2. active = None => shown.rows = {}
    BY DEF CollectionsInv, NoMembers
  <1> QED
    BY <1>1, <1>2 DEF CollectionsInv, ListComes, MembersCome

-----------------------------------------------------------------------------
(***************************************************************************)
(* The order of numbers. A list in order is there for every finite set of  *)
(* them, and what is picked from a list keeps its order.                   *)
(***************************************************************************)

\* Finitely many numbers have ranks: how many of them are not larger.
LEMMA FiniteRanks ==
  ASSUME NEW ids \in SUBSET Nat, IsFiniteSet(ids)
  PROVE  \E rank \in [ids -> 1..Cardinality(ids)] :
           /\ \A x, y \in ids : x < y => rank[x] < rank[y]
           /\ \A k \in 1..Cardinality(ids) : \E x \in ids : rank[x] = k
  <1> DEFINE n == Cardinality(ids)
             upTo(x) == {y \in ids : y <= x}
             rank == [x \in ids |-> Cardinality(upTo(x))]
  <1>1. n \in Nat
    BY FS_CardinalityType
  <1>2. ASSUME NEW x \in ids PROVE IsFiniteSet(upTo(x)) /\ rank[x] \in 1..n
    <2>1. upTo(x) \in SUBSET ids /\ x \in upTo(x)
      OBVIOUS
    <2>2. IsFiniteSet(upTo(x)) /\ Cardinality(upTo(x)) \in Nat /\ Cardinality(upTo(x)) <= n
      BY <2>1, FS_Subset, FS_CardinalityType
    <2>3. Cardinality(upTo(x)) # 0
      BY <2>1, <2>2, FS_EmptySet
    <2> QED
      BY <1>1, <2>2, <2>3
  <1>3. ASSUME NEW x \in ids, NEW y \in ids, x < y PROVE rank[x] < rank[y]
    <2>1. \A z \in ids : (z <= x => z <= y) /\ y <= y /\ ~(y <= x)
      BY <1>3
    <2>2. upTo(x) \in SUBSET upTo(y) /\ y \in upTo(y) /\ y \notin upTo(x)
      BY <2>1
    <2>3. Cardinality(upTo(x)) <= Cardinality(upTo(y))
          /\ Cardinality(upTo(x)) # Cardinality(upTo(y))
      BY <1>2, <2>2, FS_Subset
    <2> QED
      BY <1>2, <2>3
  <1>4. rank \in Injection(ids, 1..n)
    <2>1. \A x, y \in ids : rank[x] = rank[y] => x = y
      BY <1>2, <1>3
    <2> QED
      BY <1>2, <2>1, Fun_IsInj
  <1>5. rank \in Surjection(ids, 1..n)
    BY <1>1, <1>4, FS_Injection, FS_Interval
  <1>6. rank \in [ids -> 1..n]
    BY <1>2
  <1> HIDE DEF rank
  <1>7. \A k \in 1..n : \E x \in ids : rank[x] = k
    BY <1>5, Fun_SurjectionProperties
  <1> QED
    BY <1>3, <1>6, <1>7

\* InOrder lists the numbers, each once, the smallest first.
LEMMA InOrderProperties ==
  ASSUME NEW ids \in SUBSET Nat, IsFiniteSet(ids)
  PROVE  /\ Cardinality(ids) \in Nat
         /\ InOrder(ids) \in [1..Cardinality(ids) -> ids]
         /\ \A a, b \in 1..Cardinality(ids) : a < b => InOrder(ids)[a] < InOrder(ids)[b]
         /\ \A x \in ids : \E k \in 1..Cardinality(ids) : InOrder(ids)[k] = x
  <1> DEFINE n == Cardinality(ids)
  <1>1. n \in Nat
    BY FS_CardinalityType
  <1>2. PICK rank \in [ids -> 1..n] :
          /\ \A x, y \in ids : x < y => rank[x] < rank[y]
          /\ \A k \in 1..n : \E x \in ids : rank[x] = k
    BY FiniteRanks
  <1> DEFINE s == [k \in 1..n |-> CHOOSE x \in ids : rank[x] = k]
  <1>3. ASSUME NEW k \in 1..n PROVE s[k] \in ids /\ rank[s[k]] = k
    <2>1. s[k] = CHOOSE x \in ids : rank[x] = k
      OBVIOUS
    <2> HIDE DEF s
    <2> QED
      BY <1>2, <2>1
  <1>4. ASSUME NEW a \in 1..n, NEW b \in 1..n, a < b PROVE s[a] < s[b]
    <2>1. s[a] \in Nat /\ s[b] \in Nat /\ rank[s[a]] = a /\ rank[s[b]] = b
      BY <1>3
    <2> HIDE DEF s
    <2>2. s[b] < s[a] => b < a
      BY <1>2, <1>3, <2>1
    <2>3. s[a] # s[b]
      BY <1>4, <2>1
    <2> QED
      BY <1>1, <1>4, <2>1, <2>2, <2>3
  <1>5. s \in [1..n -> ids]
    BY <1>3
  <1>6. /\ InOrder(ids) \in [1..n -> ids]
        /\ \A a, b \in 1..n : a < b => InOrder(ids)[a] < InOrder(ids)[b]
    <2> HIDE DEF s
    <2> QED
      BY <1>4, <1>5 DEF InOrder
  <1> DEFINE f == InOrder(ids)
  <1>7. f \in Surjection(1..n, ids)
    <2> HIDE DEF f
    <2>1. ASSUME NEW a \in 1..n, NEW b \in 1..n, f[a] = f[b] PROVE a = b
      <3>1. f \in [1..n -> ids] /\ a \in Nat /\ b \in Nat
        BY <1>1, <1>6, <2>1 DEF f
      <3>2. f[a] \in Nat
        BY <2>1, <3>1
      <3>3. ~(a < b) /\ ~(b < a)
        BY <1>6, <2>1, <3>1, <3>2 DEF f
      <3> QED
        BY <3>1, <3>3
    <2>2. f \in Injection(1..n, ids)
      BY <1>6, <2>1, Fun_IsInj DEF f
    <2>3. Cardinality(1..n) = n
      BY <1>1, FS_Interval
    <2> QED
      BY <2>2, <2>3, FS_Injection
  <1> QED
    BY <1>1, <1>6, <1>7, Fun_SurjectionProperties

\* What is picked from a list are the members at the places, in their order.
LEMMA PickedProperties ==
  ASSUME NEW S, NEW rows \in Seq(S), NEW places \in SUBSET (DOMAIN rows)
  PROVE  /\ Picked(rows, places) \in Seq(S)
         /\ Len(Picked(rows, places)) \in Nat /\ Len(Picked(rows, places)) <= Len(rows)
         /\ \E order \in [DOMAIN Picked(rows, places) -> places] :
              /\ \A k \in DOMAIN Picked(rows, places) : Picked(rows, places)[k] = rows[order[k]]
              /\ \A j, k \in DOMAIN Picked(rows, places) : j < k => order[j] < order[k]
              /\ \A p \in places : \E k \in DOMAIN Picked(rows, places) : order[k] = p
  <1> DEFINE n == Cardinality(places)
             order == InOrder(places)
             picked == Picked(rows, places)
  <1>1. DOMAIN rows = 1..Len(rows) /\ Len(rows) \in Nat
    OBVIOUS
  <1>2. places \in SUBSET Nat /\ IsFiniteSet(places) /\ n <= Len(rows)
    <2>1. IsFiniteSet(DOMAIN rows) /\ Cardinality(DOMAIN rows) = Len(rows)
      <3>1. PICK m \in Nat : m = Len(rows)
        BY <1>1
      <3>2. IsFiniteSet(1..m) /\ Cardinality(1..m) = IF 1 > m THEN 0 ELSE m - 1 + 1
        BY FS_Interval
      <3>3. Cardinality(1..m) = m
        BY <3>2
      <3> QED
        BY <1>1, <3>1, <3>2, <3>3
    <2> QED
      BY <1>1, <2>1, FS_Subset
  <1>3. /\ n \in Nat /\ order \in [1..n -> places]
        /\ \A j, k \in 1..n : j < k => order[j] < order[k]
        /\ \A p \in places : \E k \in 1..n : order[k] = p
    BY <1>2, InOrderProperties
  <1>4. picked = [k \in 1..n |-> rows[order[k]]]
    BY DEF Picked
  <1> HIDE DEF n, order, picked
  <1>5. \A k \in 1..n : rows[order[k]] \in S
    BY <1>1, <1>3
  <1>6. picked \in Seq(S) /\ Len(picked) = n /\ DOMAIN picked = 1..n
    BY <1>3, <1>4, <1>5
  <1>7. /\ \A k \in DOMAIN picked : picked[k] = rows[order[k]]
        /\ order \in [DOMAIN picked -> places]
        /\ \A j, k \in DOMAIN picked : j < k => order[j] < order[k]
        /\ \A p \in places : \E k \in DOMAIN picked : order[k] = p
    BY <1>3, <1>4, <1>6
  <1> QED
    BY <1>2, <1>3, <1>6, <1>7 DEF picked

-----------------------------------------------------------------------------
(***************************************************************************)
(* The rows of the MIDI list. The calls are answered in the order they were*)
(* sent, so while none that replaces the rows is under way, and no page was*)
(* fetched across one, the rows are the first of what matches, and a page  *)
(* that was sent for follows them.                                         *)
(***************************************************************************)

Distinct(s) == \A i, j \in 1..Len(s) : s[i] = s[j] => i = j

\* Numbers from one on are in order as they are.
LEMMA OrderOfInterval ==
  ASSUME NEW n \in Nat
  PROVE  Cardinality(1..n) = n /\ \A k \in 1..n : InOrder(1..n)[k] = k
  <1>1. IsFiniteSet(1..n) /\ Cardinality(1..n) = IF 1 > n THEN 0 ELSE n - 1 + 1
    BY FS_Interval
  <1>2. Cardinality(1..n) = n
    BY <1>1
  <1>3. 1..n \in SUBSET Nat
    OBVIOUS
  <1>4. PICK s : s = InOrder(1..n)
    OBVIOUS
  <1>5. /\ s \in [1..n -> 1..n] /\ \A a, b \in 1..n : a < b => s[a] < s[b]
        /\ \A x \in 1..n : \E k \in 1..n : s[k] = x
    BY <1>1, <1>2, <1>3, <1>4, InOrderProperties
  <1>6. ASSUME NEW m \in 1..n, s[m] # m, \A k \in 1..n : k < m => s[k] = k PROVE FALSE
    <2>1. PICK j \in 1..n : s[j] = m
      BY <1>5
    <2>2. s[m] \in 1..n /\ m \in Nat /\ j \in Nat
      BY <1>5
    <2>3. ~(j < m)
      BY <1>6, <2>1, <2>2
    <2>4. m < j /\ s[m] < m
      <3>1. j # m
        BY <1>6, <2>1
      <3>2. m < j
        BY <2>2, <2>3, <3>1
      <3> QED
        BY <1>5, <2>1, <3>2
    <2>5. s[m] < m => s[s[m]] < s[m]
      BY <1>5, <2>2
    <2>6. s[s[m]] = s[m]
      BY <1>6, <2>2, <2>4
    <2> QED
      BY <2>2, <2>4, <2>5, <2>6
  <1>7. \A k \in 1..n : s[k] = k
    <2> DEFINE odd == {k \in 1..n : s[k] # k}
    <2> SUFFICES ASSUME odd # {} PROVE FALSE
      OBVIOUS
    <2>1. odd \in SUBSET Nat
      OBVIOUS
    <2>2. PICK m \in odd : \A k \in odd : m <= k
      BY <2>1, SmallestNumber
    <2>3. \A k \in 1..n : k < m => s[k] = k
      BY <2>2
    <2> QED
      BY <1>6, <2>2, <2>3
  <1> QED
    BY <1>2, <1>4, <1>7

\* The first of a list, as many as there are.
LEMMA FirstOfProperties ==
  ASSUME NEW S, NEW seq \in Seq(S), NEW n \in Nat
  PROVE  /\ FirstOf(seq, n) \in Seq(S)
         /\ Len(FirstOf(seq, n)) = IF n < Len(seq) THEN n ELSE Len(seq)
         /\ \A k \in 1..Len(FirstOf(seq, n)) : k \in 1..Len(seq) /\ FirstOf(seq, n)[k] = seq[k]
  <1>1. PICK m \in Nat : m = IF n < Len(seq) THEN n ELSE Len(seq)
    OBVIOUS
  <1>2. FirstOf(seq, n) = SubSeq(seq, 1, m)
    BY <1>1 DEF FirstOf
  <1>3. m <= Len(seq) /\ Len(seq) \in Nat
    BY <1>1
  <1>4. /\ SubSeq(seq, 1, m) \in Seq(S) /\ Len(SubSeq(seq, 1, m)) = m
        /\ \A k \in 1..m : SubSeq(seq, 1, m)[k] = seq[k]
    BY <1>3
  <1> QED
    BY <1>1, <1>2, <1>3, <1>4

\* Files in their order are each there once.
LEMMA OrderIsDistinct ==
  ASSUME MidiTypeOK, NEW files \in SUBSET midiDb
  PROVE  InOrder(files) \in Seq(Midis) /\ Distinct(InOrder(files))
  <1>1. files \in SUBSET Nat /\ IsFiniteSet(files) /\ files \subseteq Midis
    <2>1. files \in SUBSET Midis /\ Midis \subseteq Nat /\ IsFiniteSet(Midis)
      BY MidiAssumption DEF MidiTypeOK
    <2>2. IsFiniteSet(files)
      BY <2>1, FS_Subset
    <2> QED
      BY <2>1, <2>2
  <1>2. PICK s : s = InOrder(files)
    OBVIOUS
  <1>3. PICK n \in Nat : n = Cardinality(files)
    BY <1>1, FS_CardinalityType
  <1>4. s \in [1..n -> files] /\ \A a, b \in 1..n : a < b => s[a] < s[b]
    BY <1>1, <1>2, <1>3, InOrderProperties
  <1>5. s \in Seq(Midis) /\ Len(s) = n
    <2>1. s \in [1..n -> Midis]
      BY <1>1, <1>4
    <2> QED
      BY <2>1
  <1>6. ASSUME NEW i \in 1..n, NEW j \in 1..n, s[i] = s[j] PROVE i = j
    <2>1. s[i] \in Nat
      BY <1>1, <1>4
    <2>2. ~(i < j) /\ ~(j < i)
      BY <1>4, <1>6, <2>1
    <2> QED
      BY <2>2
  <1> QED
    BY <1>2, <1>5, <1>6 DEF Distinct

LEMMA FirstIsDistinct ==
  ASSUME NEW seq \in Seq(Midis), Distinct(seq), NEW n \in Nat
  PROVE  FirstOf(seq, n) \in Seq(Midis) /\ Distinct(FirstOf(seq, n))
  BY FirstOfProperties DEF Distinct

\* A page: what matches, from a place on.
LEMMA MidiPageProperties ==
  ASSUME MidiTypeOK, NEW f \in MidiFilters, NEW at \in Nat
  PROVE  /\ MatchingMidis(f) \in Seq(Midis) /\ Distinct(MatchingMidis(f))
         /\ MidiPage(f, at) \in Seq(Midis) /\ Distinct(MidiPage(f, at))
         /\ \A k \in 1..Len(MidiPage(f, at)) :
              at + k \in 1..Len(MatchingMidis(f)) /\ MidiPage(f, at)[k] = MatchingMidis(f)[at + k]
         /\ Len(MidiPage(f, at)) \in Nat /\ Len(MidiPage(f, at)) <= MidiLimit
         /\ at + Len(MidiPage(f, at)) < Len(MatchingMidis(f)) => Len(MidiPage(f, at)) = MidiLimit
  <1>1. PICK all : all = MatchingMidis(f)
    OBVIOUS
  <1>2. all \in Seq(Midis) /\ Distinct(all)
    BY <1>1, OrderIsDistinct DEF MatchingMidis
  <1>3. PICK n \in Nat : n = Len(all)
    BY <1>2
  <1>4. PICK rest : rest = SubSeq(all, at + 1, n)
    OBVIOUS
  <1>5. PICK r \in Nat : r = IF at < n THEN n - at ELSE 0
    <2>1. (IF at < n THEN n - at ELSE 0) \in Nat
      OBVIOUS
    <2> QED
      BY <2>1
  <1>6. rest \in Seq(Midis) /\ Len(rest) = r /\ \A k \in 1..r : at + k \in 1..n /\ rest[k] = all[at + k]
    <2>1. CASE at < n
      <3>1. at + 1 \in 1..n + 1 /\ n \in at..n /\ n - (at + 1) + 1 = r
        BY <1>5, <2>1
      <3>2. /\ SubSeq(all, at + 1, n) \in Seq(Midis)
            /\ Len(SubSeq(all, at + 1, n)) = IF at + 1 <= n THEN n - (at + 1) + 1 ELSE 0
            /\ \A i \in 1..n - (at + 1) + 1 : SubSeq(all, at + 1, n)[i] = all[at + 1 + i - 1]
        <4>1. \A i \in at + 1..n : all[i] \in Midis
          BY <1>2, <1>3
        <4>2. at + 1 \in Int /\ n \in Int
          OBVIOUS
        <4> QED
          BY <4>1, <4>2, SubSeqProperties
      <3>3. Len(rest) = r /\ rest \in Seq(Midis) /\ \A i \in 1..r : rest[i] = all[at + 1 + i - 1]
        BY <1>4, <2>1, <3>1, <3>2
      <3>4. \A i \in 1..r : at + i \in 1..n /\ at + 1 + i - 1 = at + i
        BY <1>5, <2>1
      <3> QED
        BY <3>3, <3>4
    <2>2. CASE ~(at < n)
      <3>1. rest = << >>
        BY <1>4, <2>2
      <3> QED
        BY <1>5, <2>2, <3>1
    <2> QED
      BY <2>1, <2>2
  <1>7. PICK page : page = FirstOf(rest, MidiLimit)
    OBVIOUS
  <1>8. page = MidiPage(f, at)
    BY <1>1, <1>3, <1>4, <1>7 DEF MidiPage
  <1>9. /\ page \in Seq(Midis) /\ Len(page) = IF MidiLimit < r THEN MidiLimit ELSE r
        /\ \A k \in 1..Len(page) : k \in 1..r /\ page[k] = rest[k]
    BY <1>6, <1>7, FirstOfProperties, MidiAssumption
  <1>10. \A k \in 1..Len(page) : at + k \in 1..n /\ page[k] = all[at + k]
    BY <1>6, <1>9
  <1>11. Distinct(page)
    <2> SUFFICES ASSUME NEW i \in 1..Len(page), NEW j \in 1..Len(page), page[i] = page[j]
                 PROVE  i = j
      BY DEF Distinct
    <2>1. at + i = at + j
      BY <1>2, <1>3, <1>10 DEF Distinct
    <2> QED
      BY <2>1
  <1>12. Len(page) \in Nat /\ Len(page) <= MidiLimit /\ (at + Len(page) < n => Len(page) = MidiLimit)
    BY <1>5, <1>9, MidiAssumption
  <1> QED
    BY <1>1, <1>2, <1>3, <1>8, <1>9, <1>10, <1>11, <1>12

\* What is fresh is not there yet, and it is everything if nothing was there.
LEMMA FreshProperties ==
  ASSUME NEW rows \in Seq(Midis), Distinct(rows), NEW old \in Seq(Midis)
  PROVE  /\ Fresh(rows, old) \in Seq(Midis) /\ Distinct(Fresh(rows, old))
         /\ \A i \in 1..Len(Fresh(rows, old)) : \A k \in 1..Len(old) : old[k] # Fresh(rows, old)[i]
         /\ (\A j \in 1..Len(rows), k \in 1..Len(old) : old[k] # rows[j]) => Fresh(rows, old) = rows
  <1>1. PICK n \in Nat : n = Len(rows)
    OBVIOUS
  <1>2. PICK places : places = {j \in 1..n : \A k \in 1..Len(old) : old[k] # rows[j]}
    OBVIOUS
  <1>3. places \in SUBSET (DOMAIN rows) /\ Fresh(rows, old) = Picked(rows, places)
    <2>1. DOMAIN rows = 1..n /\ DOMAIN old = 1..Len(old)
      BY <1>1
    <2>2. places = {j \in DOMAIN rows : \A k \in DOMAIN old : old[k] # rows[j]}
      BY <1>2, <2>1
    <2> QED
      BY <2>2 DEF Fresh
  <1>4. PICK fresh : fresh = Fresh(rows, old)
    OBVIOUS
  <1>5. /\ fresh \in Seq(Midis)
        /\ \E order \in [DOMAIN fresh -> places] :
             /\ \A k \in DOMAIN fresh : fresh[k] = rows[order[k]]
             /\ \A j, k \in DOMAIN fresh : j < k => order[j] < order[k]
    BY <1>3, <1>4, PickedProperties
  <1>6. PICK m \in Nat : m = Len(fresh)
    BY <1>5
  <1>7. PICK order \in [1..m -> places] :
          /\ \A k \in 1..m : fresh[k] = rows[order[k]]
          /\ \A j, k \in 1..m : j < k => order[j] < order[k]
    <2>1. DOMAIN fresh = 1..m
      BY <1>5, <1>6
    <2> QED
      BY <1>5, <2>1, Zenon
  <1>8. \A k \in 1..m : order[k] \in 1..n
    BY <1>2, <1>7
  <1>9. ASSUME NEW i \in 1..m, NEW j \in 1..m, fresh[i] = fresh[j] PROVE i = j
    <2>1. order[i] = order[j]
      BY <1>1, <1>7, <1>8, <1>9 DEF Distinct
    <2>2. ~(i < j) /\ ~(j < i)
      BY <1>7, <1>8, <2>1
    <2> QED
      BY <2>2
  <1>10. \A i \in 1..m : \A k \in 1..Len(old) : old[k] # fresh[i]
    BY <1>2, <1>7
  <1>11. ASSUME \A j \in 1..n, k \in 1..Len(old) : old[k] # rows[j] PROVE fresh = rows
    <2>1. places = 1..n
      BY <1>2, <1>11
    <2>2. Cardinality(places) = n /\ \A k \in 1..n : InOrder(places)[k] = k
      BY <2>1, OrderOfInterval
    <2>3. fresh = [k \in 1..n |-> rows[InOrder(places)[k]]]
      BY <1>3, <1>4, <2>2 DEF Picked
    <2>4. fresh = [k \in 1..n |-> rows[k]]
      BY <2>2, <2>3
    <2>5. rows = [k \in 1..n |-> rows[k]]
      BY <1>1
    <2> QED
      BY <2>4, <2>5
  <1> QED
    BY <1>1, <1>4, <1>5, <1>6, <1>9, <1>10, <1>11 DEF Distinct

\* The files the calls are about are those of the library.
CallsPlaced ==
  \A k \in 1..Len(midiCalls) :
    midiCalls[k].kind \in {"row", "around", "rowPage"} => midiCalls[k].at \in Midis

MidiTyped == MidiTypeOK /\ CallsPlaced /\ Distinct(midis)

PagesTyped ==
  /\ midis \in Seq(Midis) /\ Distinct(midis) /\ midiOffset \in Nat
  /\ lastCount \in Nat \cup {None} /\ canMoreMidi \in BOOLEAN /\ canPreviousMidi \in BOOLEAN

CallsTyped == midiCalls \in Seq(MidiCall) /\ CallsPlaced

ChoicesTyped ==
  /\ midiDb \subseteq Midis /\ midiFilter \in MidiFilters
  /\ selectedMidi \in Midis \cup {None} /\ doomed \in Midis \cup {None}
  /\ trashing \in {"no", "selected", "other"}

MarksTyped == loadingMore \in BOOLEAN /\ loadingPrevious \in BOOLEAN /\ astrayMidi \in BOOLEAN

LEMMA MidiTypedParts ==
  MidiTyped <=> PagesTyped /\ CallsTyped /\ ChoicesTyped /\ MarksTyped
  BY DEF MidiTyped, MidiTypeOK, PagesTyped, CallsTyped, ChoicesTyped, MarksTyped

LEMMA MidiTypedPartsNext ==
  PagesTyped' /\ CallsTyped' /\ ChoicesTyped' /\ MarksTyped' => MidiTyped'
  <1> SUFFICES ASSUME PagesTyped', CallsTyped', ChoicesTyped', MarksTyped' PROVE MidiTyped'
    OBVIOUS
  <1>1. {canMoreMidi', canPreviousMidi', loadingMore', loadingPrevious', astrayMidi'} \subseteq BOOLEAN
    BY Zenon DEF PagesTyped, MarksTyped
  <1> QED
    BY <1>1 DEF MidiTyped, MidiTypeOK, PagesTyped, CallsTyped, ChoicesTyped

LEMMA MidiInitTyped == MidiInit => MidiTyped
  <1> SUFFICES ASSUME MidiInit PROVE MidiTyped
    OBVIOUS
  <1>1. PICK c : c = MidiCallOf("search", None, 0)
    OBVIOUS
  <1>2. c \in MidiCall /\ c.kind = "search"
    BY <1>1, MidiAssumption DEF MidiCallOf, MidiCall
  <1>3. midiCalls \in Seq(MidiCall) /\ Len(midiCalls) = 1 /\ midiCalls[1] = c
    BY <1>1, <1>2 DEF MidiInit
  <1>4. CallsTyped
    BY <1>2, <1>3 DEF CallsTyped, CallsPlaced
  <1>5. PagesTyped
    <2>1. midis = << >> /\ midiOffset = 0 /\ lastCount = None /\ canMoreMidi = TRUE /\ canPreviousMidi = FALSE
      BY DEF MidiInit
    <2>2. midis \in Seq(Midis) /\ Distinct(midis)
      BY <2>1 DEF Distinct
    <2> QED
      BY <2>1, <2>2 DEF PagesTyped
  <1>6. ChoicesTyped /\ MarksTyped
    BY MidiAssumption DEF MidiInit, ChoicesTyped, MarksTyped
  <1> QED
    BY <1>4, <1>5, <1>6, MidiTypedParts

\* A call that is sent, and the head that leaves.
LEMMA MidiAskTyped ==
  ASSUME MidiTyped, NEW kind, NEW f \in MidiFilters, NEW at \in Nat, AskMidi(kind, f, at),
         kind \in {"search", "more", "previous", "row", "trash"}, kind = "row" => at \in Midis
  PROVE  CallsTyped'
  <1>1. PICK c : c = MidiCallOf(kind, f, at)
    OBVIOUS
  <1>2. c \in MidiCall /\ c.kind = kind /\ c.at = at
    BY <1>1 DEF MidiCallOf, MidiCall
  <1>3. midiCalls \in Seq(MidiCall) /\ CallsPlaced
    BY DEF MidiTyped, MidiTypeOK
  <1>4. PICK n \in Nat : n = Len(midiCalls)
    BY <1>3
  <1>5. /\ midiCalls' \in Seq(MidiCall) /\ Len(midiCalls') = n + 1
        /\ \A k \in 1..n : midiCalls'[k] = midiCalls[k]
        /\ midiCalls'[n + 1] = c
    BY <1>1, <1>2, <1>3, <1>4 DEF AskMidi
  <1>6. \A k \in 1..n + 1 : k \in 1..n \/ k = n + 1
    BY <1>4
  <1>7. \A k \in 1..n + 1 : midiCalls'[k].kind \in {"row", "around", "rowPage"} => midiCalls'[k].at \in Midis
    BY <1>2, <1>3, <1>4, <1>5, <1>6 DEF CallsPlaced
  <1> QED
    BY <1>5, <1>7 DEF CallsTyped, CallsPlaced

LEMMA MidiHeadTyped ==
  ASSUME MidiTyped, midiCalls # << >>
  PROVE  /\ Next1 \in MidiCall /\ Next1.filter \in MidiFilters /\ Next1.at \in Nat
         /\ Next1.kind \in {"row", "around", "rowPage"} => Next1.at \in Midis
         /\ midiCalls' = Tail(midiCalls) => CallsTyped'
         /\ \A c \in MidiCall :
              /\ midiCalls' = Append(Tail(midiCalls), c)
              /\ c.kind \in {"row", "around", "rowPage"} => c.at \in Midis
              => CallsTyped'
  <1>1. midiCalls \in Seq(MidiCall) /\ CallsPlaced
    BY DEF MidiTyped, MidiTypeOK
  <1>2. PICK n \in Nat : n = Len(midiCalls)
    BY <1>1
  <1>3. n > 0 /\ Next1 = midiCalls[1] /\ Next1 \in MidiCall
    BY <1>1, <1>2 DEF Next1
  <1>4. Next1.filter \in MidiFilters /\ Next1.at \in Nat
    BY <1>3 DEF MidiCall
  <1>5. Next1.kind \in {"row", "around", "rowPage"} => Next1.at \in Midis
    BY <1>1, <1>2, <1>3 DEF CallsPlaced
  <1>6. ASSUME midiCalls' = Tail(midiCalls) PROVE CallsTyped'
    <2>1. /\ midiCalls' \in Seq(MidiCall) /\ Len(midiCalls') = n - 1
          /\ \A i \in 1..n - 1 : midiCalls'[i] = midiCalls[i + 1]
      BY <1>1, <1>2, <1>3, <1>6, QueueAdvances
    <2>2. \A i \in 1..n - 1 : i + 1 \in 1..n
      BY <1>2
    <2> QED
      BY <1>1, <1>2, <2>1, <2>2 DEF CallsTyped, CallsPlaced
  <1>7. ASSUME NEW c \in MidiCall, midiCalls' = Append(Tail(midiCalls), c),
               c.kind \in {"row", "around", "rowPage"} => c.at \in Midis
        PROVE  CallsTyped'
    <2>1. /\ midiCalls' \in Seq(MidiCall) /\ Len(midiCalls') = n
          /\ \A i \in 1..n - 1 : midiCalls'[i] = midiCalls[i + 1]
          /\ midiCalls'[n] = c
      BY <1>1, <1>2, <1>3, <1>7, QueueAdvances
    <2>2. \A i \in 1..n : i = n \/ (i \in 1..n - 1 /\ i + 1 \in 1..n)
      BY <1>2
    <2>3. \A k \in 1..n : midiCalls'[k].kind \in {"row", "around", "rowPage"} => midiCalls'[k].at \in Midis
      BY <1>1, <1>2, <1>7, <2>1, <2>2 DEF CallsPlaced
    <2> QED
      BY <2>1, <2>3 DEF CallsTyped, CallsPlaced
  <1> QED
    BY <1>3, <1>4, <1>5, <1>6, <1>7

LEMMA MidiUserTyped ==
  ASSUME MidiTyped, MidiUser
  PROVE  MidiTyped'
  <1> USE MidiAssumption
  <1>0. PagesTyped /\ CallsTyped /\ ChoicesTyped /\ MarksTyped
    BY MidiTypedParts
  <1>1. ASSUME NEW f \in MidiFilters, SearchMidis(f) PROVE MidiTyped'
    <2>1. CallsTyped'
      BY <1>1, MidiAskTyped DEF SearchMidis
    <2>2. PagesTyped' /\ ChoicesTyped' /\ MarksTyped'
      BY <1>0, <1>1 DEF SearchMidis, pageVars, PagesTyped, ChoicesTyped, MarksTyped
    <2> QED
      BY <2>1, <2>2, MidiTypedPartsNext
  <1>2. ASSUME NEW f \in MidiFilters, ChooseMidiDirectory(f) PROVE MidiTyped'
    <2>1. PICK g \in MidiFilters : g = midiFilter'
      BY <1>2 DEF ChooseMidiDirectory
    <2>2. AskMidi("search", g, 0)
      BY <1>2, <2>1 DEF ChooseMidiDirectory, AskMidi, MidiCallOf
    <2>3. CallsTyped'
      BY <2>2, MidiAskTyped
    <2>4. PagesTyped' /\ ChoicesTyped' /\ MarksTyped'
      BY <1>0, <1>2, <2>1 DEF ChooseMidiDirectory, pageVars, PagesTyped, ChoicesTyped, MarksTyped
    <2> QED
      BY <2>3, <2>4, MidiTypedPartsNext
  <1>3. CASE ShowMidis
    <2>1. AskMidi("search", midiFilter, 0) /\ midiFilter \in MidiFilters
      BY <1>0, <1>3 DEF ShowMidis, ChoicesTyped
    <2>2. CallsTyped'
      BY <2>1, MidiAskTyped
    <2>3. PagesTyped' /\ ChoicesTyped' /\ MarksTyped'
      BY <1>0, <1>3 DEF ShowMidis, pageVars, PagesTyped, ChoicesTyped, MarksTyped
    <2> QED
      BY <2>2, <2>3, MidiTypedPartsNext
  <1>4. CASE LoadMoreMidi
    <2>1. PICK at \in Nat : at = midiOffset + Len(midis)
      BY <1>0 DEF PagesTyped
    <2>2. AskMidi("more", midiFilter, at) /\ midiFilter \in MidiFilters
      BY <1>0, <1>4, <2>1 DEF LoadMoreMidi, ChoicesTyped
    <2>3. CallsTyped'
      BY <2>2, MidiAskTyped
    <2>4. PagesTyped' /\ ChoicesTyped'
      BY <1>0, <1>4 DEF LoadMoreMidi, PagesTyped, ChoicesTyped
    <2>5. MarksTyped'
      BY <1>0, <1>4, Zenon DEF LoadMoreMidi, MarksTyped
    <2> QED
      BY <2>3, <2>4, <2>5, MidiTypedPartsNext
  <1>5. CASE LoadPreviousMidi
    <2>1. PICK at \in Nat : at = OffsetBefore(midiOffset)
      <3>1. midiOffset \in Nat /\ MidiLimit \in Nat
        BY <1>0 DEF PagesTyped
      <3>2. OffsetBefore(midiOffset) \in Nat
        BY <3>1 DEF OffsetBefore
      <3> QED
        BY <3>2
    <2>2. AskMidi("previous", midiFilter, at) /\ midiFilter \in MidiFilters
      BY <1>0, <1>5, <2>1 DEF LoadPreviousMidi, ChoicesTyped
    <2>3. CallsTyped'
      BY <2>2, MidiAskTyped
    <2>4. PagesTyped' /\ ChoicesTyped'
      BY <1>0, <1>5 DEF LoadPreviousMidi, PagesTyped, ChoicesTyped
    <2>5. MarksTyped'
      BY <1>0, <1>5, Zenon DEF LoadPreviousMidi, MarksTyped
    <2> QED
      BY <2>3, <2>4, <2>5, MidiTypedPartsNext
  <1>6. ASSUME NEW id \in Midis, ClickMidiFile(id) PROVE MidiTyped'
    <2>1. PICK g \in MidiFilters : g = midiFilter'
      BY <1>0, <1>6 DEF ClickMidiFile, ChoicesTyped
    <2>2. AskMidi("row", g, id) /\ id \in Nat
      BY <1>6, <2>1 DEF ClickMidiFile, AskMidi, MidiCallOf
    <2>3. CallsTyped'
      BY <2>2, MidiAskTyped
    <2>4. PagesTyped' /\ ChoicesTyped'
      BY <1>0, <1>6, <2>1 DEF ClickMidiFile, PagesTyped, ChoicesTyped
    <2>5. MarksTyped'
      BY <1>0, <1>6, Zenon DEF ClickMidiFile, MarksTyped
    <2> QED
      BY <2>3, <2>4, <2>5, MidiTypedPartsNext
  <1>7. ASSUME NEW id \in Midis, SelectMidi(id) \/ RequestTrashMidi(id) PROVE MidiTyped'
    <2>1. PagesTyped' /\ CallsTyped' /\ ChoicesTyped' /\ MarksTyped'
      BY <1>0, <1>7 DEF SelectMidi, RequestTrashMidi, pageVars, PagesTyped, CallsTyped, CallsPlaced,
         ChoicesTyped, MarksTyped
    <2> QED
      BY <2>1, MidiTypedPartsNext
  <1>8. CASE CancelTrashMidi
    <2>1. PagesTyped' /\ CallsTyped' /\ ChoicesTyped' /\ MarksTyped'
      BY <1>0, <1>8 DEF CancelTrashMidi, pageVars, PagesTyped, CallsTyped, CallsPlaced,
         ChoicesTyped, MarksTyped
    <2> QED
      BY <2>1, MidiTypedPartsNext
  <1>9. CASE ConfirmTrashMidi
    <2>1. PagesTyped' /\ MarksTyped' /\ ChoicesTyped'
      BY <1>0, <1>9 DEF ConfirmTrashMidi, pageVars, PagesTyped, ChoicesTyped, MarksTyped
    <2>2. CallsTyped'
      <3>1. CASE UNCHANGED midiCalls
        BY <1>0, <3>1 DEF CallsTyped, CallsPlaced
      <3>2. CASE AskMidi("trash", midiFilter, doomed)
        <4>1. midiFilter \in MidiFilters /\ doomed \in Nat
          BY <1>0, <1>9 DEF ConfirmTrashMidi, ChoicesTyped
        <4> QED
          BY <3>2, <4>1, MidiAskTyped
      <3> QED
        BY <1>9, <3>1, <3>2 DEF ConfirmTrashMidi
    <2> QED
      BY <2>1, <2>2, MidiTypedPartsNext
  <1> QED
    BY <1>1, <1>2, <1>3, <1>4, <1>5, <1>6, <1>7, <1>8, <1>9 DEF MidiUser

LEMMA ReplacedTyped ==
  ASSUME NEW rows \in Seq(Midis), Distinct(rows), NEW at \in Nat, ReplacePage(rows, at)
  PROVE  PagesTyped'
  <1>1. canMoreMidi' \in BOOLEAN /\ canPreviousMidi' \in BOOLEAN
    <2>1. (Len(rows) >= MidiLimit) \in BOOLEAN /\ (at > 0) \in BOOLEAN
      OBVIOUS
    <2>2. canMoreMidi' = (Len(rows) >= MidiLimit) /\ canPreviousMidi' = (at > 0)
      BY Zenon DEF ReplacePage
    <2> QED
      BY <2>1, <2>2, Zenon
  <1>2. midis' = rows /\ midiOffset' = at /\ lastCount' = Len(rows) /\ Len(rows) \in Nat
    BY DEF ReplacePage
  <1>3. Distinct(midis')
    BY <1>2 DEF Distinct
  <1> QED
    BY <1>1, <1>2, <1>3 DEF PagesTyped

\* Rows of which no one is twice, and no one of both.
LEMMA JoinedDistinct ==
  ASSUME NEW a \in Seq(Midis), Distinct(a), NEW b \in Seq(Midis), Distinct(b),
         \A i \in 1..Len(a), k \in 1..Len(b) : a[i] # b[k]
  PROVE  a \o b \in Seq(Midis) /\ Distinct(a \o b)
  <1>1. PICK m \in Nat, n \in Nat : m = Len(a) /\ n = Len(b)
    OBVIOUS
  <1>2. PICK c : c = a \o b
    OBVIOUS
  <1>3. /\ c \in Seq(Midis) /\ Len(c) = m + n
        /\ \A i \in 1..m + n : c[i] = IF i <= m THEN a[i] ELSE b[i - m]
    BY <1>1, <1>2, ConcatProperties
  <1>4. ASSUME NEW i \in 1..m + n, NEW j \in 1..m + n, c[i] = c[j] PROVE i = j
    <2>1. CASE i <= m /\ j <= m
      <3>1. i \in 1..m /\ j \in 1..m /\ a[i] = a[j]
        BY <1>3, <1>4, <2>1
      <3> QED
        BY <1>1, <3>1 DEF Distinct
    <2>2. CASE ~(i <= m) /\ ~(j <= m)
      <3>1. i - m \in 1..n /\ j - m \in 1..n /\ b[i - m] = b[j - m]
        BY <1>3, <1>4, <2>2
      <3>2. i - m = j - m
        BY <1>1, <3>1 DEF Distinct
      <3> QED
        BY <3>2
    <2>3. CASE i <= m /\ ~(j <= m)
      <3>1. i \in 1..m /\ j - m \in 1..n /\ a[i] = b[j - m]
        BY <1>3, <1>4, <2>3
      <3> QED
        BY <1>1, <3>1
    <2>4. CASE ~(i <= m) /\ j <= m
      <3>1. j \in 1..m /\ i - m \in 1..n /\ a[j] = b[i - m]
        BY <1>3, <1>4, <2>4
      <3> QED
        BY <1>1, <3>1
    <2> QED
      BY <2>1, <2>2, <2>3, <2>4
  <1> QED
    BY <1>2, <1>3, <1>4 DEF Distinct

\* The page that a call asks for.
LEMMA PageOfHead ==
  ASSUME MidiTyped, NEW f \in MidiFilters, NEW at \in Nat
  PROVE  MidiPage(f, at) \in Seq(Midis) /\ Distinct(MidiPage(f, at))
  BY MidiPageProperties DEF MidiTyped

LEMMA MidiReturnTyped ==
  ASSUME MidiTyped, MidiReturn \/ MidiCallFails
  PROVE  MidiTyped'
  <1>0. PagesTyped /\ CallsTyped /\ ChoicesTyped /\ MarksTyped
    BY MidiTypedParts
  <1>1. midiCalls # << >>
    BY DEF MidiReturn, SearchMidiReturns, MoreMidiReturns, PreviousMidiReturns, RowReturns,
       RowPageReturns, TrashMidiReturns, TrashSearchReturns, MidiCallFails, Answered
  <1>2. PICK c : c = Next1
    OBVIOUS
  <1>3. /\ c \in MidiCall /\ c.filter \in MidiFilters /\ c.at \in Nat
        /\ c.kind \in {"row", "around", "rowPage"} => c.at \in Midis
        /\ midiCalls' = Tail(midiCalls) => CallsTyped'
        /\ \A d \in MidiCall :
             /\ midiCalls' = Append(Tail(midiCalls), d)
             /\ d.kind \in {"row", "around", "rowPage"} => d.at \in Midis
             => CallsTyped'
    BY <1>1, <1>2, MidiHeadTyped
  <1>4. PICK page : page = MidiPage(c.filter, 0)
    OBVIOUS
  <1>5. page \in Seq(Midis) /\ Distinct(page)
    BY <1>3, <1>4, PageOfHead
  <1>6. PICK rows : rows = MidiPage(c.filter, c.at)
    OBVIOUS
  <1>7. rows \in Seq(Midis) /\ Distinct(rows) /\ Len(rows) \in Nat
    BY <1>3, <1>6, PageOfHead
  <1>8. PICK fresh : fresh = Fresh(rows, midis)
    OBVIOUS
  <1>9. /\ fresh \in Seq(Midis) /\ Distinct(fresh)
        /\ \A i \in 1..Len(fresh) : \A k \in 1..Len(midis) : midis[k] # fresh[i]
    BY <1>0, <1>7, <1>8, FreshProperties DEF PagesTyped
  <1>10. CASE SearchMidiReturns
    <2>1. ReplacePage(page, 0)
      BY <1>2, <1>4, <1>10 DEF SearchMidiReturns
    <2>2. PagesTyped'
      BY <1>5, <2>1, ReplacedTyped
    <2>3. CallsTyped' /\ ChoicesTyped'
      BY <1>0, <1>3, <1>10 DEF SearchMidiReturns, ChoicesTyped
    <2>4. MarksTyped'
      BY <1>0, <1>10, Zenon DEF SearchMidiReturns, MarksTyped, Odd, PagesPending
    <2> QED
      BY <2>2, <2>3, <2>4, MidiTypedPartsNext
  <1>11. CASE MoreMidiReturns
    <2>1. /\ midis' = midis \o fresh /\ lastCount' = Len(rows) /\ midiOffset' = midiOffset
          /\ canMoreMidi' = (Len(rows) >= MidiLimit)
      BY <1>2, <1>6, <1>8, <1>11, Zenon DEF MoreMidiReturns, AppendMidis
    <2>2. canPreviousMidi' = (midiOffset > 0)
      BY <1>11, Zenon DEF MoreMidiReturns
    <2>3. (Len(rows) >= MidiLimit) \in BOOLEAN /\ (midiOffset > 0) \in BOOLEAN
      OBVIOUS
    <2>4. canMoreMidi' \in BOOLEAN /\ canPreviousMidi' \in BOOLEAN
      BY <2>1, <2>2, <2>3, Zenon
    <2>5. midis \o fresh \in Seq(Midis) /\ Distinct(midis \o fresh)
      BY <1>0, <1>9, JoinedDistinct DEF PagesTyped
    <2>6. PagesTyped'
      BY <1>0, <1>7, <2>1, <2>4, <2>5 DEF PagesTyped, Distinct
    <2>7. CallsTyped' /\ ChoicesTyped'
      BY <1>0, <1>3, <1>11 DEF MoreMidiReturns, ChoicesTyped
    <2>8. MarksTyped'
      BY <1>0, <1>11, Zenon DEF MoreMidiReturns, MarksTyped
    <2> QED
      BY <2>6, <2>7, <2>8, MidiTypedPartsNext
  <1>12. CASE PreviousMidiReturns
    <2>1. /\ midis' = fresh \o midis /\ lastCount' = Len(rows) /\ midiOffset' = c.at
          /\ canMoreMidi' = TRUE
      BY <1>2, <1>6, <1>8, <1>12 DEF PreviousMidiReturns
    <2>2. canPreviousMidi' = (c.at > 0)
      BY <1>2, <1>12, Zenon DEF PreviousMidiReturns
    <2>3. (c.at > 0) \in BOOLEAN
      OBVIOUS
    <2>4. canMoreMidi' \in BOOLEAN /\ canPreviousMidi' \in BOOLEAN
      BY <2>1, <2>2, <2>3, Zenon
    <2>5. fresh \o midis \in Seq(Midis) /\ Distinct(fresh \o midis)
      BY <1>0, <1>9, JoinedDistinct DEF PagesTyped
    <2>6. PagesTyped'
      BY <1>3, <1>7, <2>1, <2>4, <2>5 DEF PagesTyped, Distinct
    <2>7. CallsTyped' /\ ChoicesTyped'
      BY <1>0, <1>3, <1>12 DEF PreviousMidiReturns, ChoicesTyped
    <2>8. MarksTyped'
      BY <1>0, <1>12, Zenon DEF PreviousMidiReturns, MarksTyped
    <2> QED
      BY <2>6, <2>7, <2>8, MidiTypedPartsNext
  <1>13. CASE RowReturns
    <2>1. CallsTyped'
      <3>1. PICK d : d = MidiCallOf(IF c.filter = None THEN "around" ELSE "rowPage", c.filter, c.at)
        OBVIOUS
      <3>2. d \in MidiCall /\ d.at = c.at
        BY <1>3, <3>1 DEF MidiCallOf, MidiCall
      <3>3. c.at \in Midis
        BY <1>2, <1>3, <1>13 DEF RowReturns, Answered
      <3>4. midiCalls' = Tail(midiCalls) \/ midiCalls' = Append(Tail(midiCalls), d)
        BY <1>2, <1>13, <3>1 DEF RowReturns
      <3> QED
        BY <1>3, <3>2, <3>3, <3>4
    <2>2. PagesTyped' /\ ChoicesTyped' /\ MarksTyped'
      BY <1>0, <1>13 DEF RowReturns, pageVars, PagesTyped, ChoicesTyped, MarksTyped
    <2> QED
      BY <2>1, <2>2, MidiTypedPartsNext
  <1>14. CASE RowPageReturns
    <2>0. c.at \in Midis
      BY <1>2, <1>3, <1>14 DEF RowPageReturns, Answered
    <2>1. ASSUME c.kind = "around" PROVE PagesTyped'
      <3>1. PICK files : files = {m \in midiDb : m + HalfPage >= c.at}
        OBVIOUS
      <3>2. InOrder(files) \in Seq(Midis) /\ Distinct(InOrder(files))
        BY <3>1, OrderIsDistinct DEF MidiTyped
      <3>3. PICK near : near = AroundMidi(c.at)
        OBVIOUS
      <3>4. near \in Seq(Midis) /\ Distinct(near)
        BY <3>1, <3>2, <3>3, FirstIsDistinct, MidiAssumption DEF AroundMidi
      <3>5. PICK at : at = IF c.at > HalfPage THEN c.at - HalfPage ELSE 0
        OBVIOUS
      <3>6. at \in Nat
        <4>1. MidiLimit \in Nat /\ HalfPage = MidiLimit \div 2
          BY MidiAssumption DEF HalfPage
        <4>2. HalfPage \in Nat
          BY <4>1
        <4>3. (IF c.at > HalfPage THEN c.at - HalfPage ELSE 0) \in Nat
          BY <1>3, <4>2
        <4> QED
          BY <3>5, <4>3, Zenon
      <3>7. ReplacePage(near, at)
        BY <1>2, <1>14, <2>1, <3>3, <3>5, Zenon DEF RowPageReturns
      <3> QED
        BY <3>4, <3>6, <3>7, ReplacedTyped
    <2>2. ASSUME c.kind # "around" PROVE PagesTyped'
      <3>1. ReplacePage(page, 0)
        BY <1>2, <1>4, <1>14, <2>2 DEF RowPageReturns
      <3> QED
        BY <1>5, <3>1, ReplacedTyped
    <2>3. CallsTyped' /\ ChoicesTyped'
      BY <1>0, <1>2, <1>3, <1>14, <2>0 DEF RowPageReturns, ChoicesTyped
    <2>4. MarksTyped'
      BY <1>0, <1>14, Zenon DEF RowPageReturns, MarksTyped
    <2> QED
      BY <2>1, <2>2, <2>3, <2>4, MidiTypedPartsNext
  <1>15. CASE TrashMidiReturns
    <2>1. CallsTyped'
      <3>1. PICK d : d = MidiCallOf("trashSearch", c.filter, c.at)
        OBVIOUS
      <3>2. d \in MidiCall /\ d.kind = "trashSearch"
        BY <1>3, <3>1 DEF MidiCallOf, MidiCall
      <3>3. midiCalls' = Append(Tail(midiCalls), d)
        BY <1>2, <1>15, <3>1 DEF TrashMidiReturns
      <3> QED
        BY <1>3, <3>2, <3>3
    <2>2. PagesTyped' /\ ChoicesTyped' /\ MarksTyped'
      BY <1>0, <1>15 DEF TrashMidiReturns, PagesTyped, ChoicesTyped, MarksTyped
    <2> QED
      BY <2>1, <2>2, MidiTypedPartsNext
  <1>16. CASE TrashSearchReturns
    <2>1. ReplacePage(page, 0)
      BY <1>2, <1>4, <1>16 DEF TrashSearchReturns
    <2>2. PagesTyped'
      BY <1>5, <2>1, ReplacedTyped
    <2>3. CallsTyped' /\ ChoicesTyped'
      BY <1>0, <1>3, <1>16 DEF TrashSearchReturns, EndTrash, ChoicesTyped
    <2>4. MarksTyped'
      BY <1>0, <1>16, Zenon DEF TrashSearchReturns, MarksTyped, Odd, PagesPending
    <2> QED
      BY <2>2, <2>3, <2>4, MidiTypedPartsNext
  <1>17. CASE MidiCallFails
    <2>1. PagesTyped' /\ CallsTyped' /\ ChoicesTyped'
      BY <1>0, <1>3, <1>17 DEF MidiCallFails, EndTrash, PagesTyped, ChoicesTyped
    <2>2. loadingMore' \in BOOLEAN /\ loadingPrevious' \in BOOLEAN
      BY <1>0, <1>17 DEF MidiCallFails, MarksTyped
    <2>3. astrayMidi' \in BOOLEAN
      BY <1>17, Zenon DEF MidiCallFails
    <2> QED
      BY <2>1, <2>2, <2>3, MidiTypedPartsNext DEF MarksTyped
  <1> QED
    BY <1>10, <1>11, <1>12, <1>13, <1>14, <1>15, <1>16, <1>17 DEF MidiReturn

LEMMA MidiNextTyped == MidiTyped /\ [MidiNext]_midiVars => MidiTyped'
  <1> SUFFICES ASSUME MidiTyped, [MidiNext]_midiVars PROVE MidiTyped'
    OBVIOUS
  <1>1. CASE UNCHANGED midiVars
    BY <1>1 DEF midiVars, pageVars, MidiTyped, MidiTypeOK, CallsPlaced, Distinct
  <1> QED
    BY <1>1, MidiUserTyped, MidiReturnTyped DEF MidiNext

SureKinds == {"search", "around", "rowPage", "trash", "trashSearch"}

\* The rows are the first of what matches, and more are offered if there are more.
FirstShown ==
  /\ midiOffset = 0
  /\ midis = FirstOf(MatchingMidis(midiFilter), Len(midis))
  /\ Len(midis) < Len(MatchingMidis(midiFilter)) => MoreOffered /\ canMoreMidi

\* A page that was sent for follows the rows.
PagesFollow ==
  \A k \in 1..Len(midiCalls) :
    /\ midiCalls[k].kind # "previous"
    /\ midiCalls[k].kind = "more" => midiCalls[k].filter = midiFilter /\ midiCalls[k].at = Len(midis)

\* Nothing that is under way replaces the rows, but for a row that may not be there.
RowsStay == \A k \in 1..Len(midiCalls) : midiCalls[k].kind \notin SureKinds

MidiCurrentInv == ~astrayMidi /\ RowsStay => FirstShown /\ PagesFollow

LEMMA PrefixIsFirst ==
  ASSUME NEW S, NEW all \in Seq(S), NEW s \in Seq(S), Len(s) <= Len(all),
         \A k \in 1..Len(s) : s[k] = all[k]
  PROVE  s = FirstOf(all, Len(s))
  <1>1. PICK n \in Nat : n = Len(s)
    OBVIOUS
  <1>2. PICK t : t = FirstOf(all, n)
    OBVIOUS
  <1>3. t \in Seq(S) /\ Len(t) = n /\ \A k \in 1..n : t[k] = all[k]
    BY <1>1, <1>2, FirstOfProperties
  <1>4. t = s
    BY <1>1, <1>3
  <1> QED
    BY <1>1, <1>2, <1>4

LEMMA MidiInitCurrent == MidiInit => MidiCurrentInv
  <1> SUFFICES ASSUME MidiInit PROVE MidiCurrentInv
    OBVIOUS
  <1>1. PICK c : c = MidiCallOf("search", None, 0)
    OBVIOUS
  <1>2. Len(midiCalls) = 1 /\ midiCalls[1].kind = "search"
    BY <1>1 DEF MidiInit, MidiCallOf
  <1> QED
    BY <1>2 DEF MidiCurrentInv, RowsStay, SureKinds

LEMMA MidiRestCurrent ==
  ASSUME MidiCurrentInv, UNCHANGED <<midiDb, midiFilter, midis, midiOffset, lastCount, canMoreMidi,
                                     astrayMidi, midiCalls>>
  PROVE  MidiCurrentInv'
  BY DEF MidiCurrentInv, RowsStay, FirstShown, PagesFollow, MatchingMidis, MoreOffered

LEMMA MidiSentCurrent ==
  ASSUME MidiTyped, MidiCurrentInv, NEW kind, NEW f, NEW at, AskMidi(kind, f, at),
         kind \in SureKinds \/ astrayMidi'
           \/ /\ ~astrayMidi
              /\ UNCHANGED <<midiDb, midiFilter, midis, midiOffset, lastCount, canMoreMidi>>
              /\ RowsStay => /\ kind # "previous"
                             /\ kind = "more" => f = midiFilter /\ at = Len(midis)
  PROVE  MidiCurrentInv'
  <1>1. PICK c : c = MidiCallOf(kind, f, at)
    OBVIOUS
  <1>2. c.kind = kind /\ c.filter = f /\ c.at = at
    BY <1>1 DEF MidiCallOf
  <1>3. PICK n \in Nat : n = Len(midiCalls) /\ midiCalls \in Seq(MidiCall)
    BY DEF MidiTyped, MidiTypeOK
  <1>4. /\ Len(midiCalls') = n + 1 /\ midiCalls'[n + 1] = c
        /\ \A k \in 1..n : midiCalls'[k] = midiCalls[k]
    BY <1>1, <1>3 DEF AskMidi
  <1>5. \A k \in 1..n + 1 : k \in 1..n \/ k = n + 1
    BY <1>3
  <1>6. n + 1 \in 1..n + 1 /\ \A k \in 1..n : k \in 1..n + 1
    BY <1>3
  <1> SUFFICES ASSUME ~astrayMidi', RowsStay' PROVE FirstShown' /\ PagesFollow'
    BY DEF MidiCurrentInv
  <1>7. kind \notin SureKinds /\ RowsStay
    BY <1>2, <1>3, <1>4, <1>6 DEF RowsStay
  <1>8. /\ ~astrayMidi /\ kind # "previous" /\ (kind = "more" => f = midiFilter /\ at = Len(midis))
        /\ UNCHANGED <<midiDb, midiFilter, midis, midiOffset, lastCount, canMoreMidi>>
    BY <1>7
  <1>9. FirstShown /\ PagesFollow
    BY <1>7, <1>8 DEF MidiCurrentInv
  <1>10. FirstShown'
    BY <1>8, <1>9 DEF FirstShown, MatchingMidis, MoreOffered
  <1>11. ASSUME NEW k \in 1..n + 1
         PROVE  /\ midiCalls'[k].kind # "previous"
                /\ midiCalls'[k].kind = "more" =>
                     midiCalls'[k].filter = midiFilter' /\ midiCalls'[k].at = Len(midis')
    <2>1. CASE k \in 1..n
      BY <1>3, <1>4, <1>8, <1>9, <2>1 DEF PagesFollow
    <2>2. CASE k = n + 1
      BY <1>2, <1>4, <1>8, <2>2
    <2> QED
      BY <1>5, <2>1, <2>2
  <1> QED
    BY <1>4, <1>10, <1>11 DEF PagesFollow

LEMMA MidiUserCurrent ==
  ASSUME MidiTyped, MidiCurrentInv, MidiUser
  PROVE  MidiCurrentInv'
  <1>1. ASSUME NEW f \in MidiFilters, SearchMidis(f) PROVE MidiCurrentInv'
    BY <1>1, MidiSentCurrent DEF SearchMidis, SureKinds
  <1>2. ASSUME NEW f \in MidiFilters, ChooseMidiDirectory(f) PROVE MidiCurrentInv'
    <2>1. PICK g : g = midiFilter'
      OBVIOUS
    <2>2. AskMidi("search", g, 0)
      BY <1>2, <2>1 DEF ChooseMidiDirectory, AskMidi, MidiCallOf
    <2> QED
      BY <2>2, MidiSentCurrent DEF SureKinds
  <1>3. CASE ShowMidis
    BY <1>3, MidiSentCurrent DEF ShowMidis, SureKinds
  <1>4. ASSUME LoadMoreMidi \/ LoadPreviousMidi PROVE MidiCurrentInv'
    <2>0. DOMAIN midiCalls = 1..Len(midiCalls)
      BY DEF MidiTyped, MidiTypeOK
    <2>1. /\ astrayMidi' <=> astrayMidi \/ Replacing
          /\ UNCHANGED <<midiDb, midiFilter, midis, midiOffset, lastCount, canMoreMidi>>
      <3>1. astrayMidi' = (astrayMidi \/ Replacing)
        BY <1>4, Zenon DEF LoadMoreMidi, LoadPreviousMidi
      <3>2. astrayMidi' <=> astrayMidi \/ Replacing
        BY <3>1, Zenon
      <3> QED
        BY <1>4, <3>2 DEF LoadMoreMidi, LoadPreviousMidi
    <2>2. ~Replacing => RowsStay
      BY <2>0 DEF Replacing, Replaces, RowsStay, SureKinds
    <2>3. ~astrayMidi /\ ~Replacing => FirstShown
      BY <2>2 DEF MidiCurrentInv
    <2>4. CASE LoadMoreMidi
      <3>1. PICK at \in Nat : at = midiOffset + Len(midis)
        BY DEF MidiTyped, MidiTypeOK
      <3>2. AskMidi("more", midiFilter, at)
        BY <2>4, <3>1 DEF LoadMoreMidi
      <3>3. FirstShown => at = Len(midis)
        <4>1. Len(midis) \in Nat
          BY DEF MidiTyped, MidiTypeOK
        <4> QED
          BY <3>1, <4>1 DEF FirstShown
      <3>4. astrayMidi' \/ (~astrayMidi /\ at = Len(midis))
        BY <2>1, <2>3, <3>3
      <3> QED
        BY <2>1, <3>2, <3>4, MidiSentCurrent
    <2>5. CASE LoadPreviousMidi
      <3>1. midiOffset > 0 /\ midiOffset \in Nat
        BY <2>5 DEF LoadPreviousMidi, MidiTyped, MidiTypeOK
      <3>2. ~FirstShown
        BY <3>1 DEF FirstShown
      <3>3. PICK at : at = OffsetBefore(midiOffset)
        OBVIOUS
      <3>4. AskMidi("previous", midiFilter, at) /\ astrayMidi'
        BY <2>1, <2>3, <2>5, <3>2, <3>3 DEF LoadPreviousMidi
      <3> QED
        BY <3>4, MidiSentCurrent
    <2> QED
      BY <1>4, <2>4, <2>5
  <1>5. ASSUME NEW id \in Midis, ClickMidiFile(id) PROVE MidiCurrentInv'
    <2>1. PICK g : g = midiFilter'
      OBVIOUS
    <2>2. AskMidi("row", g, id)
      BY <1>5, <2>1 DEF ClickMidiFile, AskMidi, MidiCallOf
    <2>3. astrayMidi' <=> astrayMidi \/ midiFilter \in Directories
      <3>1. astrayMidi' = (astrayMidi \/ midiFilter \in Directories)
        BY <1>5, Zenon DEF ClickMidiFile
      <3> QED
        BY <3>1, Zenon
    <2>4. /\ UNCHANGED <<midiDb, midis, midiOffset, lastCount, canMoreMidi>>
          /\ midiFilter \notin Directories => UNCHANGED midiFilter
      BY <1>5 DEF ClickMidiFile
    <2> QED
      BY <2>2, <2>3, <2>4, MidiSentCurrent
  <1>6. ASSUME NEW id \in Midis, SelectMidi(id) \/ RequestTrashMidi(id) PROVE MidiCurrentInv'
    BY <1>6, MidiRestCurrent DEF SelectMidi, RequestTrashMidi, pageVars
  <1>7. CASE CancelTrashMidi
    BY <1>7, MidiRestCurrent DEF CancelTrashMidi, pageVars
  <1>8. CASE ConfirmTrashMidi
    <2>1. CASE UNCHANGED midiCalls
      BY <1>8, <2>1, MidiRestCurrent DEF ConfirmTrashMidi, pageVars
    <2>2. CASE AskMidi("trash", midiFilter, doomed)
      BY <2>2, MidiSentCurrent DEF SureKinds
    <2> QED
      BY <1>8, <2>1, <2>2 DEF ConfirmTrashMidi
  <1> QED
    BY <1>1, <1>2, <1>3, <1>4, <1>5, <1>6, <1>7, <1>8 DEF MidiUser

\* What is left when the head is answered.
LEMMA MidiTailFacts ==
  ASSUME MidiTyped, midiCalls # << >>
  PROVE  \E n \in Nat :
           /\ n > 0 /\ n = Len(midiCalls) /\ Next1 = midiCalls[1]
           /\ midiCalls' = Tail(midiCalls) =>
                /\ Len(midiCalls') = n - 1
                /\ \A i \in 1..n - 1 : i + 1 \in 2..n /\ midiCalls'[i] = midiCalls[i + 1]
                /\ \A i \in 2..n : i - 1 \in 1..n - 1 /\ midiCalls'[i - 1] = midiCalls[i]
           /\ \A c \in MidiCall : midiCalls' = Append(Tail(midiCalls), c) =>
                Len(midiCalls') = n /\ midiCalls'[n] = c
  <1>1. midiCalls \in Seq(MidiCall)
    BY DEF MidiTyped, MidiTypeOK
  <1>2. PICK n \in Nat : n = Len(midiCalls)
    BY <1>1
  <1>3. n > 0 /\ Next1 = midiCalls[1]
    BY <1>1, <1>2 DEF Next1
  <1>4. ASSUME midiCalls' = Tail(midiCalls)
        PROVE  /\ Len(midiCalls') = n - 1
               /\ \A i \in 1..n - 1 : i + 1 \in 2..n /\ midiCalls'[i] = midiCalls[i + 1]
               /\ \A i \in 2..n : i - 1 \in 1..n - 1 /\ midiCalls'[i - 1] = midiCalls[i]
    <2>0. PICK x : x \in MidiCall
      BY <1>1, <1>2, <1>3
    <2>1. Len(midiCalls') = n - 1 /\ \A i \in 1..n - 1 : midiCalls'[i] = midiCalls[i + 1]
      BY <1>1, <1>2, <1>4, <2>0, QueueAdvances
    <2>2. \A i \in 1..n - 1 : i + 1 \in 2..n
      OBVIOUS
    <2>3. \A i \in 2..n : i - 1 \in 1..n - 1 /\ (i - 1) + 1 = i
      OBVIOUS
    <2> QED
      BY <2>1, <2>2, <2>3
  <1>5. ASSUME NEW c \in MidiCall, midiCalls' = Append(Tail(midiCalls), c)
        PROVE  Len(midiCalls') = n /\ midiCalls'[n] = c
    BY <1>1, <1>2, <1>5, QueueAdvances
  <1> QED
    BY <1>2, <1>3, <1>4, <1>5

\* A page that is asked for by now, when no other page is under way.
LEMMA MidiReplacedCurrent ==
  ASSUME MidiTyped, midiCalls # << >>, midiCalls' = Tail(midiCalls), UNCHANGED <<midiDb, midiFilter>>,
         ReplacePage(MidiPage(Next1.filter, 0), 0), ~astrayMidi' => ~Odd
  PROVE  MidiCurrentInv'
  <1> SUFFICES ASSUME ~Odd PROVE FirstShown' /\ PagesFollow'
    BY DEF MidiCurrentInv
  <1>1. PICK n \in Nat :
          /\ n > 0 /\ n = Len(midiCalls) /\ Len(midiCalls') = n - 1
          /\ \A i \in 1..n - 1 : i + 1 \in 2..n /\ midiCalls'[i] = midiCalls[i + 1]
    BY MidiTailFacts
  <1>2. \A k \in 2..n : midiCalls[k].kind \notin {"more", "previous"}
    BY <1>1 DEF Odd, PagesPending
  <1>3. PagesFollow'
    BY <1>1, <1>2 DEF PagesFollow
  <1>4. PICK all : all = MatchingMidis(midiFilter)
    OBVIOUS
  <1>5. PICK page : page = MidiPage(midiFilter, 0)
    OBVIOUS
  <1>6. MidiTypeOK /\ midiFilter \in MidiFilters
    BY DEF MidiTyped, MidiTypeOK
  <1>7. /\ all \in Seq(Midis) /\ page \in Seq(Midis)
        /\ \A k \in 1..Len(page) : 0 + k \in 1..Len(all) /\ page[k] = all[0 + k]
        /\ Len(page) \in Nat /\ Len(page) <= MidiLimit
        /\ 0 + Len(page) < Len(all) => Len(page) = MidiLimit
    BY <1>4, <1>5, <1>6, MidiPageProperties
  <1>8. PICK m \in Nat : m = Len(page)
    BY <1>7
  <1>9. \A k \in 1..m : page[k] = all[k] /\ k <= Len(all)
    BY <1>7, <1>8
  <1>10. m <= Len(all)
    <2>1. Len(all) \in Nat
      BY <1>7
    <2>2. m = 0 \/ m \in 1..m
      BY <1>8
    <2> QED
      BY <1>9, <2>1, <2>2
  <1>11. page = FirstOf(all, m)
    BY <1>7, <1>8, <1>9, <1>10, PrefixIsFirst
  <1>12. /\ midis' = page /\ midiOffset' = 0 /\ lastCount' = m
         /\ canMoreMidi' <=> m >= MidiLimit
    <2>1. /\ midis' = page /\ midiOffset' = 0 /\ lastCount' = m
          /\ canMoreMidi' = (m >= MidiLimit)
      BY <1>5, <1>8, Zenon DEF ReplacePage, Odd
    <2>2. canMoreMidi' <=> m >= MidiLimit
      BY <2>1, Zenon
    <2> QED
      BY <2>1, <2>2
  <1>13. MatchingMidis(midiFilter)' = all
    BY <1>4 DEF MatchingMidis
  <1>14. m < Len(all) => m = MidiLimit /\ page # << >>
    <2>1. MidiLimit \in Nat \ {0}
      BY MidiAssumption
    <2> QED
      BY <1>7, <1>8, <2>1
  <1>15. MidiLimit \in Nat
    BY MidiAssumption
  <1>16. m < Len(all) => MoreOffered' /\ canMoreMidi'
    BY <1>12, <1>14, <1>15 DEF MoreOffered
  <1> QED
    BY <1>3, <1>8, <1>11, <1>12, <1>13, <1>16 DEF FirstShown

\* The head does not matter to the rows.
LEMMA MidiLeftCurrent ==
  ASSUME MidiTyped, MidiCurrentInv, midiCalls # << >>, midiCalls' = Tail(midiCalls),
         UNCHANGED <<midiDb, midiFilter, midis, midiOffset, lastCount, canMoreMidi>>,
         ~astrayMidi' => ~astrayMidi /\ Next1.kind \notin SureKinds
  PROVE  MidiCurrentInv'
  <1> SUFFICES ASSUME ~astrayMidi', RowsStay' PROVE FirstShown' /\ PagesFollow'
    BY DEF MidiCurrentInv
  <1>1. PICK n \in Nat :
          /\ n > 0 /\ n = Len(midiCalls) /\ Next1 = midiCalls[1] /\ Len(midiCalls') = n - 1
          /\ \A i \in 1..n - 1 : i + 1 \in 2..n /\ midiCalls'[i] = midiCalls[i + 1]
          /\ \A i \in 2..n : i - 1 \in 1..n - 1 /\ midiCalls'[i - 1] = midiCalls[i]
    BY MidiTailFacts
  <1>2. \A k \in 1..n : k = 1 \/ k \in 2..n
    OBVIOUS
  <1>3. RowsStay
    BY <1>1, <1>2 DEF RowsStay
  <1>4. FirstShown /\ PagesFollow
    BY <1>3 DEF MidiCurrentInv
  <1>5. FirstShown'
    BY <1>4 DEF FirstShown, MatchingMidis, MoreOffered
  <1>6. \A k \in 2..n : k \in 1..n
    OBVIOUS
  <1>7. PagesFollow'
    BY <1>1, <1>4, <1>6 DEF PagesFollow
  <1> QED
    BY <1>5, <1>7

\* A page that follows the rows comes to them.
LEMMA MidiMoreCurrent ==
  ASSUME MidiTyped, MidiFlagsInv, MidiCurrentInv, MoreMidiReturns
  PROVE  MidiCurrentInv'
  <1>0. /\ midiCalls # << >> /\ Next1.kind = "more" /\ midiCalls' = Tail(midiCalls)
        /\ UNCHANGED <<midiDb, midiFilter, midiOffset, astrayMidi>>
    BY DEF MoreMidiReturns, Answered
  <1> SUFFICES ASSUME ~astrayMidi', RowsStay' PROVE FirstShown' /\ PagesFollow'
    BY DEF MidiCurrentInv
  <1>1. PICK n \in Nat :
          /\ n > 0 /\ n = Len(midiCalls) /\ Next1 = midiCalls[1] /\ Len(midiCalls') = n - 1
          /\ \A i \in 1..n - 1 : i + 1 \in 2..n /\ midiCalls'[i] = midiCalls[i + 1]
          /\ \A i \in 2..n : i - 1 \in 1..n - 1 /\ midiCalls'[i - 1] = midiCalls[i]
    BY <1>0, MidiTailFacts
  <1>2. \A k \in 1..n : k = 1 \/ k \in 2..n
    OBVIOUS
  <1>3. RowsStay
    BY <1>0, <1>1, <1>2 DEF RowsStay, SureKinds
  <1>4. FirstShown /\ PagesFollow
    BY <1>0, <1>3 DEF MidiCurrentInv
  <1>5. \A k \in 2..n : k \in 1..n /\ 1 \in 1..n /\ k # 1
    BY <1>1
  <1>6. \A k \in 2..n : midiCalls[k].kind # "more"
    BY <1>0, <1>1, <1>5 DEF MidiFlagsInv, OneEach
  <1>7. PagesFollow'
    BY <1>1, <1>4, <1>5, <1>6 DEF PagesFollow
  <1>8. 1 \in 1..n
    BY <1>1
  <1>9. Next1.filter = midiFilter /\ Next1.at = Len(midis)
    BY <1>0, <1>1, <1>4, <1>8 DEF PagesFollow
  <1>10. PICK all : all = MatchingMidis(midiFilter)
    OBVIOUS
  <1>11. PICK p \in Nat : p = Len(midis) /\ midis \in Seq(Midis)
    BY DEF MidiTyped, MidiTypeOK
  <1>12. PICK rows : rows = MidiPage(midiFilter, p)
    OBVIOUS
  <1>13. MidiTypeOK /\ midiFilter \in MidiFilters
    BY DEF MidiTyped, MidiTypeOK
  <1>14. /\ all \in Seq(Midis) /\ Distinct(all) /\ rows \in Seq(Midis) /\ Distinct(rows)
         /\ \A k \in 1..Len(rows) : p + k \in 1..Len(all) /\ rows[k] = all[p + k]
         /\ Len(rows) \in Nat /\ Len(rows) <= MidiLimit
         /\ p + Len(rows) < Len(all) => Len(rows) = MidiLimit
    BY <1>10, <1>11, <1>12, <1>13, MidiPageProperties
  <1>15. PICK m \in Nat : m = Len(rows)
    BY <1>14
  <1>16. PICK size \in Nat : size = Len(all)
    BY <1>14
  <1>17. p <= size /\ \A k \in 1..p : k \in 1..size /\ midis[k] = all[k]
    <2>1. midis = FirstOf(all, p)
      BY <1>4, <1>10, <1>11 DEF FirstShown
    <2>2. /\ Len(FirstOf(all, p)) = IF p < Len(all) THEN p ELSE Len(all)
          /\ \A k \in 1..Len(FirstOf(all, p)) : k \in 1..Len(all) /\ FirstOf(all, p)[k] = all[k]
      BY <1>14, FirstOfProperties
    <2>3. p = IF p < size THEN p ELSE size
      BY <1>11, <1>16, <2>1, <2>2
    <2> QED
      BY <1>11, <1>16, <2>1, <2>2, <2>3
  <1>18. ASSUME NEW j \in 1..m, NEW k \in 1..p PROVE midis[k] # rows[j]
    <2>1. k \in 1..size /\ p + j \in 1..size /\ k # p + j
      BY <1>14, <1>15, <1>16, <1>17
    <2>2. midis[k] = all[k] /\ rows[j] = all[p + j]
      BY <1>14, <1>15, <1>17
    <2>3. all[k] # all[p + j]
      <3>1. \A x, y \in 1..size : all[x] = all[y] => x = y
        BY <1>14, <1>16 DEF Distinct
      <3> QED
        BY <2>1, <3>1, Zenon
    <2> QED
      BY <2>2, <2>3, Zenon
  <1>19. Fresh(rows, midis) = rows
    BY <1>11, <1>14, <1>15, <1>18, FreshProperties
  <1>20. /\ midis' = midis \o rows /\ lastCount' = m /\ midiOffset' = 0
         /\ canMoreMidi' <=> m >= MidiLimit
    <2>1. /\ midis' = midis \o Fresh(rows, midis) /\ lastCount' = Len(rows)
          /\ canMoreMidi' = (Len(rows) >= MidiLimit)
      BY <1>9, <1>11, <1>12, Zenon DEF MoreMidiReturns, AppendMidis
    <2>2. canMoreMidi' <=> Len(rows) >= MidiLimit
      BY <2>1, Zenon
    <2> QED
      BY <1>0, <1>4, <1>15, <1>19, <2>1, <2>2 DEF FirstShown
  <1>21. PICK new : new = midis \o rows
    OBVIOUS
  <1>22. /\ new \in Seq(Midis) /\ Len(new) = p + m
         /\ \A i \in 1..p + m : new[i] = IF i <= p THEN midis[i] ELSE rows[i - p]
    BY <1>11, <1>14, <1>15, <1>21, ConcatProperties
  <1>23. ASSUME NEW i \in 1..p + m PROVE new[i] = all[i] /\ i <= size
    <2>1. CASE i <= p
      <3>1. i \in 1..p
        BY <2>1
      <3> QED
        BY <1>17, <1>22, <2>1, <3>1
    <2>2. CASE ~(i <= p)
      <3>1. i - p \in 1..m /\ p + (i - p) = i
        BY <2>2
      <3> QED
        BY <1>14, <1>15, <1>16, <1>22, <2>2, <3>1
    <2> QED
      BY <2>1, <2>2
  <1>24. p + m <= size
    <2>1. p + m = 0 \/ p + m \in 1..p + m
      OBVIOUS
    <2> QED
      BY <1>23, <2>1
  <1>25. new = FirstOf(all, p + m)
    <2>1. Len(new) <= Len(all) /\ \A k \in 1..Len(new) : new[k] = all[k]
      BY <1>16, <1>22, <1>23, <1>24
    <2> QED
      BY <1>14, <1>22, <2>1, PrefixIsFirst
  <1>26. p + m < size => m = MidiLimit /\ new # << >>
    <2>1. MidiLimit \in Nat \ {0}
      BY MidiAssumption
    <2> QED
      BY <1>14, <1>15, <1>16, <1>22, <2>1
  <1>27. MatchingMidis(midiFilter)' = all
    BY <1>0, <1>10 DEF MatchingMidis
  <1>28. p + m < size => MoreOffered' /\ canMoreMidi'
    <2>1. MidiLimit \in Nat
      BY MidiAssumption
    <2> QED
      BY <1>20, <1>21, <1>26, <2>1 DEF MoreOffered
  <1>29. FirstShown'
    BY <1>16, <1>20, <1>21, <1>22, <1>25, <1>27, <1>28 DEF FirstShown
  <1> QED
    BY <1>7, <1>29

LEMMA MidiReturnCurrent ==
  ASSUME MidiTyped, MidiFlagsInv, MidiCurrentInv, MidiReturn \/ MidiCallFails
  PROVE  MidiCurrentInv'
  <1>1. midiCalls # << >>
    BY DEF MidiReturn, SearchMidiReturns, MoreMidiReturns, PreviousMidiReturns, RowReturns,
       RowPageReturns, TrashMidiReturns, TrashSearchReturns, MidiCallFails, Answered
  <1>2. /\ Next1 \in MidiCall /\ Next1.filter \in MidiFilters /\ Next1.at \in Nat
    BY <1>1, MidiHeadTyped
  <1>3. CASE SearchMidiReturns \/ TrashSearchReturns
    <2>1. ~astrayMidi' => ~Odd
      BY <1>3, Zenon DEF SearchMidiReturns, TrashSearchReturns
    <2> QED
      BY <1>1, <1>3, <2>1, MidiReplacedCurrent DEF SearchMidiReturns, TrashSearchReturns
  <1>4. CASE MoreMidiReturns
    BY <1>4, MidiMoreCurrent
  <1>5. CASE PreviousMidiReturns
    <2>1. Next1.kind = "previous" /\ midiCalls' = Tail(midiCalls) /\ UNCHANGED astrayMidi
      BY <1>5 DEF PreviousMidiReturns, Answered
    <2>2. PICK n \in Nat :
            /\ n > 0 /\ n = Len(midiCalls) /\ Next1 = midiCalls[1] /\ Len(midiCalls') = n - 1
            /\ \A i \in 2..n : i - 1 \in 1..n - 1 /\ midiCalls'[i - 1] = midiCalls[i]
      BY <1>1, <2>1, MidiTailFacts
    <2>3. \A k \in 1..n : k = 1 \/ k \in 2..n
      OBVIOUS
    <2>4. RowsStay' => RowsStay
      BY <2>1, <2>2, <2>3 DEF RowsStay, SureKinds
    <2>5. 1 \in 1..n
      BY <2>2
    <2>6. ~PagesFollow
      BY <2>1, <2>2, <2>5 DEF PagesFollow
    <2> QED
      BY <2>1, <2>4, <2>6 DEF MidiCurrentInv
  <1>6. CASE RowReturns
    <2>1. Next1.kind = "row" /\ UNCHANGED <<midiDb, midiFilter, pageVars>>
      BY <1>6 DEF RowReturns, Answered
    <2>2. CASE midiCalls' = Tail(midiCalls)
      BY <1>1, <2>1, <2>2, MidiLeftCurrent DEF pageVars, SureKinds
    <2>3. CASE \E kind \in {"around", "rowPage"} :
                 midiCalls' = Append(Tail(midiCalls), MidiCallOf(kind, Next1.filter, Next1.at))
      <3>1. PICK kind \in {"around", "rowPage"} :
              midiCalls' = Append(Tail(midiCalls), MidiCallOf(kind, Next1.filter, Next1.at))
        BY <2>3
      <3>2. PICK c : c = MidiCallOf(kind, Next1.filter, Next1.at)
        OBVIOUS
      <3>3. c \in MidiCall /\ c.kind = kind
        BY <1>2, <3>2 DEF MidiCallOf, MidiCall
      <3>4. PICK n \in Nat : n > 0 /\ Len(midiCalls') = n /\ midiCalls'[n] = c
        BY <1>1, <3>1, <3>2, <3>3, MidiTailFacts
      <3>5. n \in 1..n
        BY <3>4
      <3>6. ~RowsStay'
        BY <3>3, <3>4, <3>5 DEF RowsStay, SureKinds
      <3> QED
        BY <3>6 DEF MidiCurrentInv
    <2>4. midiCalls' = Tail(midiCalls)
            \/ \E kind \in {"around", "rowPage"} :
                 midiCalls' = Append(Tail(midiCalls), MidiCallOf(kind, Next1.filter, Next1.at))
      BY <1>6 DEF RowReturns
    <2> QED
      BY <2>2, <2>3, <2>4
  <1>7. CASE RowPageReturns
    <2>1. /\ Next1.kind = "around" => astrayMidi'
          /\ ~astrayMidi' => ~Odd
      BY <1>7, Zenon DEF RowPageReturns
    <2>2. CASE Next1.kind = "around"
      BY <2>1, <2>2 DEF MidiCurrentInv
    <2>3. CASE Next1.kind # "around"
      BY <1>1, <1>7, <2>1, <2>3, MidiReplacedCurrent DEF RowPageReturns
    <2> QED
      BY <2>2, <2>3
  <1>8. CASE TrashMidiReturns
    BY <1>8 DEF TrashMidiReturns, MidiCurrentInv
  <1>9. CASE MidiCallFails
    <2>1. /\ midiCalls' = Tail(midiCalls)
          /\ UNCHANGED <<midiDb, midiFilter, midis, midiOffset, lastCount, canMoreMidi>>
      BY <1>9 DEF MidiCallFails
    <2>2. ~astrayMidi' => ~astrayMidi /\ ~Replaces(Next1)
      BY <1>9, Zenon DEF MidiCallFails
    <2>3. ~astrayMidi' => ~astrayMidi /\ Next1.kind \notin SureKinds
      BY <2>2 DEF Replaces, SureKinds
    <2> QED
      BY <1>1, <2>1, <2>3, MidiLeftCurrent
  <1> QED
    BY <1>3, <1>4, <1>5, <1>6, <1>7, <1>8, <1>9 DEF MidiReturn

-----------------------------------------------------------------------------
MidiInv == MidiTyped /\ MidiFlagsInv /\ MidiCurrentInv

LEMMA MidiInvInit == MidiInit => MidiInv
  BY MidiInitTyped, MidiInitFlags, MidiInitCurrent DEF MidiInv

LEMMA MidiInvNext == MidiInv /\ [MidiNext]_midiVars => MidiInv'
  <1> SUFFICES ASSUME MidiInv, [MidiNext]_midiVars PROVE MidiInv'
    OBVIOUS
  <1>1. MidiTyped' /\ MidiFlagsInv'
    BY MidiNextTyped, MidiNextFlags DEF MidiInv
  <1>2. MidiCurrentInv'
    <2>1. CASE UNCHANGED midiVars
      BY <2>1, MidiRestCurrent DEF midiVars, pageVars, MidiInv
    <2> QED
      BY <2>1, MidiUserCurrent, MidiReturnCurrent DEF MidiNext, MidiInv
  <1> QED
    BY <1>1, <1>2 DEF MidiInv

\* The types, and rows that are there once and tell what is asked for.
LEMMA MidisAreCurrent == MidiInv => MidiTypeOK /\ MidisOnce /\ MidisCurrent
  <1> SUFFICES ASSUME MidiInv PROVE MidiTypeOK /\ MidisOnce /\ MidisCurrent
    OBVIOUS
  <1>1. MidiTypeOK /\ Distinct(midis) /\ DOMAIN midis = 1..Len(midis)
    BY DEF MidiInv, MidiTyped, MidiTypeOK
  <1>2. MidisOnce
    BY <1>1 DEF Distinct, MidisOnce
  <1>3. midiCalls = << >> => RowsStay
    BY DEF RowsStay
  <1>4. MidisCurrent
    BY <1>3 DEF MidisCurrent, MidiInv, MidiCurrentInv, FirstShown
  <1> QED
    BY <1>1, <1>2, <1>4

\* The MIDI screen: no file is listed twice, each flag has its call, and while no call
\* that replaces the rows is under way they are the first of what the filter matches.
THEOREM MidiInvariant == MidiSpec => []MidiInv
  <1>1. MidiInit => MidiInv
    BY MidiInvInit
  <1>2. MidiInv /\ [MidiNext]_midiVars => MidiInv'
    BY MidiInvNext
  <1> QED
    BY <1>1, <1>2, PTL DEF MidiSpec

-----------------------------------------------------------------------------
(***************************************************************************)
(* The panel of similar samples. The last search that is under way is for  *)
(* what the panel wants, and the recent samples are there once.            *)
(***************************************************************************)

Searching(k) == asks[k].alive /\ ~asks[k].random

\* A panel that asked is on the screen; its last search is for what it wanted.
SimilarInv ==
  /\ SimilarTypeOK /\ SimilarShown /\ RecentOnce /\ FilterOffered
  /\ \A k \in DOMAIN asks : asks[k].alive => selectedSound # None
  /\ \A k \in DOMAIN asks :
       Searching(k) /\ (\A j \in DOMAIN asks : j > k => ~Searching(j)) => asks[k].of = wanted

\* The recent samples stay samples, each once, and as many as are kept.
LEMMA RecentProperties ==
  ASSUME SimilarTypeOK, RecentOnce, NEW s \in LibrarySounds, AddRecent(s)
  PROVE  recentIds' \in Seq(LibrarySounds) /\ Len(recentIds)' <= RecentLimit /\ RecentOnce'
  <1> DEFINE places == {k \in DOMAIN recentIds : recentIds[k] # s}
             old == Without(s)
             all == <<s>> \o old
             n == IF Len(all) < RecentLimit THEN Len(all) ELSE RecentLimit
  <1>1. /\ old \in Seq(LibrarySounds) /\ Len(old) \in Nat
        /\ \E order \in [DOMAIN old -> places] :
             /\ \A k \in DOMAIN old : old[k] = recentIds[order[k]]
             /\ \A j, k \in DOMAIN old : j < k => order[j] < order[k]
    BY PickedProperties DEF Without, SimilarTypeOK
  <1>2. PICK order \in [DOMAIN old -> places] :
          /\ \A k \in DOMAIN old : old[k] = recentIds[order[k]]
          /\ \A j, k \in DOMAIN old : j < k => order[j] < order[k]
    BY <1>1
  <1>3. recentIds' = SubSeq(all, 1, n)
    BY DEF AddRecent, FirstRecent
  <1>4. \A k \in DOMAIN old : order[k] \in DOMAIN recentIds /\ recentIds[order[k]] # s
    BY <1>2
  <1>5. DOMAIN recentIds \subseteq Nat /\ DOMAIN old = 1..Len(old)
    BY <1>1 DEF SimilarTypeOK
  <1> HIDE DEF places, old
  <1>6. \A j, k \in DOMAIN old : old[j] = old[k] => j = k
    <2> SUFFICES ASSUME NEW j \in DOMAIN old, NEW k \in DOMAIN old, old[j] = old[k] PROVE j = k
      OBVIOUS
    <2>1. order[j] = order[k]
      BY <1>2, <1>4 DEF RecentOnce
    <2>2. ~(j < k) /\ ~(k < j)
      BY <1>2, <1>4, <1>5, <2>1
    <2> QED
      BY <1>1, <1>5, <2>2
  <1>7. \A k \in DOMAIN old : old[k] # s
    BY <1>2, <1>4
  <1>8. /\ all \in Seq(LibrarySounds) /\ Len(all) = Len(old) + 1 /\ all[1] = s
        /\ \A k \in 1..Len(old) : all[k + 1] = old[k]
    <2>1. <<s>> \in Seq(LibrarySounds) /\ Len(<<s>>) = 1 /\ <<s>>[1] = s
      OBVIOUS
    <2>2. /\ all \in Seq(LibrarySounds) /\ Len(all) = 1 + Len(old)
          /\ \A i \in 1..1 + Len(old) : all[i] = IF i <= 1 THEN <<s>>[i] ELSE old[i - 1]
      BY <1>1, <2>1, ConcatProperties
    <2> QED
      BY <1>1, <2>1, <2>2
  <1> HIDE DEF all
  <1>9. \A j, k \in 1..Len(all) : all[j] = all[k] => j = k
    <2> SUFFICES ASSUME NEW j \in 1..Len(all), NEW k \in 1..Len(all), all[j] = all[k] PROVE j = k
      OBVIOUS
    <2>1. \A i \in 1..Len(all) : i = 1 \/ (i - 1 \in DOMAIN old /\ all[i] = old[i - 1])
      <3> SUFFICES ASSUME NEW i \in 1..Len(all), i # 1
                   PROVE  i - 1 \in DOMAIN old /\ all[i] = old[i - 1]
        OBVIOUS
      <3>1. i - 1 \in 1..Len(old) /\ (i - 1) + 1 = i
        BY <1>1, <1>8
      <3> QED
        BY <1>5, <1>8, <3>1
    <2>2. CASE j = 1 \/ k = 1
      BY <1>7, <1>8, <2>1, <2>2
    <2>3. CASE j # 1 /\ k # 1
      <3>1. j - 1 = k - 1
        BY <1>6, <2>1, <2>3
      <3> QED
        BY <1>1, <1>8, <3>1
    <2> QED
      BY <2>2, <2>3
  <1>10. n \in 1..Len(all) /\ n <= RecentLimit /\ Len(all) \in Nat
    BY <1>1, <1>8, SimilarAssumption
  <1> HIDE DEF n
  <1>11. /\ recentIds' \in Seq(LibrarySounds) /\ Len(recentIds') = n
         /\ \A k \in 1..n : recentIds'[k] = all[k]
    <2>1. SubSeq(all, 1, n) \in Seq(LibrarySounds) /\ Len(SubSeq(all, 1, n)) = n
          /\ \A k \in 1..n : SubSeq(all, 1, n)[k] = all[k]
      BY <1>8, <1>10
    <2> QED
      BY <1>3, <2>1
  <1>12. RecentOnce'
    <2>1. DOMAIN recentIds' = 1..n /\ \A k \in 1..n : k \in 1..Len(all)
      BY <1>10, <1>11
    <2> QED
      BY <1>9, <1>11, <2>1 DEF RecentOnce
  <1> QED
    BY <1>10, <1>11, <1>12

\* A sample is selected, the results stay as they are or close.
LEMMA SelectSoundInv ==
  ASSUME SimilarInv, NEW s \in LibrarySounds, SelectSound(s),
         UNCHANGED <<pathed, embeddingResults, wanted, asks, filterSimilarVars>>,
         resultsOpen' \in BOOLEAN, resultsOpen' => resultsOpen, selectError' \in BOOLEAN
  PROVE  SimilarInv'
  <1>1. selectedSound' = s /\ s # None
        /\ recentIds' \in Seq(LibrarySounds) /\ Len(recentIds)' <= RecentLimit /\ RecentOnce'
    BY RecentProperties, SimilarAssumption DEF SelectSound, SimilarInv
  <1>2. SimilarTypeOK'
    BY <1>1 DEF SimilarInv, SimilarTypeOK, filterSimilarVars
  <1>3. SimilarShown' /\ FilterOffered'
    BY <1>1 DEF SimilarInv, SimilarShown, FilterOffered, filterSimilarVars
  <1>4. \A k \in DOMAIN asks : Searching(k)' <=> Searching(k)
    BY DEF Searching
  <1> QED
    BY <1>1, <1>2, <1>3, <1>4 DEF SimilarInv

LEMMA ClosePanelInv ==
  ASSUME SimilarInv, ClosePanel
  PROVE  SimilarInv'
  <1>1. /\ selectedSound' = None /\ resultsOpen' = FALSE /\ embeddingResults' = {} /\ wanted' = None
        /\ asks' = Orphaned(asks)
        /\ UNCHANGED <<pathed, recentIds, selectError, filterSimilarVars>>
    BY DEF ClosePanel
  <1>2. /\ asks' \in Seq(Ask) /\ Len(asks') = Len(asks) /\ DOMAIN asks' = DOMAIN asks
        /\ \A k \in DOMAIN asks : ~asks'[k].alive
    <2>1. asks \in Seq(Ask) /\ Len(asks) \in Nat /\ DOMAIN asks = 1..Len(asks)
      BY DEF SimilarInv, SimilarTypeOK
    <2>2. ASSUME NEW a \in Ask PROVE [a EXCEPT !.alive = FALSE] \in Ask /\ ~[a EXCEPT !.alive = FALSE].alive
      BY DEF Ask
    <2>3. PICK n \in Nat : n = Len(asks)
      BY <2>1
    <2>4. asks' = [k \in 1..n |-> [asks[k] EXCEPT !.alive = FALSE]] /\ \A k \in 1..n : asks[k] \in Ask
      BY <1>1, <2>1, <2>3 DEF Orphaned
    <2>5. \A k \in 1..n : asks'[k] \in Ask /\ ~asks'[k].alive
      BY <2>2, <2>4
    <2>6. asks' \in [1..n -> Ask]
      BY <2>4, <2>5
    <2> QED
      BY <2>1, <2>3, <2>5, <2>6
  <1>3. SimilarTypeOK'
    BY <1>1, <1>2 DEF SimilarInv, SimilarTypeOK, filterSimilarVars
  <1>4. SimilarShown' /\ RecentOnce' /\ FilterOffered'
    BY <1>1 DEF SimilarInv, SimilarShown, RecentOnce, FilterOffered, filterSimilarVars
  <1> QED
    BY <1>2, <1>3, <1>4 DEF SimilarInv, Searching

\* One more question is asked; only a search changes what is wanted.
LEMMA AskSimilarInv ==
  ASSUME SimilarInv, NEW random \in BOOLEAN, selectedSound # None, AskSimilar(random),
         UNCHANGED <<pathed, soundVars, resultsOpen, embeddingResults, selectError, filterSimilarVars>>
  PROVE  SimilarInv'
  <1> DEFINE a == [of |-> selectedSound, random |-> random, alive |-> TRUE]
             n == Len(asks)
  <1>1. asks \in Seq(Ask) /\ n \in Nat /\ n < MaxCalls /\ MaxCalls \in Nat /\ DOMAIN asks = 1..n
    BY CallsAssumption DEF AskSimilar, SimilarInv, SimilarTypeOK
  <1>2. a \in Ask /\ a.of = selectedSound /\ a.random = random /\ a.alive
    BY DEF Ask, SimilarInv, SimilarTypeOK
  <1>3. asks' = Append(asks, a) /\ wanted' = IF random THEN wanted ELSE selectedSound
    BY DEF AskSimilar
  <1> HIDE DEF a
  <1>4. /\ asks' \in Seq(Ask) /\ Len(asks') = n + 1 /\ DOMAIN asks' = 1..n + 1
        /\ asks'[n + 1] = a /\ \A k \in 1..n : asks'[k] = asks[k]
    BY <1>1, <1>2, <1>3
  <1>5. UNCHANGED <<selectedSound, recentIds, typeFilter, offeredTypes, retyped>>
    BY DEF soundVars, filterSimilarVars
  <1>6. SimilarTypeOK'
    BY <1>1, <1>3, <1>4, <1>5 DEF SimilarInv, SimilarTypeOK
  <1>7. RecentOnce' /\ FilterOffered'
    BY <1>5 DEF SimilarInv, RecentOnce, FilterOffered
  <1>8. \A k \in DOMAIN asks' : asks'[k].alive => selectedSound' # None
    BY <1>5
  <1>9. asks'[n + 1].alive /\ (asks'[n + 1].random <=> random)
    BY <1>2, <1>4
  <1>10. \A k \in 1..n : Searching(k)' <=> Searching(k)
    BY <1>4 DEF Searching
  <1>11. ASSUME NEW k \in DOMAIN asks', Searching(k)', \A j \in DOMAIN asks' : j > k => ~Searching(j)'
         PROVE  asks'[k].of = wanted'
    <2>1. CASE k = n + 1
      BY <1>2, <1>3, <1>4, <1>9, <1>11, <2>1 DEF Searching
    <2>2. CASE k \in 1..n
      <3>1. n + 1 \in DOMAIN asks' /\ n + 1 > k
        BY <1>1, <1>4, <2>2
      <3>2. random
        BY <1>9, <1>11, <3>1 DEF Searching
      <3>3. \A j \in DOMAIN asks : j > k => ~Searching(j)
        BY <1>1, <1>4, <1>10, <1>11
      <3> QED
        BY <1>1, <1>3, <1>4, <1>10, <1>11, <2>2, <3>2, <3>3 DEF SimilarInv
    <2> QED
      BY <1>1, <1>4, <2>1, <2>2
  <1>12. SimilarShown'
    <2>1. CASE random
      <3>1. (\A k \in DOMAIN asks' : asks'[k].random \/ ~asks'[k].alive)
              => \A k \in DOMAIN asks : asks[k].random \/ ~asks[k].alive
        BY <1>1, <1>4
      <3> QED
        BY <1>3, <1>5, <2>1, <3>1 DEF SimilarInv, SimilarShown
    <2>2. CASE ~random
      <3>1. n + 1 \in DOMAIN asks' /\ ~asks'[n + 1].random /\ asks'[n + 1].alive
        BY <1>1, <1>2, <1>4, <2>2
      <3> QED
        BY <1>5, <3>1 DEF SimilarShown
    <2> QED
      BY <2>1, <2>2
  <1> QED
    BY <1>6, <1>7, <1>8, <1>11, <1>12 DEF SimilarInv

LEMMA RunSearchInv ==
  ASSUME SimilarInv, HandleRunEmbeddingSearch \/ HandleRunRandomSimilar
  PROVE  SimilarInv'
  <1>1. CASE HandleRunEmbeddingSearch
    <2>1. CASE selectedSound \in pathed
      BY <1>1, <2>1, AskSimilarInv DEF HandleRunEmbeddingSearch
    <2>2. CASE selectedSound \notin pathed
      <3>1. selectedSound \in LibrarySounds /\ SelectSound(selectedSound) /\ selectError' = TRUE
            /\ UNCHANGED <<pathed, resultsOpen, embeddingResults, wanted, asks, filterSimilarVars>>
        BY <1>1, <2>2 DEF HandleRunEmbeddingSearch, SimilarInv, SimilarTypeOK
      <3> QED
        BY <3>1, SelectSoundInv DEF SimilarInv, SimilarTypeOK
    <2> QED
      BY <2>1, <2>2
  <1>2. CASE HandleRunRandomSimilar
    <2>1. CASE selectedSound \in pathed
      BY <1>2, <2>1, AskSimilarInv DEF HandleRunRandomSimilar
    <2>2. CASE selectedSound \notin pathed
      <3>1. selectError' = TRUE
            /\ UNCHANGED <<pathed, soundVars, resultsOpen, embeddingResults, wanted, asks, filterSimilarVars>>
        BY <1>2, <2>2 DEF HandleRunRandomSimilar
      <3> QED
        BY <3>1 DEF soundVars, filterSimilarVars, SimilarInv, SimilarTypeOK, SimilarShown, RecentOnce,
                    FilterOffered, Searching
    <2> QED
      BY <2>1, <2>2
  <1> QED
    BY <1>1, <1>2

\* The first question is answered, the others stay in their order.
LEMMA SimilarTail ==
  ASSUME SimilarInv, asks # << >>, asks' = Tail(asks)
  PROVE  /\ Head(asks) = asks[1] /\ Head(asks) \in Ask /\ 1 \in DOMAIN asks
         /\ asks' \in Seq(Ask) /\ Len(asks') <= MaxCalls
         /\ \A k \in DOMAIN asks' : k + 1 \in DOMAIN asks /\ asks'[k] = asks[k + 1]
         /\ \A k \in DOMAIN asks : k = 1 \/ k - 1 \in DOMAIN asks'
         /\ \A k \in DOMAIN asks' :
              Searching(k)' /\ (\A j \in DOMAIN asks' : j > k => ~Searching(j)') => asks'[k].of = wanted
  <1>1. /\ asks \in Seq(Ask) /\ Len(asks) \in Nat /\ Len(asks) > 0 /\ DOMAIN asks = 1..Len(asks)
        /\ Len(asks) <= MaxCalls /\ MaxCalls \in Nat
    BY CallsAssumption DEF SimilarInv, SimilarTypeOK
  <1>2. /\ asks' \in Seq(Ask) /\ Len(asks') = Len(asks) - 1 /\ DOMAIN asks' = 1..Len(asks) - 1
        /\ \A k \in 1..Len(asks) - 1 : asks'[k] = asks[k + 1]
    BY <1>1
  <1>3. \A k \in DOMAIN asks' : k + 1 \in DOMAIN asks /\ asks'[k] = asks[k + 1]
    BY <1>1, <1>2
  <1>4. \A k \in DOMAIN asks : k = 1 \/ (k - 1 \in DOMAIN asks' /\ asks'[k - 1] = asks[k])
    BY <1>1, <1>2
  <1>5. ASSUME NEW k \in DOMAIN asks', Searching(k)', \A j \in DOMAIN asks' : j > k => ~Searching(j)'
        PROVE  asks'[k].of = wanted
    <2>1. k + 1 \in DOMAIN asks /\ Searching(k + 1) /\ k \in Nat
      BY <1>1, <1>2, <1>3, <1>5 DEF Searching
    <2>2. ASSUME NEW j \in DOMAIN asks, j > k + 1 PROVE ~Searching(j)
      <3>1. j - 1 \in DOMAIN asks' /\ asks'[j - 1] = asks[j] /\ j - 1 > k
        BY <1>1, <1>4, <2>1, <2>2
      <3>2. ~(asks'[j - 1].alive /\ ~asks'[j - 1].random)
        BY <1>5, <3>1 DEF Searching
      <3> QED
        BY <3>1, <3>2 DEF Searching
    <2> QED
      BY <1>3, <2>1, <2>2 DEF SimilarInv
  <1> QED
    BY <1>1, <1>2, <1>3, <1>4, <1>5

LEMMA FoundSounds ==
  ASSUME NEW a \in Ask
  PROVE  /\ Found(a) = None \/ Found(a) \in SUBSET LibrarySounds
         /\ (IF Found(a) = None THEN {} ELSE Found(a)) = IF a.of \in Embedded THEN Similar[a.of] ELSE {}
  BY SimilarAssumption DEF Found, Ask

LEMMA SearchAnswersInv ==
  ASSUME SimilarInv, SearchAnswers
  PROVE  SimilarInv'
  <1> DEFINE a == Head(asks)
  <1>1. /\ asks # << >> /\ ~a.random /\ asks' = Tail(asks)
        /\ selectError' = (selectError \/ Found(a) = None)
        /\ a.alive => SetResults(Found(a)) /\ resultsOpen' = TRUE
        /\ ~a.alive => UNCHANGED <<resultsOpen, embeddingResults>>
        /\ UNCHANGED <<pathed, soundVars, wanted, filterSimilarVars>>
    BY DEF SearchAnswers
  <1>2. /\ a = asks[1] /\ a \in Ask /\ 1 \in DOMAIN asks
        /\ asks' \in Seq(Ask) /\ Len(asks') <= MaxCalls
        /\ \A k \in DOMAIN asks' : k + 1 \in DOMAIN asks /\ asks'[k] = asks[k + 1]
        /\ \A k \in DOMAIN asks : k = 1 \/ k - 1 \in DOMAIN asks'
        /\ \A k \in DOMAIN asks' :
             Searching(k)' /\ (\A j \in DOMAIN asks' : j > k => ~Searching(j)') => asks'[k].of = wanted
    BY <1>1, SimilarTail
  <1> HIDE DEF a
  <1>3. selectError' \in BOOLEAN
    BY <1>1, Zenon
  <1>4. resultsOpen' \in BOOLEAN
    BY <1>1 DEF SimilarInv, SimilarTypeOK
  <1>5. /\ embeddingResults' \subseteq LibrarySounds
        /\ a.alive => embeddingResults' = IF a.of \in Embedded THEN Similar[a.of] ELSE {}
    BY <1>1, <1>2, FoundSounds DEF SetResults, SimilarInv, SimilarTypeOK
  <1>6. UNCHANGED <<pathed, selectedSound, recentIds, wanted, typeFilter, offeredTypes, retyped>>
    BY <1>1 DEF soundVars, filterSimilarVars
  <1>7. SimilarTypeOK'
    <2>1. {resultsOpen', selectError', retyped'} \subseteq BOOLEAN
      BY <1>3, <1>4, <1>6 DEF SimilarInv, SimilarTypeOK
    <2> QED
      BY <1>2, <1>5, <1>6, <2>1 DEF SimilarInv, SimilarTypeOK
  <1>8. RecentOnce' /\ FilterOffered'
    BY <1>6 DEF SimilarInv, RecentOnce, FilterOffered
  <1>9. \A k \in DOMAIN asks' : asks'[k].alive => selectedSound' # None
    BY <1>2, <1>6 DEF SimilarInv
  <1>10. SimilarShown'
    <2> SUFFICES ASSUME resultsOpen'
                 PROVE  /\ selectedSound' # None
                        /\ (\A k \in DOMAIN asks' : asks'[k].random \/ ~asks'[k].alive) =>
                             embeddingResults' = IF wanted' \in Embedded THEN Similar[wanted'] ELSE {}
      BY DEF SimilarShown
    <2>1. (\A k \in DOMAIN asks' : asks'[k].random \/ ~asks'[k].alive) =>
            \A k \in DOMAIN asks : k # 1 => asks[k].random \/ ~asks[k].alive
      <3> SUFFICES ASSUME NEW k \in DOMAIN asks, k # 1, ~(asks[k].random \/ ~asks[k].alive)
                   PROVE  \E j \in DOMAIN asks' : ~(asks'[j].random \/ ~asks'[j].alive)
        OBVIOUS
      <3>1. k \in Nat /\ k - 1 \in DOMAIN asks' /\ (k - 1) + 1 = k
        BY <1>2 DEF SimilarInv, SimilarTypeOK
      <3>2. asks'[k - 1] = asks[k]
        BY <1>2, <3>1
      <3> QED
        BY <3>1, <3>2
    <2>2. CASE a.alive
      <3>1. selectedSound # None
        BY <1>2, <2>2 DEF SimilarInv
      <3>2. (\A k \in DOMAIN asks : k # 1 => asks[k].random \/ ~asks[k].alive) => a.of = wanted
        <4>1. DOMAIN asks \subseteq Nat
          BY DEF SimilarInv, SimilarTypeOK
        <4>2. Searching(1)
          BY <1>1, <1>2, <2>2 DEF Searching
        <4>3. (\A k \in DOMAIN asks : k # 1 => asks[k].random \/ ~asks[k].alive)
                => \A j \in DOMAIN asks : j > 1 => ~Searching(j)
          BY <4>1 DEF Searching
        <4> QED
          BY <1>2, <4>2, <4>3 DEF SimilarInv
      <3> QED
        BY <1>5, <1>6, <2>1, <2>2, <3>1, <3>2, Zenon
    <2>3. CASE ~a.alive
      <3>1. (\A k \in DOMAIN asks : k # 1 => asks[k].random \/ ~asks[k].alive) =>
              \A k \in DOMAIN asks : asks[k].random \/ ~asks[k].alive
        BY <1>2, <2>3
      <3> QED
        BY <1>1, <1>6, <2>1, <2>3, <3>1 DEF SimilarInv, SimilarShown
    <2> QED
      BY <2>2, <2>3
  <1> QED
    BY <1>2, <1>6, <1>7, <1>8, <1>9, <1>10 DEF SimilarInv

LEMMA RandomAnswersInv ==
  ASSUME SimilarInv, RandomAnswers
  PROVE  SimilarInv'
  <1> DEFINE a == Head(asks)
  <1>1. /\ asks # << >> /\ a.random /\ asks' = Tail(asks)
        /\ IF Found(a) \in {None, {}}
            THEN selectError' = TRUE /\ UNCHANGED soundVars
            ELSE \E s \in Candidates(a) : SelectSound(s) /\ UNCHANGED selectError
        /\ UNCHANGED <<pathed, resultVars, filterSimilarVars>>
    BY DEF RandomAnswers
  <1>2. /\ a = asks[1] /\ a \in Ask /\ 1 \in DOMAIN asks
        /\ asks' \in Seq(Ask) /\ Len(asks') <= MaxCalls
        /\ \A k \in DOMAIN asks' : k + 1 \in DOMAIN asks /\ asks'[k] = asks[k + 1]
        /\ \A k \in DOMAIN asks : k = 1 \/ k - 1 \in DOMAIN asks'
        /\ \A k \in DOMAIN asks' :
             Searching(k)' /\ (\A j \in DOMAIN asks' : j > k => ~Searching(j)') => asks'[k].of = wanted
    BY <1>1, SimilarTail
  <1>3. \/ selectError' = TRUE /\ UNCHANGED soundVars
        \/ \E s \in LibrarySounds : SelectSound(s) /\ UNCHANGED selectError
    <2>1. CASE Found(a) \in {None, {}}
      BY <1>1, <2>1
    <2>2. CASE Found(a) \notin {None, {}}
      <3>1. Candidates(a) \subseteq LibrarySounds
        BY <1>2, <2>2, FoundSounds DEF Candidates
      <3> QED
        BY <1>1, <2>2, <3>1
    <2> QED
      BY <2>1, <2>2
  <1> HIDE DEF a
  <1>4. selectedSound' \in LibrarySounds \cup {None} /\ (selectedSound # None => selectedSound' # None)
        /\ recentIds' \in Seq(LibrarySounds) /\ Len(recentIds)' <= RecentLimit /\ RecentOnce'
        /\ selectError' \in BOOLEAN
    <2>1. CASE selectError' = TRUE /\ UNCHANGED soundVars
      BY <2>1 DEF soundVars, SimilarInv, SimilarTypeOK, RecentOnce
    <2>2. ASSUME NEW s \in LibrarySounds, SelectSound(s), UNCHANGED selectError
          PROVE  /\ selectedSound' \in LibrarySounds \cup {None} /\ selectedSound' # None
                 /\ recentIds' \in Seq(LibrarySounds) /\ Len(recentIds)' <= RecentLimit /\ RecentOnce'
                 /\ selectError' \in BOOLEAN
      <3>1. recentIds' \in Seq(LibrarySounds) /\ Len(recentIds)' <= RecentLimit /\ RecentOnce'
        BY <2>2, RecentProperties DEF SelectSound, SimilarInv
      <3> QED
        BY <2>2, <3>1, SimilarAssumption DEF SelectSound, SimilarInv, SimilarTypeOK
    <2> QED
      BY <1>3, <2>1, <2>2
  <1>5. UNCHANGED <<pathed, resultsOpen, embeddingResults, wanted, typeFilter, offeredTypes, retyped>>
    BY <1>1 DEF resultVars, filterSimilarVars
  <1>6. SimilarTypeOK'
    BY <1>2, <1>4, <1>5 DEF SimilarInv, SimilarTypeOK
  <1>7. FilterOffered'
    BY <1>5 DEF SimilarInv, FilterOffered
  <1>8. \A k \in DOMAIN asks' : asks'[k].alive => selectedSound' # None
    BY <1>2, <1>4 DEF SimilarInv
  <1>9. SimilarShown'
    <2>1. (\A k \in DOMAIN asks' : asks'[k].random \/ ~asks'[k].alive) =>
            \A k \in DOMAIN asks : asks[k].random \/ ~asks[k].alive
      <3> SUFFICES ASSUME NEW k \in DOMAIN asks, ~(asks[k].random \/ ~asks[k].alive)
                   PROVE  \E j \in DOMAIN asks' : ~(asks'[j].random \/ ~asks'[j].alive)
        OBVIOUS
      <3>1. k # 1
        BY <1>1, <1>2
      <3>2. k \in Nat /\ k - 1 \in DOMAIN asks' /\ (k - 1) + 1 = k
        BY <1>2, <3>1 DEF SimilarInv, SimilarTypeOK
      <3>3. asks'[k - 1] = asks[k]
        BY <1>2, <3>2
      <3> QED
        BY <3>2, <3>3
    <2> QED
      BY <1>4, <1>5, <2>1 DEF SimilarInv, SimilarShown
  <1> QED
    BY <1>2, <1>4, <1>5, <1>6, <1>7, <1>8, <1>9 DEF SimilarInv

\* The filter and what it offers change, the samples stay.
LEMMA FilterStepInv ==
  ASSUME SimilarInv, UNCHANGED <<soundVars, resultVars, asks, selectError>>, pathed' \subseteq LibrarySounds,
         typeFilter' \in TypeNames \cup {None}, offeredTypes' \subseteq TypeNames, retyped' \in BOOLEAN,
         FilterOffered'
  PROVE  SimilarInv'
  <1>1. SimilarTypeOK'
    BY DEF soundVars, resultVars, SimilarInv, SimilarTypeOK
  <1>2. SimilarShown' /\ RecentOnce'
    BY DEF soundVars, resultVars, SimilarInv, SimilarShown, RecentOnce
  <1>3. \A k \in DOMAIN asks : Searching(k)' <=> Searching(k)
    BY DEF Searching
  <1> QED
    BY <1>1, <1>2, <1>3 DEF soundVars, resultVars, SimilarInv

LEMMA FilterInv ==
  ASSUME SimilarInv,
         \/ \E t \in TypeNames : ToggleTypeFilter(t)
         \/ ResetSampleFilters
         \/ \E types \in SUBSET TypeNames : TypesChange(types)
         \/ \E rows \in SUBSET LibrarySounds : ListChanges(rows)
         \/ UNCHANGED similarVars
  PROVE  SimilarInv'
  <1>1. ASSUME NEW t \in TypeNames, ToggleTypeFilter(t) PROVE SimilarInv'
    BY <1>1, FilterStepInv DEF ToggleTypeFilter, FilterOffered, SimilarInv, SimilarTypeOK
  <1>2. CASE ResetSampleFilters
    BY <1>2, FilterStepInv DEF ResetSampleFilters, FilterOffered, SimilarInv, SimilarTypeOK
  <1>3. ASSUME NEW types \in SUBSET TypeNames, TypesChange(types) PROVE SimilarInv'
    <2>1. retyped' \in BOOLEAN
      BY <1>3, Zenon DEF TypesChange
    <2>2. FilterOffered'
      BY <1>3 DEF TypesChange, FilterOffered
    <2> QED
      BY <1>3, <2>1, <2>2, FilterStepInv DEF TypesChange, SimilarInv, SimilarTypeOK
  <1>4. ASSUME NEW rows \in SUBSET LibrarySounds, ListChanges(rows) PROVE SimilarInv'
    BY <1>4, FilterStepInv DEF ListChanges, filterSimilarVars, FilterOffered, SimilarInv, SimilarTypeOK
  <1>5. CASE UNCHANGED similarVars
    BY <1>5, FilterStepInv DEF similarVars, filterSimilarVars, FilterOffered, SimilarInv, SimilarTypeOK
  <1> QED
    BY <1>1, <1>2, <1>3, <1>4, <1>5

LEMMA SimilarNextInv == SimilarInv /\ [SimilarNext]_similarVars => SimilarInv'
  <1> SUFFICES ASSUME SimilarInv, [SimilarNext]_similarVars PROVE SimilarInv'
    OBVIOUS
  <1>1. ASSUME NEW s \in LibrarySounds, ClickSound(s) \/ HandleSelectResult(s) PROVE SimilarInv'
    <2>1. /\ SelectSound(s) /\ UNCHANGED <<pathed, embeddingResults, wanted, asks, filterSimilarVars>>
          /\ resultsOpen' \in BOOLEAN /\ (resultsOpen' => resultsOpen) /\ selectError' \in BOOLEAN
      <3>1. resultsOpen \in BOOLEAN /\ selectError \in BOOLEAN
        BY DEF SimilarInv, SimilarTypeOK
      <3>2. CASE ClickSound(s)
        BY <3>1, <3>2, Zenon DEF ClickSound, resultVars
      <3>3. CASE HandleSelectResult(s)
        BY <3>1, <3>3, Zenon DEF HandleSelectResult
      <3> QED
        BY <1>1, <3>2, <3>3
    <2> QED
      BY <2>1, SelectSoundInv
  <1>2. CASE CloseResults
    <2>1. resultsOpen' = FALSE
          /\ UNCHANGED <<pathed, selectedSound, recentIds, embeddingResults, wanted, asks, selectError,
                         typeFilter, offeredTypes, retyped>>
      BY <1>2 DEF CloseResults, soundVars, filterSimilarVars
    <2>2. {resultsOpen', selectError', retyped'} \subseteq BOOLEAN
      BY <2>1 DEF SimilarInv, SimilarTypeOK
    <2>3. SimilarTypeOK'
      BY <2>1, <2>2 DEF SimilarInv, SimilarTypeOK
    <2>4. \A k \in DOMAIN asks : Searching(k)' <=> Searching(k)
      BY <2>1 DEF Searching
    <2> QED
      BY <2>1, <2>3, <2>4 DEF SimilarInv, SimilarShown, RecentOnce, FilterOffered
  <1> QED
    BY <1>1, <1>2, ClosePanelInv, RunSearchInv, SearchAnswersInv, RandomAnswersInv, FilterInv, Zenon
       DEF SimilarNext, SimilarUser, SimilarReturn

LEMMA SimilarInitInv == SimilarInit => SimilarInv
  <1> SUFFICES ASSUME SimilarInit PROVE SimilarInv
    OBVIOUS
  <1>1. asks = << >> /\ recentIds = << >> /\ DOMAIN asks = {} /\ DOMAIN recentIds = {}
    BY DEF SimilarInit
  <1>2. SimilarTypeOK
    <2>1. Len(asks) = 0 /\ Len(recentIds) = 0
      BY <1>1
    <2>2. {resultsOpen, selectError, retyped} \subseteq BOOLEAN
      BY DEF SimilarInit
    <2> QED
      BY <1>1, <2>1, <2>2, SimilarAssumption, CallsAssumption DEF SimilarInit, SimilarTypeOK
  <1> QED
    BY <1>1, <1>2 DEF SimilarInit, SimilarInv, SimilarShown, RecentOnce, FilterOffered

\* The details panel: the results shown are those of its last search, once it is
\* answered, and the recent samples are listed once, for any library.
THEOREM SimilarInvariant == SimilarSpec => []SimilarInv
  BY SimilarInitInv, SimilarNextInv, PTL DEF SimilarSpec

-----------------------------------------------------------------------------
(***************************************************************************)
(* Dragging out.  A file that is kept or made is the one its key stands    *)
(* for, as long as the id has had one file only.                           *)
(***************************************************************************)

\* A file that is kept or made for a key is the one the key stands for.
FileFits(x) ==
  /\ x.key \in RowNumbers \X Settings /\ x.file \in File
  /\ x.key[1] \notin reusedIds =>
       x.file = [path |-> pathOf[x.key[1]], params |-> Params(x.key[2])]

FilesFit ==
  /\ \A p \in preparedPaths : FileFits(p)
  /\ \A c \in preparing : FileFits(c) /\ c.drag \in BOOLEAN

DragInv ==
  /\ DragTypeOK
  /\ FilesFit
  /\ DraggedIsWanted
  /\ FilesByKey

LEMMA ParamsValid == \A params \in {Params(s) : s \in Settings} : Valid(params)
  <1> SUFFICES ASSUME NEW s \in Settings PROVE Valid(Params(s))
    OBVIOUS
  <1>1. s.start \in Nat /\ s.end \in Nat
    BY DragAssumption DEF Settings
  <1>2. /\ Params(s).start = s.start
        /\ Params(s).end = IF s.end > s.start THEN s.end ELSE None
    BY DEF Params, Settings
  <1> QED
    BY <1>1, <1>2 DEF Valid

\* A row with a path has settings and a file.
LEMMA RowsFile ==
  ASSUME DragInv, NEW id \in RowNumbers, pathOf[id] # None
  PROVE  /\ pathOf[id] \in AudioFiles /\ SettingsOf(id) \in Settings
         /\ DragKey(id) \in RowNumbers \X Settings /\ DragKey(id)[1] = id /\ DragKey(id)[2] = SettingsOf(id)
         /\ Wanted(id) \in File
         /\ Wanted(id) = [path |-> pathOf[id], params |-> Params(SettingsOf(id))]
  <1>1. pathOf[id] \in AudioFiles
    BY DEF DragInv, DragTypeOK
  <1>2. SettingsOf(id) \in Settings
    BY <1>1 DEF DragInv, DragTypeOK, SettingsOf
  <1>3. Wanted(id) \in File
    BY <1>1, <1>2 DEF Wanted, File
  <1> QED
    BY <1>1, <1>2, <1>3 DEF DragKey, Wanted

LEMMA DragInitInv == DragInit => DragInv
  <1> SUFFICES ASSUME DragInit PROVE DragInv
    OBVIOUS
  <1>1. Raw \in Settings
    BY DragAssumption DEF Raw, Settings
  <1>2. DragTypeOK
    BY <1>1 DEF DragInit, DragTypeOK
  <1> QED
    BY <1>2 DEF DragInit, DragInv, FilesFit, DraggedIsWanted, FilesByKey

\* Rows are edited; the files stay.
LEMMA RowEditedInv ==
  ASSUME DragInv, UNCHANGED <<pathOf, preparedPaths, preparing, reusedIds>>,
         dragged' = None \/ dragged' = dragged,
         editedRow' \in RowNumbers \cup {None},
         settingsByKey' \in [RowNumbers \X AudioFiles -> Settings]
  PROVE  DragInv'
  <1>1. DragTypeOK'
    BY DEF DragInv, DragTypeOK
  <1>2. FilesFit'
    BY DEF DragInv, FilesFit, FileFits
  <1>3. DraggedIsWanted' /\ FilesByKey'
    BY DEF DragInv, DraggedIsWanted, FilesByKey
  <1> QED
    BY <1>1, <1>2, <1>3 DEF DragInv

LEMMA SettingsStoredInv ==
  ASSUME DragInv, NEW edits \in Settings, Store(edits)
  PROVE  DragInv'
  <1>1. editedRow \in RowNumbers /\ pathOf[editedRow] \in AudioFiles
    BY DEF DragInv, DragTypeOK, Store
  <1>2. settingsByKey' \in [RowNumbers \X AudioFiles -> Settings]
    BY <1>1 DEF DragInv, DragTypeOK, Store
  <1> QED
    BY <1>1, <1>2, RowEditedInv DEF Store

LEMMA UpdateInv ==
  ASSUME DragInv, NEW typed,
         \/ \E field \in {"start", "end"} : typed \in TypedTimes /\ UpdateSettings(field, typed)
         \/ typed \in Levels /\ UpdateSettings("level", typed)
  PROVE  DragInv'
  <1>1. editedRow \in RowNumbers /\ pathOf[editedRow] # None
    BY DEF DragInv, DragTypeOK, UpdateSettings
  <1>2. SettingsOf(editedRow) \in Settings
    BY <1>1, RowsFile
  <1>3. \A t \in TypedTimes : Clamp(t) \in 0..Seconds
    BY DragAssumption DEF Clamp
  <1>4. CASE typed \in TypedTimes /\ UpdateSettings("start", typed)
    <2>1. [SettingsOf(editedRow) EXCEPT !["start"] = Clamp(typed)] \in Settings
      BY <1>2, <1>3, <1>4 DEF Settings
    <2> QED
      BY <1>4, <2>1, SettingsStoredInv DEF UpdateSettings
  <1>5. CASE typed \in TypedTimes /\ UpdateSettings("end", typed)
    <2>1. [SettingsOf(editedRow) EXCEPT !["end"] = Clamp(typed)] \in Settings
      BY <1>2, <1>3, <1>5 DEF Settings
    <2> QED
      BY <1>5, <2>1, SettingsStoredInv DEF UpdateSettings
  <1>6. CASE typed \in Levels /\ UpdateSettings("level", typed)
    <2>1. [SettingsOf(editedRow) EXCEPT !["level"] = typed] \in Settings
      BY <1>2, <1>6 DEF Settings
    <2> QED
      BY <1>6, <2>1, SettingsStoredInv DEF UpdateSettings
  <1> QED
    BY <1>4, <1>5, <1>6

\* A call is made for the file that is wanted now.
LEMMA RenderInv ==
  ASSUME DragInv, NEW id \in RowNumbers, pathOf[id] # None, NEW drag \in BOOLEAN,
         NEW call \in Calls(id, drag), Render(call), dragged' = None,
         UNCHANGED <<pathOf, settingsVars, preparedPaths, reusedIds>>
  PROVE  DragInv'
  <1>1. /\ call.key = DragKey(id) /\ call.file = Wanted(id) /\ call.drag \in BOOLEAN
        /\ preparing' = preparing \cup {call}
    BY DEF Calls, Render
  <1>2. FileFits(call)
    BY <1>1, RowsFile DEF FileFits
  <1>3. DragTypeOK'
    BY <1>1, <1>2 DEF DragInv, DragTypeOK, FileFits, settingsVars
  <1>4. FilesFit'
    BY <1>1, <1>2 DEF DragInv, FilesFit, FileFits
  <1>5. Valid(call.file.params)
    BY <1>1, RowsFile, ParamsValid DEF File
  <1>6. FilesByKey'
    BY <1>1, <1>5 DEF DragInv, FilesByKey
  <1> QED
    BY <1>3, <1>4, <1>6 DEF DragInv, DraggedIsWanted

\* A row is handed over, as a file that is right or of an id that had another.
LEMMA HandedInv ==
  ASSUME DragInv, NEW id \in RowNumbers, NEW file \in File, NEW meantFile \in File,
         id \notin reusedIds => file = meantFile, HandOver(id, file, meantFile),
         UNCHANGED <<pathOf, settingsVars, preparedPaths, preparing, reusedIds>>
  PROVE  DragInv'
  <1>1. dragged'.id = id /\ dragged'.file = file /\ dragged'.wanted = meantFile
    BY DEF HandOver
  <1>2. DragTypeOK'
    BY <1>1 DEF DragInv, DragTypeOK, settingsVars
  <1>3. FilesFit'
    BY DEF DragInv, FilesFit, FileFits
  <1> QED
    BY <1>1, <1>2, <1>3 DEF DragInv, DraggedIsWanted, FilesByKey

LEMMA StartDragInv ==
  ASSUME DragInv, NEW id \in RowNumbers, StartFileDrag(id)
  PROVE  DragInv'
  <1>1. pathOf[id] # None /\ UNCHANGED <<pathOf, settingsVars, preparedPaths, reusedIds>>
    BY DEF StartFileDrag
  <1>2. CASE HandOver(id, Wanted(id), Wanted(id)) /\ UNCHANGED preparing
    BY <1>1, <1>2, RowsFile, HandedInv
  <1>3. ASSUME NEW p \in FileFor(DragKey(id)), HandOver(id, p.file, Wanted(id)), UNCHANGED preparing
        PROVE  DragInv'
    <2>1. p \in preparedPaths /\ p.key = DragKey(id)
      BY DEF FileFor
    <2>2. p.file \in File /\ (id \notin reusedIds => p.file = Wanted(id))
      BY <1>1, <2>1, RowsFile DEF DragInv, FilesFit, FileFits
    <2> QED
      BY <1>1, <1>3, <2>2, RowsFile, HandedInv
  <1>4. ASSUME NEW call \in Calls(id, TRUE), Render(call), dragged' = None
        PROVE  DragInv'
    BY <1>1, <1>4, RenderInv
  <1> QED
    BY <1>2, <1>3, <1>4 DEF StartFileDrag

LEMMA PreparedInv ==
  ASSUME DragInv, NEW call \in preparing, Prepared(call) \/ PrepareFails(call)
  PROVE  DragInv'
  <1>1. /\ preparing' = preparing \ {call}
        /\ UNCHANGED <<pathOf, settingsVars, reusedIds>>
    BY DEF Prepared, PrepareFails
  <1>2. FileFits(call) /\ call.key[1] \in RowNumbers /\ call.file \in File
    BY DEF DragInv, FilesFit, FileFits
  <1>3. CASE Prepared(call)
    <2> DEFINE new == [key |-> call.key, file |-> call.file]
    <2>1. /\ preparedPaths' = (preparedPaths \ FileFor(call.key)) \cup {new}
          /\ new.key = call.key /\ new.file = call.file
      BY <1>3 DEF Prepared
    <2> HIDE DEF new
    <2>2. dragged' = None \/ (dragged'.id = call.key[1] /\ dragged'.file = call.file /\ dragged'.wanted = call.file)
      BY <1>3 DEF Prepared, HandOver
    <2>3. FileFits(new)
      BY <1>2, <2>1 DEF FileFits
    <2>4. DragTypeOK'
      BY <1>1, <1>2, <2>1, <2>2, <2>3 DEF DragInv, DragTypeOK, FileFits, settingsVars
    <2>5. FilesFit'
      BY <1>1, <2>1, <2>3 DEF DragInv, FilesFit, FileFits
    <2>6. FilesByKey'
      BY <1>1, <2>1 DEF DragInv, FilesByKey, FileFor
    <2>7. DraggedIsWanted'
      BY <2>2 DEF DraggedIsWanted
    <2> QED
      BY <2>4, <2>5, <2>6, <2>7 DEF DragInv
  <1>4. CASE PrepareFails(call)
    <2>1. preparedPaths' = preparedPaths /\ dragged' = None
      BY <1>4 DEF PrepareFails
    <2>2. DragTypeOK'
      BY <1>1, <2>1 DEF DragInv, DragTypeOK, settingsVars
    <2>3. FilesFit' /\ FilesByKey' /\ DraggedIsWanted'
      BY <1>1, <2>1 DEF DragInv, FilesFit, FileFits, FilesByKey, DraggedIsWanted
    <2> QED
      BY <2>2, <2>3 DEF DragInv
  <1> QED
    BY <1>3, <1>4

LEMMA AnewInv ==
  ASSUME DragInv, NEW paths \in [RowNumbers -> AudioFiles \cup {None}], IdsGivenAnew(paths)
  PROVE  DragInv'
  <1>1. /\ pathOf' = paths /\ editedRow' = None /\ dragged' = None
        /\ reusedIds' = reusedIds \cup {id \in RowNumbers : pathOf[id] # None /\ paths[id] # pathOf[id]}
        /\ UNCHANGED <<settingsByKey, preparedPaths, preparing>>
    BY DEF IdsGivenAnew
  <1>2. ASSUME NEW x, FileFits(x) PROVE FileFits(x)'
    <2>1. x.key[1] \in RowNumbers /\ x.file.path \in AudioFiles /\ None \notin AudioFiles
      BY <1>2, DragAssumption DEF FileFits, File
    <2>2. x.key[1] \notin reusedIds' => x.key[1] \notin reusedIds /\ paths[x.key[1]] = pathOf[x.key[1]]
      <3> SUFFICES ASSUME x.key[1] \notin reusedIds' 
                   PROVE  x.key[1] \notin reusedIds /\ paths[x.key[1]] = pathOf[x.key[1]]
        OBVIOUS
      <3>1. x.key[1] \notin reusedIds
        BY <1>1
      <3>2. x.file.path = pathOf[x.key[1]]
        BY <1>2, <3>1 DEF FileFits
      <3> QED
        BY <1>1, <2>1, <3>1, <3>2
    <2> QED
      BY <1>1, <1>2, <2>2 DEF FileFits
  <1>3. DragTypeOK'
    BY <1>1 DEF DragInv, DragTypeOK
  <1>4. FilesFit'
    BY <1>1, <1>2 DEF DragInv, FilesFit
  <1> QED
    BY <1>1, <1>3, <1>4 DEF DragInv, DraggedIsWanted, FilesByKey

LEMMA DragNextInv == DragInv /\ [DragNext]_dragVars => DragInv'
  <1> SUFFICES ASSUME DragInv, [DragNext]_dragVars PROVE DragInv'
    OBVIOUS
  <1>0. editedRow \in RowNumbers \cup {None} /\ settingsByKey \in [RowNumbers \X AudioFiles -> Settings]
    BY DEF DragInv, DragTypeOK
  <1>1. CASE UNCHANGED dragVars
    BY <1>0, <1>1, RowEditedInv DEF dragVars, settingsVars
  <1>2. ASSUME NEW id \in RowNumbers, EditRow(id) PROVE DragInv'
    BY <1>0, <1>2, RowEditedInv DEF EditRow
  <1>3. ASSUME NEW id \in RowNumbers, PrepareDragFile(id) PROVE DragInv'
    <2>1. PICK call \in Calls(id, FALSE) : Render(call)
      BY <1>3 DEF PrepareDragFile
    <2> QED
      BY <1>3, <2>1, RenderInv DEF PrepareDragFile
  <1>4. ASSUME NEW id \in RowNumbers, StartFileDrag(id) PROVE DragInv'
    BY <1>4, StartDragInv
  <1>5. ASSUME NEW field \in {"start", "end"}, NEW typed \in TypedTimes, UpdateSettings(field, typed)
        PROVE  DragInv'
    BY <1>5, UpdateInv
  <1>6. ASSUME NEW level \in Levels, UpdateSettings("level", level) PROVE DragInv'
    BY <1>6, UpdateInv
  <1>7. CASE ResetSettings
    <2>1. Raw \in Settings
      BY DragAssumption DEF Raw, Settings
    <2> QED
      BY <1>7, <2>1, SettingsStoredInv DEF ResetSettings
  <1>8. ASSUME NEW call \in preparing, Prepared(call) \/ PrepareFails(call) PROVE DragInv'
    BY <1>8, PreparedInv
  <1>9. ASSUME NEW paths \in [RowNumbers -> AudioFiles \cup {None}], IdsGivenAnew(paths) PROVE DragInv'
    BY <1>9, AnewInv
  <1> QED
    BY <1>1, <1>2, <1>3, <1>4, <1>5, <1>6, <1>7, <1>8, <1>9 DEF DragNext

LEMMA DragKept == DragInv => DragTypeOK /\ DraggedIsWanted /\ FilesByKey
  BY DEF DragInv

\* What is dragged out of a row is its own file with its own edits, for every set of
\* rows, times and levels, in whatever order the files are rendered.
THEOREM DragInvariant == DragSpec => []DragInv
  BY DragInitInv, DragNextInv, PTL DEF DragSpec

-----------------------------------------------------------------------------
(***************************************************************************)
(* The types of the library's modules.  Their invariants speak of what the *)
(* promises need; here is the rest of each type.                           *)
(***************************************************************************)

StoreRest == commitFailed \in BOOLEAN /\ takes \in 0..MaxTakes
MidiStoreRest ==
  /\ unseeded \subseteq SeededTags
  /\ lastRequest = None \/ lastRequest \in Answers
PoolRest ==
  writer \in {"opening", "writing", "ended", "dead"} /\ pool \in {"open", "joining", "closed"}
ImportRest == {staging, stuck} \subseteq BOOLEAN

LEMMA StoreInitRest == StoreInit => StoreRest
  <1>1. 0 \in 0..MaxTakes
    BY StoreAssumption
  <1> QED
    BY <1>1 DEF StoreInit, StoreRest

LEMMA StoreNextRest == StoreRest /\ [StoreNext]_storeVars => StoreRest'
  <1> SUFFICES ASSUME StoreRest, [StoreNext]_storeVars PROVE StoreRest'
    OBVIOUS
  <1>1. commitFailed' \in BOOLEAN
    BY DEF StoreRest, StoreNext, storeVars, StartScan, ScanFile, SkipFile, ScanFails, FinishScan,
           CommitFails, RestartStore, ImportFile, Edit, ReScanAll, Classify, UpdateInstruments, UpdateLicense,
           MoveSample, DeleteSample, ClearAllSamples, AddToShelf, RemoveMember
  <1>2. takes' = takes \/ (takes < MaxTakes /\ takes' = takes + 1)
    BY DEF StoreNext, storeVars, StartScan, ScanFile, SkipFile, ScanFails, FinishScan,
           CommitFails, RestartStore, ImportFile, MayInsert, ReScanAll, Classify, UpdateInstruments, UpdateLicense,
           MoveSample, DeleteSample, ClearAllSamples, AddToShelf, RemoveMember
  <1>3. takes' \in 0..MaxTakes
    BY <1>2, StoreAssumption DEF StoreRest
  <1> QED
    BY <1>1, <1>3 DEF StoreRest

LEMMA StoreTyped == StoreInv /\ StoreRest => StoreTypeOK
  BY DEF StoreInv, GoodLibrary, StoreRest, StoreTypeOK

LEMMA MidiStoreInitRest == MidiStoreInit => MidiStoreRest
  BY DEF MidiStoreInit, MidiStoreRest

LEMMA MidiStoreNextRest ==
  MidiStoreInv /\ MidiStoreRest /\ [MidiStoreNext]_midiStoreVars => MidiStoreRest'
  <1> SUFFICES ASSUME MidiStoreInv, MidiStoreRest, [MidiStoreNext]_midiStoreVars
               PROVE  MidiStoreRest'
    OBVIOUS
  <1>1. unseeded' \subseteq SeededTags
    BY DEF MidiStoreRest, MidiStoreNext, midiStoreVars, DeleteMidiRow, DeleteRows, InsertMidi,
           InsertMidiTag, UpdateMidiTag, SeedTag, DeleteMidiTag, FreeForMidi, BeginSetTags,
           ClearMidiRows, RemoveOldTag, InsertNewTag, SetTagFails, RestartMidiStore
  <1>2. \/ lastRequest' \in {None, lastRequest}
        \/ tagRequest # None /\ \E success \in BOOLEAN : AnswerTags(success)
    BY DEF MidiStoreNext, midiStoreVars, DeleteMidiRow, DeleteRows, InsertMidi,
           InsertMidiTag, UpdateMidiTag, SeedTag, DeleteMidiTag, FreeForMidi, BeginSetTags,
           ClearMidiRows, RemoveOldTag, InsertNewTag, SetTagFails, RestartMidiStore, NextAssignment
  <1>3. tagRequest # None =>
          tagRequest.asked \in TagRequests /\ tagRequest.before \in SUBSET Links
    BY DEF MidiStoreInv, TablesTyped, Underway
  <1>4. lastRequest' = None \/ lastRequest' \in Answers
    BY <1>2, <1>3 DEF MidiStoreRest, AnswerTags, Answers
  <1> QED
    BY <1>1, <1>4 DEF MidiStoreRest

LEMMA MidiStoreTyped == MidiStoreInv /\ MidiStoreRest => MidiStoreTypeOK
  BY DEF MidiStoreInv, TablesTyped, MidiStoreRest, MidiStoreTypeOK

LEMMA PoolInitRest == PoolInit => PoolRest
  BY DEF PoolInit, PoolRest

LEMMA PoolNextRest == PoolRest /\ [PoolNext]_poolVars => PoolRest'
  BY DEF PoolRest, PoolNext, poolVars, Queue, StartTask, FinishTask, OpenDatabase, WriteResult,
         WriterEnds, Shutdown, WriterJoined

LEMMA PoolTyped == PoolInv /\ PoolRest => PoolTypeOK
  BY DEF PoolInv, Places, PoolRest, PoolTypeOK

LEMMA ImportInitRest == ImportInit => ImportRest
  BY DEF ImportInit, ImportRest

LEMMA ImportNextRest == ImportRest /\ [ImportNext]_importVars => ImportRest'
  <1> SUFFICES ASSUME ImportRest, [ImportNext]_importVars PROVE ImportRest'
    OBVIOUS
  <1>1. CASE ImportFails
    <2>1. PICK immovable \in SUBSET RolledBack, dirStays \in BOOLEAN :
            staging' = dirStays /\ stuck' = (stuck \/ immovable # {} \/ dirStays)
      BY <1>1, Zenon DEF ImportFails
    <2>2. staging' \in BOOLEAN /\ stuck' \in BOOLEAN
      BY <2>1, Zenon
    <2> QED
      BY <2>2 DEF ImportRest
  <1>2. CASE ~ImportFails
    BY <1>2 DEF ImportRest, ImportNext, importVars, BeginImport, StreamArrives, Unpack,
                PreflightPasses, CreateFile, FileWritten, Promoted, ProgramEnds, OtherCreates,
                OtherRemoves
  <1> QED
    BY <1>1, <1>2

LEMMA ImportTyped == ImportInv /\ ImportRest => ImportTypeOK
  BY DEF ImportInv, ImportFilesOK, ImportRest, ImportTypeOK

LEMMA MigrationInitTyped == MigrationInit => MigrationTypeOK
  <1> SUFFICES ASSUME MigrationInit PROVE MigrationTypeOK
    OBVIOUS
  <1>1. live \in Copies
    BY DEF MigrationInit, Library, Copies
  <1>2. FALSE \in BOOLEAN
    OBVIOUS
  <1> QED
    BY <1>1, <1>2 DEF MigrationInit, MigrationTypeOK

LEMMA MigrationNextTyped ==
  MigrationInv /\ MigrationTypeOK /\ [MigrationNext]_migrationVars => MigrationTypeOK'
  <1> SUFFICES ASSUME MigrationInv, MigrationTypeOK, [MigrationNext]_migrationVars
               PROVE  MigrationTypeOK'
    OBVIOUS
  <1> USE DEF MigrationTypeOK, JobEnds, NextStep, pastVars, fileVars
  <1>1. \A copy \in Copies : /\ Current(copy) \in Copies /\ [copy EXCEPT !.whole = FALSE] \in Copies
                             /\ \A lib \in LibraryContents : [copy EXCEPT !.lib = lib] \in Copies
    BY DEF Copies, Current
  <1>2. ASSUME NEW lib \in LibraryContents, ChangeLibrary(lib) PROVE MigrationTypeOK'
    BY <1>1, <1>2 DEF ChangeLibrary
  <1>3. CASE StartExport \/ BackUp \/ ReplaceTarget
    BY <1>1, <1>3 DEF StartExport, BackUp, ReplaceTarget
  <1>4. ASSUME NEW copy \in Foreign \cup ({target} \ {None}), StartImport(copy)
        PROVE  MigrationTypeOK'
    <2>1. copy \in Copies
      BY MigrationAssumption
    <2> QED
      BY <1>1, <1>4, <2>1 DEF StartImport
  <1>5. CASE ValidateStaged
    <2>1. staged \in Copies
      BY <1>5 DEF ValidateStaged, MigrationInv, ImportSteps
    <2> QED
      BY <1>1, <1>5, <2>1 DEF ValidateStaged
  <1>6. CASE SaveRollback
    BY <1>1, <1>6 DEF SaveRollback
  <1>7. CASE RestoreStaged
    <2>1. staged \in Copies
      BY <1>1, <1>7 DEF RestoreStaged, MigrationInv, ImportSteps
    <2> QED
      BY <1>7, <2>1 DEF RestoreStaged
  <1>8. CASE Undo
    <2>1. rollback \in Copies
      BY <1>8 DEF Undo, MigrationInv, ImportSteps
    <2> QED
      BY <1>1, <1>8, <2>1 DEF Undo
  <1>9. CASE TidyUp
    BY <1>9 DEF TidyUp, Tidy
  <1>10. CASE RestartMigration \/ UNCHANGED migrationVars
    BY <1>1, <1>10 DEF RestartMigration, migrationVars
  <1> QED
    BY <1>2, <1>3, <1>4, <1>5, <1>6, <1>7, <1>8, <1>9, <1>10 DEF MigrationNext
===============================================================================
