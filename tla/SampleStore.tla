------------------------------ MODULE SampleStore ------------------------------
(***************************************************************************)
(* The samples and collections of the library: core/src/manager/scan.rs,   *)
(* samples.rs, instrument_types.rs, discovery/projects.rs, and the         *)
(* statements of core/src/db/operations they run.                          *)
(*                                                                         *)
(* The manager's mutex is held for a whole operation, so only the end of   *)
(* the program comes between two steps of one.  A statement outside a      *)
(* transaction is committed when it ends.  Of a row's columns, path, the   *)
(* license and the instrument are kept; the full-text table, which no      *)
(* search reads, and positions and notes of members are left out.          *)
(***************************************************************************)
EXTENDS Integers, UiBase

CONSTANTS
  SampleIds,    \* 1 .. n, the row numbers of the model
  SamplePaths,
  Analyzed,     \* Analyzed[path]: the instrument the analysis finds
  Licenses,     \* the texts a user may type
  ShelfNames,      \* collections and project shelves
  MaxTakes      \* bound: how often a row is inserted

VARIABLES
  db,      \* what the connection sees: rows by number, and the members of the shelves
  saved,   \* what the file holds
  openTx,  \* a transaction is open on the connection
  scan,    \* the scan under way, or None
  takes,   \* history: how many rows were inserted
  commitFailed  \* history: a scan's COMMIT failed since the program began

storeVars == <<db, saved, openTx, scan, takes, commitFailed>>

\* take and typed are history: which insertion made the row, and the license last typed.
StoredRow(path, take) ==
  [path |-> path, instrument |-> Analyzed[path], license |-> None, take |-> take, typed |-> None]

StoredRows ==
  [path : SamplePaths, instrument : {Analyzed[p] : p \in SamplePaths},
   license : Licenses \cup {None}, take : Nat, typed : Licenses \cup {None}]

Libraries ==
  [rows : [SampleIds -> StoredRows \cup {None}],
   members : SUBSET [shelf : ShelfNames, id : SampleIds, take : Nat]]

ScanStates == [left : SUBSET SamplePaths, before : Libraries]

ASSUME StoreAssumption ==
  /\ SampleIds \subseteq Nat /\ MaxTakes \in Nat
  /\ None \notin StoredRows \cup ScanStates

IdsIn(lib) == {i \in SampleIds : lib.rows[i] # None}
WithPath(lib, path) == {i \in IdsIn(lib) : lib.rows[i].path = path}
PathsIn(lib) == {lib.rows[i].path : i \in IdsIn(lib)}

\* INTEGER PRIMARY KEY without AUTOINCREMENT: the number after the largest.
IsNextRowId(lib, i) ==
  (\A j \in IdsIn(lib) : j < i) /\ (i = 1 \/ i - 1 \in IdsIn(lib))

Inserted(path, i) == [db EXCEPT !.rows[i] = StoredRow(path, takes + 1)]

MayInsert(i) ==
  /\ IsNextRowId(db, i)
  /\ takes < MaxTakes /\ takes' = takes + 1

\* Bug: rows that refer to a deleted sample stay.
DeletedAlone(lib, ids) ==
  [lib EXCEPT !.rows = [i \in SampleIds |-> IF i \in ids THEN None ELSE lib.rows[i]]]

\* With foreign_keys on, its members go with it (ON DELETE CASCADE).
Deleted(lib, ids) ==
  [rows |-> [i \in SampleIds |-> IF i \in ids THEN None ELSE lib.rows[i]],
   members |-> {m \in lib.members : m.id \notin ids}]

\* The manager is free, and a statement that is its own transaction leaves lib.
Edit(lib) ==
  /\ scan = None
  /\ db' = lib
  /\ saved' = IF openTx THEN saved ELSE lib
  /\ UNCHANGED <<openTx, scan, commitFailed>>

-----------------------------------------------------------------------------
\* BEGIN IMMEDIATE, once there is a file whose path no row has.
StartScan(found) ==
  /\ scan = None /\ ~openTx
  /\ found \ PathsIn(db) # {}
  /\ scan' = [left |-> found \ PathsIn(db), before |-> db]
  /\ openTx' = TRUE
  /\ UNCHANGED <<db, saved, takes, commitFailed>>

ScanFile(path, i) ==
  /\ scan # None /\ path \in scan.left
  /\ MayInsert(i) /\ db' = Inserted(path, i)
  /\ scan' = [scan EXCEPT !.left = @ \ {path}]
  /\ UNCHANGED <<saved, openTx, commitFailed>>

\* A file that cannot be decoded is passed over.
SkipFile(path) ==
  /\ scan # None /\ path \in scan.left
  /\ scan' = [scan EXCEPT !.left = @ \ {path}]
  /\ UNCHANGED <<db, saved, openTx, takes, commitFailed>>

\* Any other error of the analysis or of an insertion.
ScanFails ==
  /\ scan # None /\ scan.left # {}
  /\ scan' = None /\ db' = saved /\ openTx' = FALSE
  /\ UNCHANGED <<saved, takes, commitFailed>>

FinishScan ==
  /\ scan # None /\ scan.left = {}
  /\ scan' = None /\ saved' = db /\ openTx' = FALSE
  /\ UNCHANGED <<db, takes, commitFailed>>

\* Nothing is rolled back here; on some errors SQLite does it by itself.
CommitFails ==
  /\ scan # None /\ scan.left = {}
  /\ scan' = None /\ commitFailed' = TRUE
  /\ \/ UNCHANGED <<db, openTx>>
     \/ db' = saved /\ openTx' = FALSE
  /\ UNCHANGED <<saved, takes>>

\* The program ends and starts again.
RestartStore ==
  /\ db' = saved /\ openTx' = FALSE /\ scan' = None /\ commitFailed' = FALSE
  /\ UNCHANGED <<saved, takes>>

-----------------------------------------------------------------------------
ImportFile(path, i) ==
  /\ path \notin PathsIn(db)
  /\ MayInsert(i) /\ Edit(Inserted(path, i))

\* COALESCE(?, license).
Coalesced(new, old) == IF new = None THEN old ELSE new

\* update_sample, after the analysis of a file, which knows no license.
Reanalyzed(lib, ids) ==
  [lib EXCEPT !.rows = [i \in SampleIds |->
    IF i \in ids
    THEN [lib.rows[i] EXCEPT !.instrument = Analyzed[lib.rows[i].path],
                             !.license = Coalesced(None, @)]
    ELSE lib.rows[i]]]

\* All of them, those whose analysis fails excepted; an error ends the loop.
ReScanAll(done) ==
  /\ done \subseteq IdsIn(db)
  /\ Edit(Reanalyzed(db, done)) /\ UNCHANGED takes

\* update_sample with the row that was read.
Classify(i, instrument) ==
  /\ i \in IdsIn(db)
  /\ Edit([db EXCEPT !.rows[i].instrument = instrument, !.rows[i].license = Coalesced(@, @)])
  /\ UNCHANGED takes

\* update_sample_instrument_types, for a client of the local API, in a transaction of
\* its own: an id without a row undoes it.
UpdateInstruments(ids, asked) ==
  /\ ~openTx /\ ids # {} /\ ids \subseteq IdsIn(db)
  /\ Edit([db EXCEPT !.rows = [i \in SampleIds |->
             IF i \in ids THEN [db.rows[i] EXCEPT !.instrument = asked[i]] ELSE db.rows[i]]])
  /\ UNCHANGED takes

\* A blank text is stored as NULL.
UpdateLicense(path, license) ==
  /\ Edit([db EXCEPT !.rows = [i \in SampleIds |->
             IF i \in WithPath(db, path)
             THEN [db.rows[i] EXCEPT !.license = license, !.typed = license]
             ELSE db.rows[i]]])
  /\ UNCHANGED takes

\* The UPDATE fails when another row has the path.
MoveSample(old, new) ==
  /\ new \notin PathsIn(db)
  /\ Edit([db EXCEPT !.rows = [i \in SampleIds |->
             IF i \in WithPath(db, old) THEN [db.rows[i] EXCEPT !.path = new] ELSE db.rows[i]]])
  /\ UNCHANGED takes

DeleteSample(path) == Edit(Deleted(db, WithPath(db, path))) /\ UNCHANGED takes

ClearAllSamples == Edit(Deleted(db, SampleIds)) /\ UNCHANGED takes

\* A transaction of its own: not while one is open.  An id without a row undoes it;
\* a sample that is a member stays the member it is.
AddToShelf(shelf, ids) ==
  /\ ~openTx /\ ids # {} /\ ids \subseteq IdsIn(db)
  /\ Edit([db EXCEPT !.members = @ \cup
             {[shelf |-> shelf, id |-> i, take |-> db.rows[i].take] :
                i \in {j \in ids : ~\E m \in @ : m.shelf = shelf /\ m.id = j}}])
  /\ UNCHANGED takes

RemoveMember(shelf, i) ==
  /\ Edit([db EXCEPT !.members = {m \in @ : m.shelf # shelf \/ m.id # i}])
  /\ UNCHANGED takes

-----------------------------------------------------------------------------
EmptyLibrary == [rows |-> [i \in SampleIds |-> None], members |-> {}]

StoreInit ==
  /\ db = EmptyLibrary /\ saved = EmptyLibrary
  /\ openTx = FALSE /\ scan = None /\ takes = 0 /\ commitFailed = FALSE

StoreNext ==
  \/ \E found \in SUBSET SamplePaths : StartScan(found)
  \/ \E path \in SamplePaths, i \in SampleIds : ScanFile(path, i) \/ ImportFile(path, i)
  \/ \E path \in SamplePaths : SkipFile(path) \/ DeleteSample(path)
  \/ ScanFails \/ FinishScan \/ CommitFails \/ RestartStore
  \/ \E path \in SamplePaths, license \in Licenses \cup {None} : UpdateLicense(path, license)
  \/ \E old, new \in SamplePaths : MoveSample(old, new)
  \/ \E ids \in SUBSET SampleIds :
       \/ ReScanAll(ids)
       \/ \E shelf \in ShelfNames : AddToShelf(shelf, ids)
       \/ \E asked \in [ids -> {Analyzed[p] : p \in SamplePaths}] : UpdateInstruments(ids, asked)
  \/ \E i \in SampleIds, path \in SamplePaths : Classify(i, Analyzed[path])
  \/ \E shelf \in ShelfNames, i \in SampleIds : RemoveMember(shelf, i)
  \/ ClearAllSamples

StoreSpec == StoreInit /\ [][StoreNext]_storeVars

-----------------------------------------------------------------------------
\* Each variable of the tables has its type.
StoreTypeOK ==
  /\ {db, saved} \subseteq Libraries
  /\ {openTx, commitFailed} \subseteq BOOLEAN
  /\ takes \in 0 .. MaxTakes
  /\ scan \in ScanStates \cup {None}

\* What the user sees is on disk unless a transaction is open, and it is open only
\* for a scan under way or after a COMMIT that failed: every other way a scan ends,
\* and a failed COMMIT that SQLite rolled back itself, leaves no change waiting.
SavedUnlessScanning ==
  /\ ~openTx => saved = db
  /\ openTx => scan # None \/ commitFailed

\* A scan is kept as a whole or not at all: as long as it runs, the file holds
\* what it held before, so a program that ends leaves no part of it.
ScanAllOrNothing == scan # None => saved = scan.before

\* A member of a shelf is the sample that was put there.  SQLite gives the number
\* of a deleted row to the next one, so a member that outlived its sample would
\* be another sample's.
MembersMeant ==
  \A lib \in {db, saved} : \A m \in lib.members :
    lib.rows[m.id] # None /\ lib.rows[m.id].take = m.take

\* "Manual license metadata is preserved when a sample is re-scanned or when its
\* playback/instrument classification is edited" (docs/sample_metadata_quality.md).
LicenseKept == \A i \in IdsIn(db) : db.rows[i].license = db.rows[i].typed
===============================================================================
