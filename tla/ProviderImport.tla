----------------------------- MODULE ProviderImport -----------------------------
(***************************************************************************)
(* The import of a provider's archive into the download folder:            *)
(* src-tauri/src/providers/download.rs, download_finalize.rs, promotion.rs *)
(* and the names of archive/preflight.rs.                                  *)
(*                                                                         *)
(* One import at a time streams its archive into a private directory in    *)
(* the folder, unpacks it there, and copies the files into the folder.     *)
(* Other programs, the user, and Freesound downloads put files there and   *)
(* take them away meanwhile; they leave alone what is being copied.  Sizes,*)
(* signatures and addresses are left out: an archive may always fail.      *)
(***************************************************************************)
EXTENDS UiBase

CONSTANTS
  Names,       \* file names
  PortableKey  \* PortableKey[name]: the name in lower case, normalized

VARIABLES
  folder,     \* folder[name]: the file in the download folder, or None
  download,   \* the import that holds the permit, or None
  staging,    \* its private directory exists
  lastReady,  \* what the last "ready" event was about: the names of an archive, or None
  stuck,      \* history: a removal failed, or the program ended during an import
  kept        \* history: the names of files that are no unfinished import's, until others remove them

importVars == <<folder, download, staging, lastReady, stuck, kept>>

\* Who put a file there; a copy is whole once it is written and synced.
OwnFile(whole) == [by |-> "import", whole |-> whole]
OtherFile == [by |-> "other", whole |-> TRUE]
SettledFile == [by |-> "settled", whole |-> TRUE]

Files == {OwnFile(TRUE), OwnFile(FALSE), OtherFile, SettledFile}

Downloads ==
  [step : {"streaming", "unpacking", "preflight", "copying", "writing"},
   files : SUBSET Names, left : SUBSET Names, created : SUBSET Names]

ASSUME ImportAssumption == None \notin Files \cup Downloads

Taken == {n \in Names : folder[n] # None}
KeysOf(names) == {PortableKey[n] : n \in names}

ImportAt(step) == download # None /\ download.step = step
ImportGoto(step) == download' = [download EXCEPT !.step = step]

-----------------------------------------------------------------------------
\* IMPORT_PERMIT, then the private directory.  Without the permit: busy.
BeginImport ==
  /\ download = None
  /\ download' = [step |-> "streaming", files |-> {}, left |-> {}, created |-> {}]
  /\ staging' = TRUE
  /\ UNCHANGED <<folder, lastReady, stuck, kept>>

StreamArrives ==
  /\ ImportAt("streaming")
  /\ ImportGoto("unpacking")
  /\ UNCHANGED <<folder, staging, lastReady, stuck, kept>>

\* An archive whose names agree in their keys is refused, and so is an empty one.
Unpack(files) ==
  /\ ImportAt("unpacking")
  /\ files # {} /\ Cardinality(KeysOf(files)) = Cardinality(files)
  /\ download' = [download EXCEPT !.step = "preflight", !.files = files, !.left = files]
  /\ UNCHANGED <<folder, staging, lastReady, stuck, kept>>

Collides(files) == KeysOf(files) \cap KeysOf(Taken) # {}

PreflightPasses ==
  /\ ImportAt("preflight") /\ ~Collides(download.files)
  /\ ImportGoto("copying")
  /\ UNCHANGED <<folder, staging, lastReady, stuck, kept>>

\* create_new, and the rollback knows of the file before its first byte.
CreateFile(n) ==
  /\ ImportAt("copying") /\ n \in download.left /\ folder[n] = None
  /\ folder' = [folder EXCEPT ![n] = OwnFile(FALSE)]
  /\ download' = [download EXCEPT !.step = "writing", !.created = @ \cup {n}]
  /\ UNCHANGED <<staging, lastReady, stuck, kept>>

\* Copied, synced, and the staged file removed.
FileWritten(n) ==
  /\ ImportAt("writing") /\ n \in download.left \cap download.created
  /\ folder' = [folder EXCEPT ![n] = OwnFile(TRUE)]
  /\ download' = [download EXCEPT !.step = "copying", !.left = @ \ {n}]
  /\ UNCHANGED <<staging, lastReady, stuck, kept>>

\* The rollback is disarmed, the directory and the permit are dropped.
Promoted ==
  /\ ImportAt("copying") /\ download.left = {}
  /\ folder' = [n \in Names |-> IF n \in download.created THEN SettledFile ELSE folder[n]]
  /\ lastReady' = download.files
  /\ download' = None /\ staging' = FALSE
  /\ kept' = kept \cup download.created
  /\ UNCHANGED stuck

\* Bug: only the files copied before the one that failed are removed.
RolledBackWhole == {n \in download.created : folder[n].whole}

RolledBack == download.created

\* At any step: a refused archive, a collision, an error of the file system.  The
\* rollback and the directory are dropped; what cannot be removed stays.
ImportFails ==
  /\ download # None
  /\ \E immovable \in SUBSET RolledBack, dirStays \in BOOLEAN :
       /\ folder' = [n \in Names |-> IF n \in RolledBack \ immovable THEN None ELSE folder[n]]
       /\ staging' = dirStays
       /\ stuck' = (stuck \/ immovable # {} \/ dirStays)
  /\ download' = None
  /\ UNCHANGED <<lastReady, kept>>

\* Nothing is cleaned up at the next start.
ProgramEnds ==
  /\ download # None
  /\ download' = None /\ lastReady' = None /\ stuck' = TRUE
  /\ UNCHANGED <<folder, staging, kept>>

-----------------------------------------------------------------------------
\* The others.  persist_noclobber of a Freesound download takes free names only.

InProgress(n) == download # None /\ n \in download.created

OtherCreates(n) ==
  /\ folder[n] = None
  /\ folder' = [folder EXCEPT ![n] = OtherFile]
  /\ lastReady' = None /\ kept' = kept \cup {n}
  /\ UNCHANGED <<download, staging, stuck>>

OtherRemoves(n) ==
  /\ folder[n] # None /\ ~InProgress(n)
  /\ folder' = [folder EXCEPT ![n] = None]
  /\ lastReady' = None /\ kept' = kept \ {n}
  /\ UNCHANGED <<download, staging, stuck>>

-----------------------------------------------------------------------------
ImportInit ==
  /\ folder \in [Names -> {None, OtherFile}]
  /\ download = None /\ staging = FALSE /\ lastReady = None /\ stuck = FALSE
  /\ kept = Taken

ImportNext ==
  \/ BeginImport \/ StreamArrives \/ PreflightPasses \/ Promoted \/ ImportFails \/ ProgramEnds
  \/ \E files \in SUBSET Names : Unpack(files)
  \/ \E n \in Names : CreateFile(n) \/ FileWritten(n) \/ OtherCreates(n) \/ OtherRemoves(n)

ImportSpec == ImportInit /\ [][ImportNext]_importVars

-----------------------------------------------------------------------------
\* Each variable of the import has its type.
ImportTypeOK ==
  /\ folder \in [Names -> Files \cup {None}]
  /\ download \in Downloads \cup {None}
  /\ {staging, stuck} \subseteq BOOLEAN
  /\ lastReady = None \/ lastReady \in SUBSET Names
  /\ kept \subseteq Names

\* "Imports never overwrite files" (README.md, Find samples on Splice, Loopcloud,
\* and SampleFocus): what others put into the folder, and what earlier imports
\* brought, stays as it was until others take it away, although files appear
\* there between the preflight and the copying.
NothingOverwritten == \A n \in kept : folder[n] # None /\ folder[n].by # "import"

\* An import that failed leaves nothing of its own in the folder, neither a file
\* that was whole nor the one it was writing, nor its private directory, as long
\* as everything could be removed.
FailedLeavesNothing ==
  download = None /\ ~stuck =>
    ~staging /\ \A n \in Names : folder[n] # None => folder[n].by # "import"

\* What the lastReady event is about is in the folder as a whole, until others act.
ReadyIsWhole == lastReady # None => \A n \in lastReady : folder[n] = SettledFile
===============================================================================
