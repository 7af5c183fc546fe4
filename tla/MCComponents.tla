------------------------------ MODULE MCComponents ------------------------------
(***************************************************************************)
(* The screens and panels of the renderer, and the parts of the backend    *)
(* that keep the library, one at a time.  They share no state that their   *)
(* modules model, so their interleavings add nothing: focus names the one  *)
(* that moves, and the others stay as they began.  Each property says of   *)
(* all of them what must hold of each.                                     *)
(***************************************************************************)
EXTENDS AnalysisPool, Collections, Discovery, DiscoveryAudio, DragOut, EditForms,
        FreesoundWorkspace, Labels, LibraryMigration, LibraryScan, ListSelection, MidiLibrary,
        MidiPlayer, MidiStore, PitchShift, PlayerBar, ProviderImport, SampleStore,
        SearchLanguage, SimilarSearch, TagEdit, TLC

CONSTANTS c1, c2, r1, p1, rule1, fdir, f1, f2, n1, n2, n3

VARIABLE focus

MCCollections == {c1, c2}
MCMembers == {r1}
MCShelf == c1 :> {} @@ c2 :> {r1}
MCImported == c1 :> {r1}

\* The ranking has a second page.
MCTabs == {"ranking", "projects", "smart"}
MCFullPages == [t \in MCTabs \cup {p1, None} |-> IF t = "ranking" THEN 1 ELSE 0]

MCMatches == None :> {1, 2} @@ fdir :> {2}

\* A loop, a kick of the time before instruments, and a sample of a user's type.
MCRows ==
  {[words |-> {"kick"}, notes |-> {}, tags |-> {"hard"}, bpm |-> 90, playback |-> "oneshot",
    kind |-> "kick", instrument |-> "other", key |-> [root |-> "A", mark |-> "", minor |-> TRUE]],
   [words |-> {}, notes |-> {"hard"}, tags |-> {}, bpm |-> None, playback |-> "loop",
    kind |-> "loop", instrument |-> "kick", key |-> None],
   [words |-> {"kick"}, notes |-> {}, tags |-> {"kick"}, bpm |-> 140, playback |-> "oneshot",
    kind |-> "oneshot", instrument |-> "tom", key |-> [root |-> "C", mark |-> "#", minor |-> FALSE]]}

\* A minor, A flat, C flat, D flat minor and H.
MCKeys ==
  {[root |-> "A", mark |-> "", minor |-> TRUE], [root |-> "A", mark |-> "b", minor |-> FALSE],
   [root |-> "C", mark |-> "b", minor |-> FALSE], [root |-> "D", mark |-> "b", minor |-> TRUE],
   [root |-> "H", mark |-> "", minor |-> FALSE]}

\* Two rows with the same tempo, and another order.
MCTempo == <<90, 0, 90>>
MCGiven == <<2, 1, 3>>

MCSimilar == "a" :> {"a", "b"} @@ "b" :> {"b"}

\* Two names that differ in their case.
MCPortableKey == n1 :> "kick.wav" @@ n2 :> "kick.wav" @@ n3 :> "pad.wav"

MCAnalyzed == f1 :> "kick" @@ f2 :> "other"

\* An older release's library, and a file that is none.
MCForeign ==
  {[lib |-> "theirs", schema |-> "legacy", whole |-> TRUE],
   [lib |-> "theirs", schema |-> "current", whole |-> FALSE]}

-----------------------------------------------------------------------------
audioVars == <<auditionVars, barVars, pitchVars, playerVars>>
midiScreenVars == <<midiVars, tagEditVars>>
sampleScreenVars == <<editVars, similarVars>>
sampleListVars == <<languageVars, listVars, dragVars>>
sidebarVars == <<collectionVars, labelVars, scanVars>>
sourceVars == <<discoveryVars, freesoundVars>>
backendVars == <<importVars, storeVars, midiStoreVars, migrationVars, poolVars>>
componentVars ==
  <<focus, audioVars, midiScreenVars, sampleScreenVars, sampleListVars, sidebarVars, sourceVars,
    backendVars>>

Audio == {"audition", "bar", "pitch", "player"}
MidiScreen == {"midi", "tags"}
SampleScreen == {"edit", "similar"}
SampleListParts == {"language", "list", "drag"}
Sidebar == {"collections", "labels", "scan"}
Source == {"discovery", "freesound"}
Backend == {"import", "store", "midiStore", "migration", "pool"}

\* What may be so or so at first is so or so only for the one that moves.
ComponentsInit ==
  /\ focus \in Audio \cup MidiScreen \cup SampleScreen \cup SampleListParts \cup Sidebar \cup Source
       \cup Backend
  /\ AuditionInit
  /\ BarInit /\ (focus # "bar" => ~barAutoPlay)
  /\ PitchInit
  /\ PlayerInit /\ (focus # "player" => ~autoPlay)
  /\ MidiInit
  /\ TagEditInit /\ (focus # "tags" => dbTags[1] = "a")
  /\ EditInit /\ (focus # "edit" => formKind = "metadata" /\ edit = "x" /\ meant[1] = "x")
  /\ SimilarInit
  /\ LanguageInit /\ (focus # "language" => row.instrument = "tom")
  /\ ListInit
  /\ DragInit /\ (focus # "drag" => pathOf[1] = f1)
  /\ CollectionsInit
  /\ LabelsInit /\ (focus # "labels" => manager = "types")
  /\ ScanInit /\ (focus # "scan" => ~allPathsKnown)
  /\ DiscoveryInit /\ (focus # "discovery" => stored = {})
  /\ FreesoundInit /\ (focus # "freesound" => ~keyStored)
  /\ ImportInit /\ (focus # "import" => folder = [n \in Names |-> None])
  /\ StoreInit
  /\ MidiStoreInit
  /\ MigrationInit /\ (focus # "migration" => live.lib = "mine")
  /\ PoolInit

AudioNext ==
  /\ focus \in Audio
  /\ UNCHANGED <<focus, midiScreenVars, sampleScreenVars, sampleListVars, sidebarVars, sourceVars,
                 backendVars>>
  /\ \/ focus = "audition" /\ AuditionNext /\ UNCHANGED <<barVars, pitchVars, playerVars>>
     \/ focus = "bar" /\ BarNext /\ UNCHANGED <<auditionVars, pitchVars, playerVars>>
     \/ focus = "pitch" /\ PitchNext /\ UNCHANGED <<auditionVars, barVars, playerVars>>
     \/ focus = "player" /\ PlayerNext /\ UNCHANGED <<auditionVars, barVars, pitchVars>>

MidiScreenNext ==
  /\ focus \in MidiScreen
  /\ UNCHANGED <<focus, audioVars, sampleScreenVars, sampleListVars, sidebarVars, sourceVars,
                 backendVars>>
  /\ \/ focus = "midi" /\ MidiNext /\ UNCHANGED tagEditVars
     \/ focus = "tags" /\ TagEditNext /\ UNCHANGED midiVars

SampleScreenNext ==
  /\ focus \in SampleScreen
  /\ UNCHANGED <<focus, audioVars, midiScreenVars, sampleListVars, sidebarVars, sourceVars,
                 backendVars>>
  /\ \/ focus = "edit" /\ EditNext /\ UNCHANGED similarVars
     \/ focus = "similar" /\ SimilarNext /\ UNCHANGED editVars

SampleListNext ==
  /\ focus \in SampleListParts
  /\ UNCHANGED <<focus, audioVars, midiScreenVars, sampleScreenVars, sidebarVars, sourceVars,
                 backendVars>>
  /\ \/ focus = "language" /\ LanguageNext /\ UNCHANGED <<listVars, dragVars>>
     \/ focus = "list" /\ ListNext /\ UNCHANGED <<languageVars, dragVars>>
     \/ focus = "drag" /\ DragNext /\ UNCHANGED <<languageVars, listVars>>

SidebarNext ==
  /\ focus \in Sidebar
  /\ UNCHANGED <<focus, audioVars, midiScreenVars, sampleScreenVars, sampleListVars, sourceVars,
                 backendVars>>
  /\ \/ focus = "collections" /\ CollectionsNext /\ UNCHANGED <<labelVars, scanVars>>
     \/ focus = "labels" /\ LabelsNext /\ UNCHANGED <<collectionVars, scanVars>>
     \/ focus = "scan" /\ ScanNext /\ UNCHANGED <<collectionVars, labelVars>>

SourceNext ==
  /\ focus \in Source
  /\ UNCHANGED <<focus, audioVars, midiScreenVars, sampleScreenVars, sampleListVars, sidebarVars,
                 backendVars>>
  /\ \/ focus = "discovery" /\ DiscoveryNext /\ UNCHANGED freesoundVars
     \/ focus = "freesound" /\ FreesoundNext /\ UNCHANGED discoveryVars

BackendNext ==
  /\ focus \in Backend
  /\ UNCHANGED <<focus, audioVars, midiScreenVars, sampleScreenVars, sampleListVars, sidebarVars,
                 sourceVars>>
  /\ \/ focus = "import" /\ ImportNext
        /\ UNCHANGED <<storeVars, midiStoreVars, migrationVars, poolVars>>
     \/ focus = "store" /\ StoreNext
        /\ UNCHANGED <<importVars, midiStoreVars, migrationVars, poolVars>>
     \/ focus = "midiStore" /\ MidiStoreNext
        /\ UNCHANGED <<importVars, storeVars, migrationVars, poolVars>>
     \/ focus = "migration" /\ MigrationNext
        /\ UNCHANGED <<importVars, storeVars, midiStoreVars, poolVars>>
     \/ focus = "pool" /\ PoolNext
        /\ UNCHANGED <<importVars, storeVars, midiStoreVars, migrationVars>>

ComponentsNext ==
  \/ AudioNext \/ MidiScreenNext \/ SampleScreenNext \/ SampleListNext
  \/ SidebarNext \/ SourceNext \/ BackendNext

ComponentsSpec == ComponentsInit /\ [][ComponentsNext]_componentVars

-----------------------------------------------------------------------------
\* Only the one that moves can leave what it began with.

\* Each variable of each screen has its type.
ComponentsTypeOK ==
  CASE focus = "audition" -> AuditionTypeOK
    [] focus = "bar" -> BarTypeOK
    [] focus = "pitch" -> PitchTypeOK
    [] focus = "player" -> PlayerTypeOK
    [] focus = "midi" -> MidiTypeOK
    [] focus = "tags" -> TagEditTypeOK
    [] focus = "edit" -> EditTypeOK
    [] focus = "similar" -> SimilarTypeOK
    [] focus = "language" -> LanguageTypeOK
    [] focus = "list" -> ListTypeOK
    [] focus = "drag" -> DragTypeOK
    [] focus = "collections" -> CollectionsTypeOK
    [] focus = "labels" -> LabelsTypeOK
    [] focus = "scan" -> ScanTypeOK
    [] focus = "discovery" -> DiscoveryTypeOK
    [] focus = "freesound" -> FreesoundTypeOK
    [] focus = "import" -> ImportTypeOK
    [] focus = "store" -> StoreTypeOK
    [] focus = "midiStore" -> MidiStoreTypeOK
    [] focus = "migration" -> MigrationTypeOK
    [] focus = "pool" -> PoolTypeOK

\* What a screen shows as busy or loading is under way, whichever requests were
\* overtaken, given up or failed meanwhile: no button stays disabled, and no overlay or
\* spinner stays.  The converse, that what is under way is shown, holds up to the cases
\* that the parts name.
FlagsMatchWork ==
  /\ focus = "freesound" => BusyIsRequest /\ CredentialCurrent
  /\ focus = "discovery" => LoadingIsQuery
  /\ focus = "audition" => LoadingIsNewest
  /\ focus = "midi" => MidiFlags
  /\ focus = "bar" => LoadingEnds
  /\ focus = "pitch" => PitchSettles
  /\ focus = "scan" => OverlayIsWork /\ PromptHasPath

\* An object URL or a listener outlives neither the screen nor the request it was
\* made for, though its request is answered after that.
NothingLeaks ==
  /\ focus = "freesound" => NoLeakedPreview
  /\ focus = "bar" => NoLeakedUrl
  /\ focus = "scan" => ListenersReleased

\* Once every answer is there, a screen shows what was asked for last, and what
\* the database holds, each thing once, though the answers come in any order.
ShownIsAsked ==
  /\ focus = "collections" => CollectionsCurrent
  /\ focus = "discovery" => RowsOfQuery /\ ListsCurrent
  /\ focus = "labels" => LabelsCurrent
  /\ focus = "midi" => MidisOnce /\ MidisCurrent
  /\ focus = "similar" => SimilarShown /\ RecentOnce /\ FilterOffered
  /\ focus = "language" => FoundIsMeant /\ FoundIsShown
  /\ focus = "list" => ArrowIsNeighbour /\ SelectionHasRow

\* The newest save of a form is what its samples hold, and the tag dialog begins
\* with the tag its row has and keeps it unless another is chosen.  What is dragged
\* from a row has the row's edits.
EditsHold ==
  /\ focus = "edit" => NewestSaveHolds
  /\ focus = "tags" => RowsTellTags /\ DialogKeepsTag
  /\ focus = "drag" => DraggedIsWanted /\ FilesByKey

\* Whatever sounds is what the screen says is playing, and there is a button left
\* that stops it, as long as no two starts of the MIDI player overlap; what is compared
\* is heard at the level that was chosen.
SoundIsOwned ==
  /\ focus = "player" => MidiSoundOwned
  /\ focus = "freesound" => PreviewRow
  /\ focus = "bar" => SoundOfPath /\ PlayingIsHeard
  /\ focus = "pitch" => ElementHeard /\ PitchApplied
  /\ focus = "audition" => ComparedFairly

\* The library loses nothing and mixes up nothing: what is not of an unfinished
\* scan is on disk, a member is the sample that was put there, a license stays as
\* it was typed; a MIDI file has one tag at most, which was given to it, and a
\* request that is answered with success gave each file its tag; an export is whole,
\* and an import replaces the library or leaves it.
LibraryKept ==
  /\ focus = "store" => SavedUnlessScanning /\ ScanAllOrNothing /\ MembersMeant /\ LicenseKept
  /\ focus = "midiStore" => LinksMeant /\ OneTagEach /\ TagAnswerTrue
  /\ focus = "migration" => ExportWhole /\ LiveWhole /\ ImportTellsTruth /\ OldLibraryKept

\* Work that has ended has left all of it or nothing: a provider's import its files
\* and no other file changed, the pool of the analyses each result.
WorkAccounted ==
  /\ focus = "import" => NothingOverwritten /\ FailedLeavesNothing /\ ReadyIsWhole
  /\ focus = "pool" => PoolDrained
===============================================================================
