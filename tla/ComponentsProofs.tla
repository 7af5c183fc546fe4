---------------------------- MODULE ComponentsProofs ----------------------------
(***************************************************************************)
(* The components together.  Each keeps its invariant while another one    *)
(* moves, so what a run says of all of them follows part by part.          *)
(***************************************************************************)
EXTENDS MCComponents, ScreenProofs, LibraryProofs

AudioSteps ==
  [AuditionNext]_auditionVars /\ [BarNext]_barVars /\ [PitchNext]_pitchVars /\ [PlayerNext]_playerVars
ScreenSteps ==
  /\ [MidiNext]_midiVars /\ [TagEditNext]_tagEditVars
  /\ [EditNext]_editVars /\ [SimilarNext]_similarVars
  /\ [LanguageNext]_languageVars /\ [ListNext]_listVars /\ [DragNext]_dragVars
SidebarSteps ==
  /\ [CollectionsNext]_collectionVars /\ [LabelsNext]_labelVars /\ [ScanNext]_scanVars
  /\ [DiscoveryNext]_discoveryVars /\ [FreesoundNext]_freesoundVars
BackendSteps ==
  /\ [ImportNext]_importVars /\ [StoreNext]_storeVars /\ [MidiStoreNext]_midiStoreVars
  /\ [MigrationNext]_migrationVars /\ [PoolNext]_poolVars

\* While one component moves, the others rest.
LEMMA ComponentsMoveAlone ==
  [ComponentsNext]_componentVars => AudioSteps /\ ScreenSteps /\ SidebarSteps /\ BackendSteps
  <1> SUFFICES ASSUME [ComponentsNext]_componentVars
               PROVE  AudioSteps /\ ScreenSteps /\ SidebarSteps /\ BackendSteps
    OBVIOUS
  <1> USE DEF audioVars, midiScreenVars, sampleScreenVars, sampleListVars, sidebarVars, sourceVars,
              backendVars
  <1>1. AudioSteps
    BY DEF AudioSteps, ComponentsNext, componentVars, AudioNext, MidiScreenNext, SampleScreenNext,
           SampleListNext, SidebarNext, SourceNext, BackendNext
  <1>2. ScreenSteps
    BY DEF ScreenSteps, ComponentsNext, componentVars, AudioNext, MidiScreenNext, SampleScreenNext,
           SampleListNext, SidebarNext, SourceNext, BackendNext
  <1>3. SidebarSteps
    BY DEF SidebarSteps, ComponentsNext, componentVars, AudioNext, MidiScreenNext, SampleScreenNext,
           SampleListNext, SidebarNext, SourceNext, BackendNext
  <1>4. BackendSteps
    BY DEF BackendSteps, ComponentsNext, componentVars, AudioNext, MidiScreenNext, SampleScreenNext,
           SampleListNext, SidebarNext, SourceNext, BackendNext
  <1> QED
    BY <1>1, <1>2, <1>3, <1>4

BackendInv == StoreInv /\ MidiStoreInv /\ MigrationInv /\ ImportInv /\ PoolInv
PlayedInv == PlayerInv /\ FreesoundInv /\ HeardInv /\ PitchInv /\ AuditionInv
ListedInv == ScanInv /\ DiscoveryInv /\ MidiInv
EditedInv == EditInv /\ TagEditInv /\ DragInv

LEMMA BackendInvariant == ComponentsSpec => []BackendInv
  <1>1. ComponentsInit => BackendInv
    BY StoreInitInv, MidiStoreInitInv, MigrationInitInv, ImportInitInv, PoolInitInv
    DEF ComponentsInit, BackendInv
  <1>2. BackendInv /\ [ComponentsNext]_componentVars => BackendInv'
    BY ComponentsMoveAlone, StoreNextInv, MidiStoreNextInv, MigrationNextInv, ImportNextInv,
       PoolNextInv
    DEF BackendSteps, BackendInv
  <1> QED
    BY <1>1, <1>2, PTL DEF ComponentsSpec

LEMMA PlayedInvariant == ComponentsSpec => []PlayedInv
  <1>1. ComponentsInit => PlayedInv
    BY PlayerInitInv, FreesoundInitInv, HeardInitInv, PitchInitInv, AuditionInitInv
    DEF ComponentsInit, PlayedInv
  <1>2. PlayedInv /\ [ComponentsNext]_componentVars => PlayedInv'
    <2> SUFFICES ASSUME PlayedInv, [ComponentsNext]_componentVars PROVE PlayedInv'
      OBVIOUS
    <2>1. AudioSteps /\ SidebarSteps
      BY ComponentsMoveAlone
    <2>2. PlayerInv' /\ HeardInv'
      BY <2>1, PlayerNextInv, HeardNextInv DEF AudioSteps, PlayedInv
    <2>3. PitchInv' /\ AuditionInv'
      BY <2>1, PitchNextInv, AuditionNextInv DEF AudioSteps, PlayedInv
    <2>4. FreesoundInv'
      BY <2>1, FreesoundNextInv DEF SidebarSteps, PlayedInv
    <2> QED
      BY <2>2, <2>3, <2>4 DEF PlayedInv
  <1> QED
    BY <1>1, <1>2, PTL DEF ComponentsSpec

LEMMA ListedInvariant == ComponentsSpec => []ListedInv
  <1>1. ComponentsInit => ListedInv
    BY ScanInitInv, DiscoveryInitInv, MidiInvInit DEF ComponentsInit, ListedInv
  <1>2. ListedInv /\ [ComponentsNext]_componentVars => ListedInv'
    BY ComponentsMoveAlone, ScanNextInv, DiscoveryNextInv, MidiInvNext
    DEF SidebarSteps, ScreenSteps, ListedInv
  <1> QED
    BY <1>1, <1>2, PTL DEF ComponentsSpec

LEMMA EditedInvariant == ComponentsSpec => []EditedInv
  <1>1. ComponentsInit => EditedInv
    BY EditInitInv, TagEditInitInv, DragInitInv DEF ComponentsInit, EditedInv
  <1>2. EditedInv /\ [ComponentsNext]_componentVars => EditedInv'
    BY ComponentsMoveAlone, EditNextInv, TagEditNextInv, DragNextInv DEF ScreenSteps, EditedInv
  <1> QED
    BY <1>1, <1>2, PTL DEF ComponentsSpec

\* The library loses nothing and mixes up nothing, whichever part moves: a scan is kept
\* whole or not at all, a member and a MIDI tag are what was put there, and an export
\* or an import leaves a whole library.
THEOREM LibraryIsKept == ComponentsSpec => []LibraryKept
  <1>1. BackendInv => LibraryKept
    BY StoreKept, MigrationKept DEF BackendInv, MidiStoreInv, LibraryKept
  <1> QED
    BY <1>1, BackendInvariant, PTL

\* An import that has ended left its files or nothing, and the pool that is shut down
\* has lost no analysis.
THEOREM WorkIsAccounted == ComponentsSpec => []WorkAccounted
  <1>1. BackendInv => WorkAccounted
    BY ImportKept, PoolKept DEF BackendInv, WorkAccounted
  <1> QED
    BY <1>1, BackendInvariant, PTL

\* What sounds is what its screen says is playing, on every screen that plays.
THEOREM SoundsAreOwned == ComponentsSpec => []SoundIsOwned
  <1>1. PlayedInv => SoundIsOwned
    BY PlayerSafe, FreesoundSafe, BarSafe, PitchSafe, AuditionSafe DEF PlayedInv, SoundIsOwned
  <1> QED
    BY <1>1, PlayedInvariant, PTL

\* What a screen shows as busy is under way, and what is under way is shown, on every
\* screen that has such a flag, for every number of calls.
THEOREM FlagsAreTrue == ComponentsSpec => []FlagsMatchWork
  <1>1. PlayedInv /\ ListedInv => FlagsMatchWork
    BY FreesoundSafe, BarSafe, PitchSafe, AuditionSafe, ScanKept, DiscoveryKept, MidiFlagsKept
    DEF PlayedInv, ListedInv, MidiInv, FlagsMatchWork
  <1> QED
    BY <1>1, PlayedInvariant, ListedInvariant, PTL

\* No object URL and no listener outlives its screen, whichever request is answered
\* after it is left.
THEOREM NothingIsLeaked == ComponentsSpec => []NothingLeaks
  <1>1. PlayedInv /\ ListedInv => NothingLeaks
    BY FreesoundSafe, BarSafe, ScanKept DEF PlayedInv, ListedInv, NothingLeaks
  <1> QED
    BY <1>1, PlayedInvariant, ListedInvariant, PTL

\* The newest save is what the samples hold, a tag dialog begins with the file's tag,
\* and what is dragged has the row's edits, for every selection and order of answers.
THEOREM EditsAreKept == ComponentsSpec => []EditsHold
  <1>1. EditedInv => EditsHold
    BY EditKept, TagEditKept, DragKept DEF EditedInv, EditsHold
  <1> QED
    BY <1>1, EditedInvariant, PTL

ShownInv == CollectionsInv /\ LabelsInv /\ SimilarInv /\ LanguageInv /\ ListInv
TypesInv == StoreRest /\ MidiStoreRest /\ MigrationTypeOK /\ ImportRest /\ PoolRest
FocusKnown ==
  focus \in Audio \cup MidiScreen \cup SampleScreen \cup SampleListParts \cup Sidebar \cup Source
              \cup Backend

LEMMA ShownInvariant == ComponentsSpec => []ShownInv
  <1>1. ComponentsInit => ShownInv
    BY CollectionsInitInv, LabelsInitInv, SimilarInitInv, LanguageInvInit, ListInitInv
    DEF ComponentsInit, ShownInv
  <1>2. ShownInv /\ [ComponentsNext]_componentVars => ShownInv'
    <2> SUFFICES ASSUME ShownInv, [ComponentsNext]_componentVars PROVE ShownInv'
      OBVIOUS
    <2>1. ScreenSteps /\ SidebarSteps
      BY ComponentsMoveAlone
    <2>2. CollectionsInv' /\ LabelsInv'
      BY <2>1, CollectionsNextInv, LabelsNextInv DEF SidebarSteps, ShownInv
    <2>3. SimilarInv' /\ LanguageInv' /\ ListInv'
      BY <2>1, SimilarNextInv, LanguageInvNext, ListNextInv DEF ScreenSteps, ShownInv
    <2> QED
      BY <2>2, <2>3 DEF ShownInv
  <1> QED
    BY <1>1, <1>2, PTL DEF ComponentsSpec

LEMMA TypesInvariant == ComponentsSpec => []TypesInv
  <1>1. ComponentsInit => TypesInv
    BY StoreInitRest, MidiStoreInitRest, MigrationInitTyped, ImportInitRest, PoolInitRest
    DEF ComponentsInit, TypesInv
  <1>2. BackendInv /\ TypesInv /\ [ComponentsNext]_componentVars => TypesInv'
    <2> SUFFICES ASSUME BackendInv, TypesInv, [ComponentsNext]_componentVars PROVE TypesInv'
      OBVIOUS
    <2>1. BackendSteps
      BY ComponentsMoveAlone
    <2>2. StoreRest' /\ MidiStoreRest' /\ MigrationTypeOK'
      BY <2>1, StoreNextRest, MidiStoreNextRest, MigrationNextTyped
      DEF BackendSteps, BackendInv, TypesInv
    <2>3. ImportRest' /\ PoolRest'
      BY <2>1, ImportNextRest, PoolNextRest DEF BackendSteps, TypesInv
    <2> QED
      BY <2>2, <2>3 DEF TypesInv
  <1> QED
    BY <1>1, <1>2, BackendInvariant, PTL DEF ComponentsSpec

LEMMA FocusInvariant == ComponentsSpec => []FocusKnown
  <1>1. ComponentsInit => FocusKnown
    BY DEF ComponentsInit, FocusKnown
  <1>2. FocusKnown /\ [ComponentsNext]_componentVars => FocusKnown'
    BY DEF FocusKnown, ComponentsNext, componentVars, AudioNext, MidiScreenNext, SampleScreenNext,
           SampleListNext, SidebarNext, SourceNext, BackendNext
  <1> QED
    BY <1>1, <1>2, PTL DEF ComponentsSpec

\* Each variable of each component has its type, whichever of them moves.
THEOREM ComponentsTyped == ComponentsSpec => []ComponentsTypeOK
  <1>1. PlayedInv => AuditionTypeOK /\ BarTypeOK /\ PitchTypeOK /\ PlayerTypeOK /\ FreesoundTypeOK
    BY AuditionSafe, BarSafe, PitchSafe, PlayerSafe, FreesoundSafe DEF PlayedInv
  <1>2. ListedInv => MidiTypeOK /\ ScanTypeOK /\ DiscoveryTypeOK
    BY MidisAreCurrent, ScanKept, DiscoveryKept DEF ListedInv
  <1>3. EditedInv => TagEditTypeOK /\ EditTypeOK /\ DragTypeOK
    BY DragKept DEF EditedInv, EditInv, TagEditInv
  <1>4. ShownInv => /\ CollectionsTypeOK /\ LabelsTypeOK /\ SimilarTypeOK /\ LanguageTypeOK
                    /\ ListTypeOK
    BY CollectionsAreCurrent, LabelsAreCurrent DEF ShownInv, SimilarInv, LanguageInv, ListInv
  <1>5. BackendInv /\ TypesInv =>
          /\ ImportTypeOK /\ StoreTypeOK /\ MidiStoreTypeOK /\ MigrationTypeOK /\ PoolTypeOK
    BY ImportTyped, StoreTyped, MidiStoreTyped, PoolTyped DEF BackendInv, TypesInv
  <1>6. ASSUME PlayedInv, ListedInv, EditedInv, ShownInv, BackendInv, TypesInv, FocusKnown
        PROVE  ComponentsTypeOK
    <2> USE <1>6 DEF ComponentsTypeOK
    <2>1. CASE focus \in Audio
      BY <1>1, <2>1, ZenonT(40) DEF Audio
    <2>2. CASE focus \in MidiScreen \cup SampleScreen
      BY <1>2, <1>3, <1>4, <2>2, ZenonT(40) DEF MidiScreen, SampleScreen
    <2>3. CASE focus \in SampleListParts \cup Sidebar
      BY <1>2, <1>3, <1>4, <2>3, ZenonT(40) DEF SampleListParts, Sidebar
    <2>4. CASE focus \in Source
      BY <1>1, <1>2, <2>4, ZenonT(40) DEF Source
    <2>5. CASE focus \in Backend
      BY <1>5, <2>5, ZenonT(40) DEF Backend
    <2> QED
      BY <2>1, <2>2, <2>3, <2>4, <2>5 DEF FocusKnown
  <1> QED
    BY <1>6, PlayedInvariant, ListedInvariant, EditedInvariant, ShownInvariant, BackendInvariant,
       TypesInvariant, FocusInvariant, PTL

\* Once every answer is there, each list and panel shows what was asked for last and
\* what the library holds, each thing once, in whatever order the answers come; and
\* both readers of a search text find what it means.
THEOREM ShownIsWhatWasAsked == ComponentsSpec => []ShownIsAsked
  <1>1. ListedInv => RowsOfQuery /\ ListsCurrent /\ MidisOnce /\ MidisCurrent
    BY DiscoveryKept, MidisAreCurrent DEF ListedInv
  <1>2. ShownInv => CollectionsCurrent /\ LabelsCurrent
    BY CollectionsAreCurrent, LabelsAreCurrent DEF ShownInv
  <1>3. ShownInv => /\ SimilarShown /\ RecentOnce /\ FilterOffered
                    /\ ArrowIsNeighbour /\ SelectionHasRow
    BY DEF ShownInv, SimilarInv, ListInv
  <1>4. ShownInv => FoundIsMeant /\ FoundIsShown
    BY CoreReadsText, ListShowsFound DEF ShownInv
  <1>5. ListedInv /\ ShownInv => ShownIsAsked
    BY <1>1, <1>2, <1>3, <1>4 DEF ShownIsAsked
  <1> QED
    BY <1>5, ListedInvariant, ShownInvariant, PTL
===============================================================================
