---------------------------- MODULE SearchLanguage ----------------------------
(***************************************************************************)
(* The search text of samples is read twice: by the core, which finds rows *)
(* (search_dsl.rs), and by the list, which filters what was found          *)
(* (utils/searchDsl.ts, sampleFilter.ts), after the mapper made samples of *)
(* the rows (sampleMapper.ts).  A row has to pass both to be seen.         *)
(*                                                                         *)
(* Characters are abstracted: a text is the sequence of its clauses, which *)
(* tokenize cuts at the blanks outside quotes.  A clause with no field, an *)
(* unknown field or no value is text, and text is the set of its words.    *)
(* Names that contain a clause literally are left out.                     *)
(***************************************************************************)
EXTENDS UiBase

CONSTANTS
  Words,         \* words of names, tags and of what else is known of a sample
  Instruments, BuiltIn,   \* instrument types, and those the mapper knows
  LibraryRows,   \* rows to look for
  KeysWritten,   \* keys that are typed
  MaxClauses     \* bound of the model: clauses of the text

VARIABLES searchText, row, isFavorite

languageVars == <<searchText, row, isFavorite>>

-----------------------------------------------------------------------------
\* What is written: keys with a root, an accidental and an m; numbers, some with
\* letters after the digits; types, with and without a hyphen.

KeyText == [root : {"A", "B", "C", "D", "E", "F", "G", "H"}, mark : {"", "#", "b"}, minor : BOOLEAN]

NumberTexts == {"90", "140x", "?"}

Clause ==
  [field : {"text"}, negated : BOOLEAN, value : (SUBSET Words) \ {{}}]
    \cup [field : {"tag"}, negated : BOOLEAN, value : Words]
    \cup [field : {"bpm"}, negated : BOOLEAN, value : {<<n>> : n \in NumberTexts} \cup (NumberTexts \X NumberTexts)]
    \cup [field : {"type"}, negated : BOOLEAN, value : {"loop", "shot", "one-shot", "kick"}]
    \cup [field : {"instrument"}, negated : BOOLEAN, value : Instruments]
    \cup [field : {"key"}, negated : BOOLEAN, value : KeysWritten]
    \cup [field : {"favorite"}, negated : BOOLEAN, value : {"yes", "no", "maybe"}]

Row == [words : SUBSET Words, notes : SUBSET Words, tags : SUBSET Words, bpm : {None, 90, 140},
        playback : {"loop", "oneshot"}, kind : {"loop", "oneshot", "kick"},
        instrument : Instruments, key : KeyText \cup {None}]

ASSUME LanguageAssumption ==
  /\ LibraryRows \subseteq Row /\ KeysWritten \subseteq KeyText /\ BuiltIn \subseteq Instruments /\ {"kick", "other"} \subseteq BuiltIn
  /\ MaxClauses \in Nat /\ None \notin Instruments
  \* analyze_file and update_sample_classification call a loop a loop in both columns.
  /\ \A r \in LibraryRows : r.playback = "loop" => r.kind = "loop"

-----------------------------------------------------------------------------
\* Reading the values.

\* parseFloat stops at the first letter; the core wants nothing but the number.
ReadNumber(core, text) ==
  CASE text = "90" -> 90
    [] text = "140x" -> IF core THEN None ELSE 140
    [] text = "?" -> None

NumberRange(core, value) ==
  LET range == [min |-> ReadNumber(core, value[1]), max |-> ReadNumber(core, value[Len(value)])]
  IN IF range = [min |-> None, max |-> None] THEN None ELSE range

InRange(bpm, range) ==
  /\ bpm # None
  /\ range.min # None => bpm >= range.min
  /\ range.max # None => bpm <= range.max

\* Flats are written as sharps; H, E sharp and B sharp are no keys.
NormalizeKey(k) ==
  LET below == [D |-> "C", E |-> "D", G |-> "F", A |-> "G", B |-> "A"] IN
  CASE k = None -> None
    [] k # None /\ k.mark = "b" -> IF k.root \in DOMAIN below THEN <<below[k.root], "#">> ELSE None
    [] k # None /\ k.mark = "#" -> IF k.root \in {"B", "E", "H"} THEN None ELSE <<k.root, "#">>
    [] k # None /\ k.mark = "" -> IF k.root = "H" THEN None ELSE <<k.root, "">>

PlaybackLabel(text) == IF text \in {"one", "shot", "oneshot", "one-shot"} THEN "oneshot" ELSE text

PlaybackType(text) ==
  IF PlaybackLabel(text) \in {"loop", "oneshot"} THEN PlaybackLabel(text) ELSE None

ParseBoolean(text) == IF text = "yes" THEN TRUE ELSE IF text = "no" THEN FALSE ELSE None

-----------------------------------------------------------------------------
\* The two readers.  A field that is written twice has the value of its last
\* clause, and none if that cannot be read.

NothingAsked == [text |-> {}, noText |-> {}, tags |-> {}, noTags |-> {},
                 bpm |-> None, type |-> None, instrument |-> None, key |-> None, favorite |-> None]

ReadClause(core, asked, c) ==
  CASE c.field = "text" /\ ~c.negated -> [asked EXCEPT !.text = @ \cup {c.value}]
    [] c.field = "text" /\ c.negated -> [asked EXCEPT !.noText = @ \cup {c.value}]
    [] c.field = "tag" /\ ~c.negated -> [asked EXCEPT !.tags = @ \cup {c.value}]
    [] c.field = "tag" /\ c.negated -> [asked EXCEPT !.noTags = @ \cup {c.value}]
    [] c.field = "bpm" /\ ~c.negated -> [asked EXCEPT !.bpm = NumberRange(core, c.value)]
    [] c.field = "type" /\ ~c.negated -> [asked EXCEPT !.type = PlaybackType(c.value)]
    [] c.field = "instrument" /\ ~c.negated -> [asked EXCEPT !.instrument = c.value]
    [] c.field = "key" /\ ~c.negated -> [asked EXCEPT !.key = NormalizeKey(c.value)]
    [] c.field = "favorite" /\ ~c.negated ->
         [asked EXCEPT !.favorite = IF core THEN None ELSE ParseBoolean(c.value)]
    [] OTHER -> asked

ReadText(core, text) ==
  LET reading[n \in 0..Len(text)] ==
        IF n = 0 THEN NothingAsked ELSE ReadClause(core, reading[n - 1], text[n])
  IN reading[Len(text)]

\* Words are looked for in the name and in the tags.
HasWords(r, words) == words \subseteq r.words \cup r.tags

Matches(asked, r, favorite) ==
  /\ \A words \in asked.text : HasWords(r, words)
  /\ \A words \in asked.noText : ~HasWords(r, words)
  /\ asked.bpm # None => InRange(r.bpm, asked.bpm)
  /\ asked.type # None => asked.type \in {PlaybackLabel(r.playback), PlaybackLabel(r.kind)}
  /\ asked.instrument # None => r.instrument = asked.instrument
  /\ asked.key # None => NormalizeKey(r.key) = asked.key
  /\ asked.favorite # None => favorite = asked.favorite
  /\ asked.tags \subseteq r.tags
  /\ asked.noTags \cap r.tags = {}

CoreFinds(text, r) == Matches(ReadText(TRUE, text), r, FALSE)

-----------------------------------------------------------------------------
\* What the list makes of a row.

\* Types that users added are shown as other.
ShownInstrument(r) ==
  LET known == IF r.instrument \in BuiltIn THEN r.instrument ELSE "other" IN
    IF known = "other" /\ r.kind = "kick" THEN "kick" ELSE known

ShownKind(r) == IF "loop" \in {r.playback, r.kind} THEN "loop" ELSE "one-shot"

MapRowToSample(r) == [r EXCEPT !.instrument = ShownInstrument(r), !.kind = ShownKind(r)]

\* Plain words, without quotes, may also be in the source, the pack, the licence or the flags.
PlainMatch(text, r) ==
  \A k \in DOMAIN text : /\ text[k].field = "text" /\ ~text[k].negated
                         /\ Cardinality(text[k].value) = 1
                         /\ text[k].value \subseteq r.words \cup r.tags \cup r.notes

ListKeeps(text, r, favorite) ==
  \/ Matches(ReadText(FALSE, text), MapRowToSample(r), favorite)
  \/ PlainMatch(text, MapRowToSample(r))

-----------------------------------------------------------------------------
\* The text is typed, and what it looks for changes.

TypeClause(c) ==
  /\ Len(searchText) < MaxClauses
  /\ searchText' = Append(searchText, c)
  /\ UNCHANGED <<row, isFavorite>>

ClearText ==
  /\ searchText' = << >>
  /\ UNCHANGED <<row, isFavorite>>

ToggleFavorite ==
  /\ isFavorite' = ~isFavorite
  /\ UNCHANGED <<searchText, row>>

UpdateSampleClassification(playback, instrument) ==
  /\ row' = [row EXCEPT !.playback = playback, !.kind = playback, !.instrument = instrument]
  /\ UNCHANGED <<searchText, isFavorite>>

LanguageInit == searchText = << >> /\ row \in LibraryRows /\ isFavorite = FALSE

LanguageNext ==
  \/ \E c \in Clause : TypeClause(c)
  \/ ClearText \/ ToggleFavorite
  \/ \E playback \in {"loop", "oneshot"}, instrument \in Instruments :
       UpdateSampleClassification(playback, instrument)

LanguageSpec == LanguageInit /\ [][LanguageNext]_languageVars

-----------------------------------------------------------------------------
\* Each variable of the search has its type.
LanguageTypeOK ==
  searchText \in Seq(Clause) /\ row \in Row /\ isFavorite \in BOOLEAN

\* What a text means, clause by clause.
Clauses(text, field) == {k \in DOMAIN text : text[k].field = field}
Deciding(text, field) ==
  {k \in Clauses(text, field) : ~text[k].negated /\ \A j \in Clauses(text, field) : j <= k \/ text[j].negated}

Holds(c, r) ==
  CASE c.field = "bpm" -> NumberRange(TRUE, c.value) # None => InRange(r.bpm, NumberRange(TRUE, c.value))
    [] c.field = "type" -> PlaybackType(c.value) \in {None, PlaybackLabel(r.playback), PlaybackLabel(r.kind)}
    [] c.field = "instrument" -> c.value = r.instrument
    [] c.field = "key" -> NormalizeKey(c.value) \in {None, NormalizeKey(r.key)}

\* The core finds a row exactly if all its words and tags are there, none that are
\* excluded is, and for each other field the last clause that asks for it holds or
\* cannot be read.
FoundIsMeant ==
  CoreFinds(searchText, row) <=>
    /\ \A k \in Clauses(searchText, "text") : HasWords(row, searchText[k].value) # searchText[k].negated
    /\ \A k \in Clauses(searchText, "tag") : (searchText[k].value \in row.tags) # searchText[k].negated
    /\ \A field \in {"bpm", "type", "instrument", "key"} :
         \A k \in Deciding(searchText, field) : Holds(searchText[k], row)

\* What only one of the readers understands, and a type that the list renames.
Loose(c) == c.field = "bpm" /\ \E k \in DOMAIN c.value : c.value[k] = "140x"
Renamed(r) == ShownInstrument(r) # r.instrument

\* The list hides no row that the core found, but for the favourites, which only it
\* knows; numbers that only it can read; and the renamed instruments.
FoundIsShown ==
  CoreFinds(searchText, row)
    /\ Clauses(searchText, "favorite") = {}
    /\ ~(\E k \in DOMAIN searchText : Loose(searchText[k]))
    /\ ~(Renamed(row) /\ Clauses(searchText, "instrument") # {})
    => ListKeeps(searchText, row, isFavorite)
===============================================================================
