------------------------------- MODULE MidiPlayer -------------------------------
(***************************************************************************)
(* Playing a MIDI file: hooks/midiState/useMidiPlayback.ts, the view       *)
(* change of hooks/useUIState.ts, the keys of MidiList and the panel with  *)
(* the play button, over commands/midi_playback.rs, which starts and kills *)
(* a player process.                                                       *)
(*                                                                         *)
(* play_midi runs beside other commands: it kills the player it knows of,  *)
(* and starts the next one a moment later.                                 *)
(***************************************************************************)
EXTENDS UiBase

CONSTANTS Songs

VARIABLES
  midiView,       \* viewMode is "midi"
  autoPlay,       \* autoPlayOnSelect
  song,           \* selectedMidi
  isMidiPlaying,
  running,        \* the backend: the songs that player processes play
  tracked,        \* the song of timidity_pid, which may be over
  playerCalls,
  overlapped,     \* history: a command was sent while another was under way
  playsOverlapped \* history: a play_midi was sent while another had not started its player

playerVars == <<midiView, autoPlay, song, isMidiPlaying, running, tracked, playerCalls,
                overlapped, playsOverlapped>>

\* then: what the renderer does with the answer.
PlayerCall == [op : {"play", "stop"}, song : Songs \cup {None},
               then : {"flag", "select", "play", "sample", "midi"},
               step : {"asked", "killed", "done", "failed"}]

-----------------------------------------------------------------------------
\* Sending.

Starting(c) == c.op = "play" /\ c.step \in {"asked", "killed"}

SendTo(calls, op, s, then) ==
  /\ Cardinality(calls) < MaxCalls
  /\ playerCalls' = calls \cup {[op |-> op, song |-> s, then |-> then, step |-> "asked"]}
  /\ overlapped' = (overlapped \/ calls # {})
  /\ playsOverlapped' = (playsOverlapped \/ (op = "play" /\ \E c \in calls : Starting(c)))

NoCall == UNCHANGED <<playerCalls, overlapped, playsOverlapped>>

\* The rest of handleMidiSelect, over the calls that are left; another: the
\* click was on another row than the selected one.
Select(s, another, calls) ==
  /\ song' = s
  /\ IF autoPlay /\ another
       THEN SendTo(calls, "play", s, "flag")
       ELSE playerCalls' = calls /\ UNCHANGED <<overlapped, playsOverlapped>>

HandleMidiSelect(s) ==
  /\ IF s # song /\ isMidiPlaying
       THEN SendTo(playerCalls, "stop", s, "select") /\ UNCHANGED song
       ELSE Select(s, s # song, playerCalls)
  /\ UNCHANGED <<midiView, autoPlay, isMidiPlaying, running, tracked>>

ClickRow(s) == midiView /\ HandleMidiSelect(s)

\* The arrow keys go to the next row of the list, and never to the same one.
ArrowKey(s) == midiView /\ s # song /\ HandleMidiSelect(s)

TogglePlaySelectedMidi ==
  /\ song # None
  /\ SendTo(playerCalls, IF isMidiPlaying THEN "stop" ELSE "play", song, "flag")
  /\ UNCHANGED <<midiView, autoPlay, song, isMidiPlaying, running, tracked>>

\* The panel of the selected file, and the space bar in the list.
PlayButton == midiView /\ TogglePlaySelectedMidi

SpaceKey == midiView /\ TogglePlaySelectedMidi

\* The file of the sidebar has been loaded and is selected; saw: isMidiPlaying
\* as it was when the file was clicked.
PlayMidi(s, saw) ==
  /\ midiView
  /\ song' = s
  /\ IF ~autoPlay THEN NoCall
     ELSE IF saw THEN SendTo(playerCalls, "stop", s, "play")
     ELSE SendTo(playerCalls, "play", s, "flag")
  /\ UNCHANGED <<midiView, autoPlay, isMidiPlaying, running, tracked>>

\* Closing the panel, or choosing a directory, stops what plays.
CloseMidiPanel ==
  /\ midiView /\ song # None
  /\ song' = None
  /\ IF isMidiPlaying THEN SendTo(playerCalls, "stop", song, "flag") ELSE NoCall
  /\ UNCHANGED <<midiView, autoPlay, isMidiPlaying, running, tracked>>

\* The view changes once what plays has been stopped.
StopAndChange(mode) ==
  IF isMidiPlaying
    THEN SendTo(playerCalls, "stop", None, mode) /\ UNCHANGED <<midiView, isMidiPlaying>>
    ELSE midiView' = (mode = "midi") /\ NoCall /\ UNCHANGED isMidiPlaying

ChangeView(mode) ==
  /\ StopAndChange(mode)
  /\ UNCHANGED <<autoPlay, song, running, tracked>>

-----------------------------------------------------------------------------
\* The backend.

Kill == running' = running \ {tracked} /\ tracked' = None

Reach(c, step) == playerCalls' = (playerCalls \ {c}) \cup {[c EXCEPT !.step = step]}

StopServed(c) ==
  /\ c.op = "stop" /\ c.step = "asked"
  /\ Kill /\ Reach(c, "done")
  /\ UNCHANGED <<midiView, autoPlay, song, isMidiPlaying, overlapped, playsOverlapped>>

PlayKills(c) ==
  /\ c.op = "play" /\ c.step = "asked"
  /\ Kill /\ Reach(c, "killed")
  /\ UNCHANGED <<midiView, autoPlay, song, isMidiPlaying, overlapped, playsOverlapped>>

PlayStarts(c) ==
  /\ c.op = "play" /\ c.step = "killed"
  /\ running' = running \cup {c.song} /\ tracked' = c.song
  /\ Reach(c, "done")
  /\ UNCHANGED <<midiView, autoPlay, song, isMidiPlaying, overlapped, playsOverlapped>>

\* The player is not installed, or does not start.
PlayCannotStart(c) ==
  /\ c.op = "play" /\ c.step = "killed"
  /\ Reach(c, "failed")
  /\ UNCHANGED <<midiView, autoPlay, song, isMidiPlaying, running, tracked, overlapped, playsOverlapped>>

\* A song ends; nobody is told.
SongEnds(s) ==
  /\ s \in running
  /\ running' = running \ {s}
  /\ UNCHANGED <<midiView, autoPlay, song, isMidiPlaying, tracked, playerCalls, overlapped, playsOverlapped>>

-----------------------------------------------------------------------------
\* The answers.

\* Commands no longer overlap once it is silent.
Silence ==
  /\ overlapped /\ playerCalls = {} /\ running = {}
  /\ overlapped' = FALSE /\ playsOverlapped' = FALSE
  /\ UNCHANGED <<midiView, autoPlay, song, isMidiPlaying, running, tracked, playerCalls>>

PlayReturns(c) ==
  /\ c.op = "play" /\ c.step \in {"done", "failed"}
  /\ isMidiPlaying' = (c.step = "done")
  /\ playerCalls' = playerCalls \ {c}
  /\ UNCHANGED <<midiView, autoPlay, song, running, tracked, overlapped, playsOverlapped>>

StopReturns(c) ==
  /\ c.op = "stop" /\ c.step = "done"
  /\ isMidiPlaying' = FALSE
  /\ CASE c.then = "flag" ->
            playerCalls' = playerCalls \ {c} /\ UNCHANGED <<midiView, song, overlapped, playsOverlapped>>
       [] c.then \in {"sample", "midi"} ->
            /\ midiView' = (c.then = "midi")
            /\ playerCalls' = playerCalls \ {c}
            /\ UNCHANGED <<song, overlapped, playsOverlapped>>
       [] c.then = "select" -> Select(c.song, TRUE, playerCalls \ {c}) /\ UNCHANGED midiView
       [] c.then = "play" ->
            SendTo(playerCalls \ {c}, "play", c.song, "flag") /\ UNCHANGED <<midiView, song>>
  /\ UNCHANGED <<autoPlay, running, tracked>>

-----------------------------------------------------------------------------
PlayerInit ==
  /\ midiView = FALSE /\ autoPlay \in BOOLEAN
  /\ song = None /\ isMidiPlaying = FALSE
  /\ running = {} /\ tracked = None /\ playerCalls = {}
  /\ overlapped = FALSE /\ playsOverlapped = FALSE

PlayerUser ==
  \/ \E s \in Songs : ClickRow(s) \/ ArrowKey(s) \/ \E saw \in BOOLEAN : PlayMidi(s, saw)
  \/ PlayButton \/ SpaceKey \/ CloseMidiPanel
  \/ \E mode \in {"sample", "midi"} : ChangeView(mode)

PlayerReturn ==
  \E c \in playerCalls :
    StopServed(c) \/ PlayKills(c) \/ PlayStarts(c) \/ PlayReturns(c) \/ StopReturns(c)

PlayerNext ==
  \/ PlayerUser \/ PlayerReturn \/ Silence
  \/ \E c \in playerCalls : PlayCannotStart(c)
  \/ \E s \in Songs : SongEnds(s)

PlayerSpec == PlayerInit /\ [][PlayerNext]_playerVars

-----------------------------------------------------------------------------
\* Each variable of the player has its type.
PlayerTypeOK ==
  /\ {midiView, autoPlay, isMidiPlaying, overlapped, playsOverlapped} \subseteq BOOLEAN
  /\ song \in Songs \cup {None} /\ tracked \in Songs \cup {None}
  /\ running \subseteq Songs /\ playerCalls \subseteq PlayerCall

\* Stops may overlap with everything: as long as no two play_midi overlapped - each
\* kills the player it finds and forgets it, so of two that start a player only one
\* is known - no player runs that stop_midi would not find.  And a sound that is
\* heard can be stopped, for the button says so, unless an answer was overtaken.
MidiSoundOwned ==
  /\ ~playsOverlapped => running \subseteq {tracked}
  /\ ~overlapped /\ playerCalls = {} /\ running # {} => isMidiPlaying
===============================================================================
