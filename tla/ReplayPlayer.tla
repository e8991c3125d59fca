---------------------------- MODULE ReplayPlayer ----------------------------
(***************************************************************************)
(* The playback of a recorded mission in the web console: the replay store *)
(* and the effects of the view that plays it.                              *)
(*                                                                         *)
(* A change of the store renders the view and runs its effects before the  *)
(* browser turns to the next event, so each action ends in the effects     *)
(* (Loaded, RunEffects).  The timer keeps the values its effect has seen.  *)
(*                                                                         *)
(* Speeds are in tenths, times in steps of 5 ms: at speed 1x the playhead  *)
(* moves 50 ms, ten steps, with each beat of the timer.                    *)
(***************************************************************************)
EXTENDS Integers

CONSTANTS
  StartTimeS, \* the times of the mission the views load by themselves
  EndTimeS,
  NoReplay,   \* no dataset
  ScrubTimes, \* bound: where the user may drag the playhead
  Speeds      \* the speeds of the buttons

Sample == [startTimeS |-> StartTimeS, endTimeS |-> EndTimeS]

ASSUME ReplayAssumption ==
  /\ StartTimeS \in Int
  /\ EndTimeS \in Int
  /\ StartTimeS <= EndTimeS
  /\ NoReplay # Sample
  /\ ScrubTimes \subseteq Int
  /\ Speeds \subseteq Int

VARIABLES
  viewing,        \* is the replay on the page?
  dataset,
  currentTimeS,
  isPlaying,
  playbackSpeed,
  timer           \* what the interval has seen; empty without an interval

store == <<dataset, currentTimeS, isPlaying, playbackSpeed>>
replayVars == <<viewing, store, timer>>

Seen == [from : Int, by : Int, until : Int]

ReplayTypeOK ==
  /\ viewing \in BOOLEAN
  /\ dataset \in {NoReplay, Sample}
  /\ currentTimeS \in Int
  /\ isPlaying \in BOOLEAN
  /\ playbackSpeed \in 1..160
  /\ timer \subseteq Seen

ReplayInit ==
  /\ viewing = FALSE
  /\ dataset = NoReplay
  /\ currentTimeS = 0
  /\ isPlaying = FALSE
  /\ playbackSpeed = 10
  /\ timer = {}

LeastOf(a, b) == IF a <= b THEN a ELSE b
GreatestOf(a, b) == IF a <= b THEN b ELSE a

-----------------------------------------------------------------------------
(***************************************************************************)
(* The effects of the view.                                                *)
(***************************************************************************)

\* Mutant: the timer's effect does not depend on the playhead.
DepsWithoutPlayhead == <<viewing, dataset, isPlaying, playbackSpeed>>

Deps == <<viewing, dataset, isPlaying, playbackSpeed, currentTimeS>>

Plays == viewing /\ isPlaying /\ dataset # NoReplay

\* The timer is set anew when one of its dependencies has changed.
RunEffects ==
  timer' = IF Deps' = Deps THEN timer
           ELSE IF Plays'
             THEN {[from |-> currentTimeS', by |-> playbackSpeed', until |-> dataset'.endTimeS]}
           ELSE {}

\* Mutant: the playhead stays where it is when a replay is loaded.
LoadedInPlace ==
  /\ dataset' = Sample
  /\ isPlaying' = FALSE
  /\ UNCHANGED currentTimeS

\* loadReplayFromText, called by an effect of a view without a dataset.
Loaded ==
  /\ dataset' = Sample
  /\ currentTimeS' = Sample.startTimeS
  /\ isPlaying' = FALSE

-----------------------------------------------------------------------------
(***************************************************************************)
(* The store, called by the user and the timer.                            *)
(***************************************************************************)
Clamped(t) ==
  IF dataset = NoReplay THEN GreatestOf(0, t)
  ELSE LeastOf(dataset.endTimeS, GreatestOf(dataset.startTimeS, t))

SetCurrentTimeS(t) == currentTimeS' = Clamped(t)

\* The replay comes onto the page, and loads the sample if there is nothing.
ShowReplay ==
  /\ ~viewing
  /\ viewing' = TRUE
  /\ IF dataset = NoReplay THEN Loaded ELSE UNCHANGED <<dataset, currentTimeS, isPlaying>>
  /\ UNCHANGED playbackSpeed
  /\ RunEffects

\* It leaves the page; the store keeps what it has.
HideReplay ==
  /\ viewing
  /\ viewing' = FALSE
  /\ UNCHANGED store
  /\ RunEffects

\* The controls are there only with a dataset.
Controls == viewing /\ dataset # NoReplay

Toggle ==
  /\ Controls
  /\ isPlaying' = ~isPlaying
  /\ UNCHANGED <<viewing, dataset, currentTimeS, playbackSpeed>>
  /\ RunEffects

Scrub(t) ==
  /\ Controls
  /\ dataset.startTimeS <= t /\ t <= dataset.endTimeS
  /\ SetCurrentTimeS(t)
  /\ UNCHANGED <<viewing, dataset, isPlaying, playbackSpeed>>
  /\ RunEffects

SetPlaybackSpeed(speed) ==
  /\ Controls
  /\ playbackSpeed' = GreatestOf(1, LeastOf(160, speed))
  /\ UNCHANGED <<viewing, dataset, currentTimeS, isPlaying>>
  /\ RunEffects

\* A cleared store is filled again by the view, if there is one.
ClearReplay ==
  /\ dataset # NoReplay
  /\ \/ viewing /\ Loaded
     \/ /\ ~viewing
        /\ dataset' = NoReplay
        /\ currentTimeS' = 0
        /\ isPlaying' = FALSE
  /\ UNCHANGED <<viewing, playbackSpeed>>
  /\ RunEffects

\* Mutant: the timer stops at the end without a pause.
PausedNever == UNCHANGED isPlaying

Paused == isPlaying' = FALSE

Beat ==
  \E s \in timer :
    /\ \/ s.from + s.by >= s.until /\ SetCurrentTimeS(s.until) /\ Paused
       \/ s.from + s.by < s.until /\ SetCurrentTimeS(s.from + s.by) /\ UNCHANGED isPlaying
    /\ UNCHANGED <<viewing, dataset, playbackSpeed>>
    /\ RunEffects

ReplayNext ==
  \/ ShowReplay \/ HideReplay \/ Toggle \/ ClearReplay \/ Beat
  \/ \E t \in ScrubTimes : Scrub(t)
  \/ \E speed \in Speeds : SetPlaybackSpeed(speed)

ReplaySpec == ReplayInit /\ [][ReplayNext]_replayVars

-----------------------------------------------------------------------------
(***************************************************************************)
(* What the player promises.                                               *)
(***************************************************************************)

\* The playhead is within the mission whenever there is one, whatever was
\* loaded, cleared, dragged and played, and the timer has seen it as it is.
PlayheadInRange ==
  /\ dataset # NoReplay =>
       dataset.startTimeS <= currentTimeS /\ currentTimeS <= dataset.endTimeS
  /\ \A s \in timer :
       /\ Plays
       /\ s = [from |-> currentTimeS, by |-> playbackSpeed, until |-> dataset.endTimeS]

\* A beat of the timer never takes the playhead back, not even from a place
\* the user has just dragged it to; and it moves on or playback is over.
PlaybackOnlyAdvances ==
  [][Beat => currentTimeS' > currentTimeS \/ (currentTimeS' = currentTimeS /\ ~isPlaying')]_replayVars

=============================================================================
