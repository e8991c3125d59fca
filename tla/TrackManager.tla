---------------------------- MODULE TrackManager ----------------------------
(***************************************************************************)
(* The track manager: which tracks there are, how often radar has hit and  *)
(* missed them, when they are confirmed and deleted, and what it reports   *)
(* of a tick; and the simulation loop's table of the last event per track, *)
(* which follows those reports.                                            *)
(*                                                                         *)
(* Measurements are left out: which tracks the radar association updates,  *)
(* how many measurements remain that start a track, which tracks an EO/IR  *)
(* measurement refines and which deleted track a new one is near are free  *)
(* choices on every tick.                                                  *)
(***************************************************************************)
EXTENDS Integers

CONSTANTS
  MaxTracks,              \* bound: tracks ever created
  ConfirmHits,            \* confirm_hits
  DeleteMisses,           \* delete_misses
  ConfirmedDeleteMisses,  \* confirmed_delete_misses
  Window,                 \* fragmentation_recent_delete_window_ticks
  UseEoir                 \* enable_eoir_updates

ASSUME TrackManagerAssumption ==
  /\ MaxTracks \in Nat
  /\ ConfirmHits \in Nat
  /\ DeleteMisses \in Nat \ {0}
  /\ ConfirmedDeleteMisses \in Nat \ {0}
  /\ Window \in Nat \ {0}
  /\ UseEoir \in BOOLEAN

VARIABLES
  tracks,   \* tracks_: the quality of each live track, by id
  nextId,   \* next_track_id_
  recent,   \* recently_deleted_tracks_
  deltas,   \* last_tick_deltas_, ids only
  events,   \* the keys of last_track_event_trace_by_track
  pc,       \* whose turn it is: the manager's or the loop's
  since     \* history: updates since radar last hit a live track, or since a
            \* track was deleted

managerVars == <<tracks, nextId, recent, deltas>>
vars == <<managerVars, events, pc, since>>

Ids == 1..MaxTracks
Live == DOMAIN tracks

Quality ==
  [status : {"tentative", "confirmed"},
   hits : 0..ConfirmHits,
   misses : 0..DeleteMisses + ConfirmedDeleteMisses]

Deltas ==
  [created : SUBSET Ids, confirmed : SUBSET Ids, updated : SUBSET Ids,
   coasted : SUBSET Ids, deleted : SUBSET Ids, warnings : SUBSET (Ids \X Ids)]

TypeOK ==
  /\ Live \subseteq Ids /\ \A t \in Live : tracks[t] \in Quality
  /\ nextId \in 1..MaxTracks + 1
  /\ recent \subseteq [id : Ids, confirmed : BOOLEAN, left : 0..Window]
  /\ deltas \in Deltas
  /\ events \subseteq Ids
  /\ pc \in {"update", "report"}
  /\ since \in [Ids -> 0..Window + DeleteMisses + ConfirmedDeleteMisses]

NoDeltas ==
  [created |-> {}, confirmed |-> {}, updated |-> {}, coasted |-> {},
   deleted |-> {}, warnings |-> {}]

Init ==
  /\ tracks = [t \in {} |-> {}]
  /\ nextId = 1
  /\ recent = {}
  /\ deltas = NoDeltas
  /\ events = {}
  /\ pc = "update"
  /\ since = [t \in Ids |-> 0]

-----------------------------------------------------------------------------
(***************************************************************************)
(* What happens to the quality of one track.  Hits matter only up to the   *)
(* number that confirms, so they are counted no further.                   *)
(***************************************************************************)
CountHit(n) == IF n < ConfirmHits THEN n + 1 ELSE n

\* Mutant: the misses of earlier ticks are kept.
RadarHitKeepingMisses(q) == [q EXCEPT !.hits = CountHit(@)]

RadarHit(q) == [q EXCEPT !.hits = CountHit(@), !.misses = 0]

Miss(q) == [q EXCEPT !.misses = @ + 1]

\* Mutant: a refinement counts as having been seen.
RefinementIsHit(q) == [q EXCEPT !.misses = 0]

\* An EO/IR refinement changes score and confidence only.
Refinement(q) == q

NewTrack == RadarHit([status |-> "tentative", hits |-> 0, misses |-> 0])

Threshold(q) ==
  IF q.status = "confirmed" THEN ConfirmedDeleteMisses ELSE DeleteMisses

\* Mutant: a confirmed track is never deleted.
ExpiredTentative(q) == q.status = "tentative" /\ q.misses >= Threshold(q)

Expired(q) == q.misses >= Threshold(q)

\* Mutant: a track is confirmed only on a tick without a miss, and becomes
\* tentative otherwise.
StatusWhileHit(q) ==
  IF q.misses = 0 /\ q.hits >= ConfirmHits THEN "confirmed" ELSE "tentative"

StatusAfter(q) ==
  IF q.hits >= ConfirmHits THEN "confirmed" ELSE q.status

-----------------------------------------------------------------------------
(***************************************************************************)
(* update_with_measurements.                                               *)
(***************************************************************************)

\* Mutant: entries are erased only at the tick after their last.
AgedSlowly == {[r EXCEPT !.left = @ - 1] : r \in {x \in recent : x.left > 0}}

\* age_recently_deleted_tracks: an entry whose time is up is erased at once.
Aged == {[r EXCEPT !.left = @ - 1] : r \in {x \in recent : x.left > 1}}

\* The deleted tracks a new one is compared with.
Lost == {r.id : r \in {x \in Aged : x.confirmed}}

\* The tracks after radar has hit some of them and new ones have been added,
\* and after the EO/IR measurements, but before the lifecycle rules.
Measured(hit, born, refined) ==
  [t \in Live \cup born |->
     LET q == IF t \in born THEN NewTrack
              ELSE IF t \in hit THEN RadarHit(tracks[t])
              ELSE Miss(tracks[t])
     IN  IF t \in refined THEN Refinement(q) ELSE q]

\* apply_lifecycle_rules, for the tracks m.
ApplyLifecycleRules(m) ==
  LET expired == {t \in DOMAIN m : Expired(m[t])}
      kept == DOMAIN m \ expired
  IN  /\ tracks' = [t \in kept |-> [m[t] EXCEPT !.status = StatusAfter(m[t])]]
      /\ recent' = Aged \cup
           {[id |-> t, confirmed |-> m[t].status = "confirmed", left |-> Window] :
              t \in expired}

\* The history after an update that hits some tracks and creates others.
SinceAfter(hit, born) ==
  [t \in Ids |->
     IF t \in hit \cup born \/ (t \in Live /\ t \notin DOMAIN tracks') THEN 0
     ELSE IF t \in Live \/ (t < nextId /\ since[t] < Window) THEN since[t] + 1
     ELSE since[t]]

UpdateWith(hit, born, refined, near) ==
  LET m == Measured(hit, born, refined)
  IN  /\ ApplyLifecycleRules(m)
      /\ deltas' =
           [created   |-> born,
            confirmed |-> {t \in DOMAIN tracks' : m[t].status # tracks'[t].status},
            updated   |-> hit \cup refined,
            coasted   |-> Live \ hit,
            deleted   |-> DOMAIN m \ DOMAIN tracks',
            warnings  |-> {<<near[t], t>> : t \in {x \in born : near[x] # 0}}]
      /\ since' = SinceAfter(hit, born)

Update ==
  /\ pc = "update" /\ pc' = "report"
  /\ \E hit \in SUBSET Live, last \in nextId - 1..MaxTracks :
       LET born == nextId..last
       IN  /\ nextId' = last + 1
           /\ \E refined \in (IF UseEoir THEN SUBSET (Live \cup born) ELSE {{}}),
                 near \in [born -> Lost \cup {0}] :
                UpdateWith(hit, born, refined, near)
  /\ UNCHANGED events

\* Mutant: the events of deleted tracks are handled before those of updates.
ReportDeletedFirst == (events \ deltas.deleted) \cup deltas.created
                        \cup deltas.confirmed \cup deltas.updated

\* The loop logs the tick's events; a deletion is logged after the updates.
Reported == (events \cup deltas.created \cup deltas.confirmed \cup deltas.updated)
              \ deltas.deleted

Report ==
  /\ pc = "report" /\ pc' = "update"
  /\ events' = Reported
  /\ UNCHANGED <<managerVars, since>>

Next == Update \/ Report

Spec == Init /\ [][Next]_vars

-----------------------------------------------------------------------------
(***************************************************************************)
(* Properties.                                                             *)
(***************************************************************************)

\* Radar has hit every live track within the number of updates its status
\* allows: no EO/IR refinement and no earlier confirmation keeps it longer.
NoTrackOutlivesSilence ==
  \A t \in Live :
    since[t] < IF tracks[t].status = "confirmed" THEN ConfirmedDeleteMisses
                                                 ELSE DeleteMisses

\* A track is deleted only when radar has missed it in every one of as many
\* updates in a row as its status asks for.
OnlySilenceDeletes ==
  [][\A t \in Live \ DOMAIN tracks' :
       since[t] + 1 >= IF tracks[t].status = "confirmed" THEN ConfirmedDeleteMisses
                                                         ELSE DeleteMisses]_vars

\* The loop's table has an entry for each live track and for no other, so that
\* a coasting track's event always finds its parent and the table cannot grow.
EventsFollowTracks == pc = "update" => events = Live

\* A new track is linked to a lost one exactly as long as it may be: a track
\* deleted in this update or one of the Window - 1 before it is remembered.
DeletedAreRemembered ==
  \A t \in 1..nextId - 1 \ Live :
    (\E r \in recent : r.id = t) <=> since[t] < Window

\* What the tracker promises to the mission logic.
StageOf(t) ==
  IF t >= nextId THEN "unborn" ELSE IF t \in Live THEN tracks[t].status ELSE "gone"

Lifecycle ==
  INSTANCE TrackLifecycle WITH Tracks <- Ids, stage <- [t \in Ids |-> StageOf(t)]

ImplementsLifecycle == Lifecycle!LifecycleSpec

=============================================================================
