---------------------------- MODULE ReplayFrames ----------------------------
(***************************************************************************)
(* How the web console turns the text of a log into a dataset, and a       *)
(* dataset and a time into the frame it shows: the parser, the normalizer, *)
(* the selectors and the labels of the canvas, as operators.               *)
(*                                                                         *)
(* A line of the text is an object with the fields the selectors look at;  *)
(* a field that is absent, and null once parsed, is 0.  A line that is no  *)
(* JSON object, and a line that is, are all the parser tells apart.        *)
(*                                                                         *)
(* Events are kept as a set.  The parser sorts them by Before, and every   *)
(* selector for which their order matters compares or sorts them so again: *)
(* Before is their order.                                                  *)
(***************************************************************************)
EXTENDS Naturals, Sequences, FiniteSets

\* The parser fills in the number of the line.
Blank ==
  [type |-> "torn", t_s |-> 0, track_id |-> 0, interceptor_id |-> 0,
   event |-> "none", status |-> "none", engaged |-> FALSE, lineNumber |-> 0]

\* What is left of a line the writer did not finish.
Torn == Blank

-----------------------------------------------------------------------------
(***************************************************************************)
(* parseReplayEvents and normalizeReplayEvents.  The first and the last    *)
(* time of a dataset are the player's, and in ReplayPlayer.                *)
(***************************************************************************)
IsJsonObject(line) == line # Torn

ToReplayEvent(line, n) == [line EXCEPT !.lineNumber = n]

\* compareReplayEvents(e, f) < 0
Before(e, f) ==
  e.t_s < f.t_s \/ (e.t_s = f.t_s /\ e.lineNumber < f.lineNumber)

ParseReplayEvents(text) ==
  {ToReplayEvent(text[n], n) : n \in {m \in DOMAIN text : IsJsonObject(text[m])}}

NormalizeReplayEvents(events) ==
  LET typed(type) == {e \in events : e.type = type}
  IN  [events |-> events,
       eventsByType |->
         [track_event |-> typed("track_event"),
          track_stability_event |-> typed("track_stability_event"),
          interceptor_state |-> typed("interceptor_state"),
          assignment_event |-> typed("assignment_event"),
          intercept_event |-> typed("intercept_event"),
          bt_decision |-> typed("bt_decision")]]

ParseReplayJsonl(text) == NormalizeReplayEvents(ParseReplayEvents(text))

-----------------------------------------------------------------------------
(***************************************************************************)
(* The selectors, for a dataset d and a playhead t.                        *)
(***************************************************************************)
IsAtOrBefore(e, t) == e.t_s <= t

\* Mutant: the events of the whole mission.
TypedEver(d, type, t) == d.eventsByType[type]

TypedAt(d, type, t) ==
  {e \in d.eventsByType[type] : IsAtOrBefore(e, t)}

Latest(events) == CHOOSE e \in events : \A f \in events \ {e} : Before(f, e)

\* The track of a frame: its last events of either kind, a set of none or one.
LastOf(events) == IF events = {} THEN {} ELSE {Latest(events)}

TrackSeed(d, id, t) ==
  [track |-> LastOf({e \in TypedAt(d, "track_event", t) : e.track_id = id}),
   stability |-> LastOf({e \in TypedAt(d, "track_stability_event", t) : e.track_id = id})]

\* Mutant: the event of the track itself goes before its stability.
StatusOfTrackFirst(seed) ==
  IF seed.track # {} THEN (CHOOSE e \in seed.track : TRUE).status
  ELSE (CHOOSE e \in seed.stability : TRUE).status

\* toFrameTrack's status: the stability's, if there is any.
StatusOf(seed) ==
  IF seed.stability # {} THEN (CHOOSE e \in seed.stability : TRUE).status
  ELSE (CHOOSE e \in seed.track : TRUE).status

\* getActiveTracksAt: the tracks that are shown, with their status.
ActiveTracks(d, t) ==
  LET seen == {e.track_id : e \in TypedAt(d, "track_event", t)
                                    \cup TypedAt(d, "track_stability_event", t)} \ {0}
      all == {[trackId |-> id, status |-> StatusOf(TrackSeed(d, id, t))] : id \in seen}
  IN  {track \in all : track.status # "deleted"}

LatestPerInterceptor(events) ==
  {Latest({f \in events : f.interceptor_id = e.interceptor_id}) : e \in events}

\* getActiveInterceptorsAt: the last state of each.
ActiveInterceptors(d, t) ==
  LatestPerInterceptor({e \in TypedAt(d, "interceptor_state", t) : e.interceptor_id # 0})

\* Mutant: an intercept ends every assignment of its track, earlier or later.
InterceptedEver(d, a, t) ==
  \E e \in TypedAt(d, "intercept_event", t) : e.track_id = a.track_id

Intercepted(d, a, t) ==
  \E e \in TypedAt(d, "intercept_event", t) :
    e.track_id = a.track_id /\ e.t_s >= a.t_s

\* getActiveAssignmentsAt: the last assignment of each interceptor, unless its
\* track has been intercepted since.
ActiveAssignments(d, t) ==
  LET valid == {e \in TypedAt(d, "assignment_event", t) :
                  e.interceptor_id # 0 /\ e.track_id # 0}
  IN  {a \in LatestPerInterceptor(valid) : ~Intercepted(d, a, t)}

VisibleTypes ==
  {"bt_decision", "assignment_event", "intercept_event", "fault_event",
   "track_stability_event"}

\* getRecentEventsAt: the newest, sorted the other way.
RecentEvents(d, t, limit) ==
  LET visible == {e \in d.events : e.type \in VisibleTypes /\ IsAtOrBefore(e, t)}
  IN  {e \in visible : Cardinality({f \in visible : Before(e, f)}) < limit}

\* getReplayFrameAt
FrameAt(d, t, limit) ==
  [tracks |-> ActiveTracks(d, t),
   interceptors |-> ActiveInterceptors(d, t),
   assignments |-> ActiveAssignments(d, t),
   decisions |-> TypedAt(d, "bt_decision", t),
   recentEvents |-> RecentEvents(d, t, limit),
   intercepts |-> TypedAt(d, "intercept_event", t)]

-----------------------------------------------------------------------------
(***************************************************************************)
(* What the canvas makes of a frame.                                       *)
(***************************************************************************)

\* trackStatus: the label under a track.
TrackLabel(d, id, t) ==
  LET seed == TrackSeed(d, id, t)
  IN  IF \E e \in TypedAt(d, "intercept_event", t) : e.track_id = id THEN "intercepted"
      ELSE IF \E e \in seed.stability : e.event = "track_coasted" THEN "coasting"
      ELSE StatusOf(seed)

=============================================================================
