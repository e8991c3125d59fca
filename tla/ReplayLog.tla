----------------------------- MODULE ReplayLog ------------------------------
(***************************************************************************)
(* The log the simulation loop writes of its passes, and what the frames   *)
(* of the web console show of the simulation that wrote it.                *)
(*                                                                         *)
(* The simulation is the one MissionFlights promises.  Ids are positive    *)
(* numbers; the id 0 stands for no track and no interceptor, in the log    *)
(* and in the console.                                                     *)
(***************************************************************************)
EXTENDS MissionFlights, ReplayFrames, SequencesExt

CONSTANTS
  MaxTicks,   \* bound: passes of the loop, and of crashes; see AnotherPass
  FeedLimit,  \* how many events the feed shows
  EoirPasses  \* bound: the passes in which EO/IR refines tracks radar did not hit

ASSUME ReplayLogAssumption ==
  /\ Tracks \subseteq Nat \ {0} /\ IsFiniteSet(Tracks)
  /\ Interceptors \subseteq Nat \ {0} /\ IsFiniteSet(Interceptors)
  /\ NoTrack = 0
  /\ MaxTicks \in Nat
  /\ FeedLimit \in Nat
  /\ EoirPasses \subseteq Nat

VARIABLES
  now,      \* the number of the pass, its event_time
  log,      \* the lines written
  missed    \* the tracks radar missed in this pass

logVars == <<flights, now, log, missed>>

LogInit ==
  /\ FlightsInit
  /\ now = 0
  /\ log = <<>>
  /\ missed = {}

-----------------------------------------------------------------------------
(***************************************************************************)
(* The lines of a pass.  The order within a group is that of a vector of   *)
(* tracks or interceptors; any will do.                                    *)
(***************************************************************************)
LinesFor(line) ==
  LET ids == SetToSeq(DOMAIN line)
  IN  [k \in DOMAIN ids |-> line[ids[k]]]

TrackEvent(event, t, status) ==
  [Blank EXCEPT !.type = "track_event", !.t_s = now', !.event = event,
                !.track_id = t, !.status = status]

StabilityEvent(event, t, status) ==
  [TrackEvent(event, t, status) EXCEPT !.type = "track_stability_event"]

\* A measurement is logged with the time it was sent.
Measurement == [Blank EXCEPT !.type = "measurement", !.t_s = now]

Created == {t \in Tracks : stage[t] = "unborn" /\ stage'[t] # "unborn"}
NewlyConfirmed == {t \in Tracks : stage[t] # "confirmed" /\ stage'[t] = "confirmed"}
Deleted == {t \in Tracks : stage[t] # "gone" /\ stage'[t] = "gone"}
LiveBefore == {t \in Tracks : stage[t] \in {"tentative", "confirmed"}}
Live == {t \in Tracks : stage[t] \in {"tentative", "confirmed"}}

\* The status of a track before the lifecycle rules.
StatusBefore(t) == IF t \in Created THEN "tentative" ELSE stage[t]

\* The status in a line is that of the copy in the deltas: a track that was
\* created, updated or coasted was copied before the lifecycle rules.
TrackLines(updated, coasted, near) ==
  LinesFor([t \in Created |-> TrackEvent("track_created", t, "tentative")])
  \o LinesFor([t \in Created |-> StabilityEvent("track_created", t, "tentative")])
  \o LinesFor([t \in NewlyConfirmed |-> StabilityEvent("track_confirmed", t, "confirmed")])
  \o LinesFor([t \in updated |-> TrackEvent("track_updated", t, StatusBefore(t))])
  \o LinesFor([t \in coasted |-> StabilityEvent("track_coasted", t, stage[t])])
  \o LinesFor([t \in Deleted |-> TrackEvent("track_deleted", t, "deleted")])
  \o LinesFor([t \in Deleted |-> StabilityEvent("track_deleted", t, "deleted")])
  \o LinesFor([t \in near |->
                 StabilityEvent("track_reacquisition_candidate", t, "tentative")])

\* Bound: after MaxTicks passes, only one more, for a track that may be near a
\* deleted one.
AnotherPass ==
  \/ now < MaxTicks
  \/ now = MaxTicks /\ \E t \in Tracks : stage[t] = "gone"

\* Ids are given in order.  A track is deleted for having been missed, and
\* confirmed for a hit; a new one may be near one that was deleted.  EO/IR may
\* refine a track radar missed, and one that was just created.
LogReport ==
  /\ AnotherPass
  /\ Report
  /\ now' = now + 1
  /\ \A t \in Created, u \in Tracks : u < t => stage'[u] # "unborn"
  /\ missed' \in {S \in SUBSET LiveBefore : Deleted \subseteq S /\ S \cap NewlyConfirmed = {}}
  /\ \E refined \in SUBSET (missed' \cup Created), near \in SUBSET Created :
       /\ near # {} => \E t \in Tracks : stage[t] = "gone"
       /\ refined # {} => now' \in EoirPasses
       /\ log' = Append(log, Measurement)
                   \o TrackLines((LiveBefore \ missed') \cup refined, missed', near)

AssignmentEvent(i) ==
  [Blank EXCEPT !.type = "assignment_event", !.t_s = now, !.event = "engage_assigned",
                !.interceptor_id = i, !.track_id = target'[i]]

\* A denial is logged as an assignment of the interceptor 0.
DenialEvent(t) ==
  [Blank EXCEPT !.type = "assignment_event", !.t_s = now, !.event = "engage_denied",
                !.track_id = t]

BtDecision == [Blank EXCEPT !.type = "bt_decision", !.t_s = now]

LogOrder ==
  /\ Order
  /\ \E denied \in {{}} \cup {{t} : t \in {u \in Tracks : Orderable(u)}} :
       /\ denied # {} => Ordered = {}
       /\ log' = Append(log, BtDecision)
                   \o LinesFor([t \in denied |-> DenialEvent(t)])
                   \o LinesFor([i \in Ordered |-> AssignmentEvent(i)])
  /\ UNCHANGED <<now, missed>>

LogFly == Fly /\ UNCHANGED <<now, log, missed>>

\* An interceptor's state is logged after the flight, before hits are resolved.
InterceptorState(i) ==
  [Blank EXCEPT !.type = "interceptor_state", !.t_s = now, !.interceptor_id = i,
                !.engaged = Engaged(i), !.track_id = target[i]]

InterceptEvent(i) ==
  [Blank EXCEPT !.type = "intercept_event", !.t_s = now, !.event = "intercept_success",
                !.track_id = target[i]]

LogResolve ==
  /\ Resolve
  /\ log' = log \o LinesFor([i \in Interceptors |-> InterceptorState(i)])
                \o LinesFor([i \in {j \in Flying : target'[j] = NoTrack} |->
                               InterceptEvent(i)])
  /\ UNCHANGED <<now, missed>>

PassIsLogged == phase = "observe" /\ now > 0

OfThisPass(line) == line.t_s = IF line.type = "measurement" THEN now - 1 ELSE now

\* The program is killed in a pass, and its file ends anywhere in the lines the
\* pass would have written, perhaps within a line.  Cuts in earlier passes are
\* those of an earlier crash.
Crash ==
  /\ PassIsLogged
  /\ now <= MaxTicks
  /\ phase' = "crashed"
  /\ \E n \in 0..Len(log) - 1 :
       /\ OfThisPass(log[n + 1])
       /\ log' = Append(SubSeq(log, 1, n), Torn)
  /\ UNCHANGED <<stage, target, now, missed>>

LogNext == LogReport \/ LogOrder \/ LogFly \/ LogResolve \/ Crash

LogSpec == LogInit /\ [][LogNext]_logVars

-----------------------------------------------------------------------------
(***************************************************************************)
(* What a frame shows.                                                     *)
(***************************************************************************)
Dataset == ParseReplayJsonl(log)

\* At the time of a pass the console shows the tracks the tracker had then,
\* with their status; and one that radar has just missed never as well-tracked.
\* Only a track confirmed as it was created, and logged once more as it was
\* before, is shown as tentative.
FrameShowsTracks ==
  PassIsLogged =>
    LET d == Dataset
        shown == ActiveTracks(d, now)
        relogged(t) ==
          (CHOOSE e \in TrackSeed(d, t, now).stability : TRUE).event
            = "track_reacquisition_candidate"
    IN  /\ {track.trackId : track \in shown} = Live
        /\ \A track \in shown :
             track.status = stage[track.trackId] \/ relogged(track.trackId)
        /\ \A t \in missed \cap Live :
             TrackLabel(d, t, now) \in {"coasting", "intercepted"}

\* Every interceptor that flies at the end of a pass is shown with its target,
\* as engaged and as assigned; and what is shown as assigned beyond that is an
\* assignment whose interceptor is shown idle.
ShowsFlights(d) ==
  LET states == ActiveInterceptors(d, now)
      assigned == {<<a.interceptor_id, a.track_id>> : a \in ActiveAssignments(d, now)}
  IN  /\ \A i \in Interceptors : Engaged(i) =>
           /\ <<i, target[i]>> \in assigned
           /\ \E e \in states : e.interceptor_id = i /\ e.engaged /\ e.track_id = target[i]
      /\ \A a \in assigned :
           \/ target[a[1]] = a[2]
           \/ \E e \in states : e.interceptor_id = a[1] /\ ~e.engaged

\* The hits of a pass are in the feed at its time, however much else happened
\* in it, as long as the feed holds as many events as there are hits.
FeedShowsHits(d) ==
  LET hits == {e \in TypedAt(d, "intercept_event", now) : e.t_s = now}
  IN  Cardinality(hits) <= FeedLimit =>
        hits \subseteq RecentEvents(d, now, FeedLimit)

\* After a pass the console shows who flies at what, as assigned and as engaged,
\* and the hits of the pass in its feed.
FrameShowsFlights ==
  PassIsLogged => LET d == Dataset IN ShowsFlights(d) /\ FeedShowsHits(d)

\* What the console shows of a time that is past, that of the pass just finished
\* included, is never changed by what is logged later, nor by a crash that cuts
\* the log off in the pass after it.
PastIsFixed ==
  [][LET before == Dataset
         after == ParseReplayJsonl(log')
     IN  log' # log =>
           \A t \in 1..now' - 1 :
             FrameAt(after, t, FeedLimit) = FrameAt(before, t, FeedLimit)]_logVars

=============================================================================
