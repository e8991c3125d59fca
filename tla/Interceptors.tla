---------------------------- MODULE Interceptors ----------------------------
(***************************************************************************)
(* The interceptor manager: which track each interceptor flies at, for how *)
(* long, and the operations the simulation loop calls on it.               *)
(*                                                                         *)
(* Time is counted in simulation ticks.  Positions and velocities are left *)
(* out: whether an interceptor comes within five metres of its target is a *)
(* choice of the module that composes this one.                            *)
(***************************************************************************)
EXTENDS Naturals

CONSTANTS
  Interceptors,   \* the interceptors of entries_, fixed at construction
  Tracks,         \* the track ids the tracker may ever hand out
  NoTrack,        \* TrackId(0): the target of an idle interceptor
  TimeoutTicks    \* whole ticks in engagement_timeout_s_

ASSUME InterceptorsAssumption ==
  /\ NoTrack \notin Tracks
  /\ TimeoutTicks \in Nat

VARIABLES
  target,     \* target_id of each interceptor, NoTrack when not engaged
  elapsed,    \* engagement_time_s of each interceptor, in ticks
  positions   \* the ids in track_positions_

interceptorVars == <<target, elapsed, positions>>

Engaged(i) == target[i] # NoTrack

Idle == {i \in Interceptors : ~Engaged(i)}

\* An order to an interceptor, and an engagement: the same two ids.
Pair == [interceptor : Interceptors, track : Tracks]

InterceptorsTypeOK ==
  /\ target \in [Interceptors -> Tracks \cup {NoTrack}]
  /\ elapsed \in [Interceptors -> 0..TimeoutTicks]
  /\ positions \in SUBSET Tracks

InterceptorsInit ==
  /\ target = [i \in Interceptors |-> NoTrack]
  /\ elapsed = [i \in Interceptors |-> 0]
  /\ positions = {}

UpdateTrackPositions(confirmed) == positions' = confirmed

(***************************************************************************)
(* assign: an order for a track without a known position is skipped; a new *)
(* target restarts the engagement clock, the same one does not.            *)
(***************************************************************************)
Accepted(orders, i) ==
  {o \in orders : o.interceptor = i /\ o.track \in positions}

NewTarget(orders, i) ==
  IF Accepted(orders, i) = {}
    THEN target[i]
    ELSE (CHOOSE o \in Accepted(orders, i) : TRUE).track

Assign(orders) ==
  /\ target' = [i \in Interceptors |-> NewTarget(orders, i)]
  /\ elapsed' = [i \in Interceptors |->
                   IF NewTarget(orders, i) = target[i] THEN elapsed[i] ELSE 0]
  /\ UNCHANGED positions

(***************************************************************************)
(* step: an engaged interceptor whose target has no position, or whose     *)
(* clock passes the timeout, is released; the others fly on one tick.      *)
(***************************************************************************)

\* Mutant: an interceptor flies on when its target has no position any more.
NeverLost(i) == FALSE /\ i \in Interceptors

Lost(i) == Engaged(i) /\ target[i] \notin positions

\* Mutants: the clock is compared one tick too late, or one too early.
TimedOutLate(i) == Engaged(i) /\ ~Lost(i) /\ elapsed[i] > TimeoutTicks
TimedOutEarly(i) == Engaged(i) /\ ~Lost(i) /\ elapsed[i] + 1 >= TimeoutTicks

TimedOut(i) == Engaged(i) /\ ~Lost(i) /\ elapsed[i] + 1 > TimeoutTicks

Released(i) == Lost(i) \/ TimedOut(i)

Step ==
  /\ target' = [i \in Interceptors |->
                  IF Released(i) THEN NoTrack ELSE target[i]]
  /\ elapsed' = [i \in Interceptors |->
                   IF Engaged(i) /\ ~Released(i) THEN elapsed[i] + 1 ELSE 0]
  /\ UNCHANGED positions

\* handle_intercepts: a hit releases the interceptor if it still has that target.
HandleIntercepts(hits) ==
  LET hit(i) == \E h \in hits : h.interceptor = i /\ h.track = target[i]
  IN  /\ target' = [i \in Interceptors |-> IF hit(i) THEN NoTrack ELSE target[i]]
      /\ elapsed' = [i \in Interceptors |-> IF hit(i) THEN 0 ELSE elapsed[i]]
      /\ UNCHANGED positions

=============================================================================
