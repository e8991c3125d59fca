--------------------------- MODULE MissionFlights ---------------------------
(***************************************************************************)
(* What the simulation loop promises of a pass to whoever reads its log:   *)
(* which tracks there are, who is ordered to fly at which of them, who     *)
(* flies on, and who hits.  How the orders are chosen is left open.        *)
(***************************************************************************)
EXTENDS TrackLifecycle

CONSTANTS
  Interceptors,
  NoTrack

VARIABLES
  target,   \* the track each interceptor flies at, NoTrack when idle
  phase     \* the next part of a pass

flights == <<stage, target, phase>>

Engaged(i) == target[i] # NoTrack
Orderable(t) == stage[t] = "confirmed" /\ \A i \in Interceptors : target[i] # t

FlightsInit ==
  /\ LifecycleInit
  /\ target = [i \in Interceptors |-> NoTrack]
  /\ phase = "observe"

Passes(from, to) == phase = from /\ phase' = to

\* The tracker reports.
Report ==
  /\ Passes("observe", "command")
  /\ LifecycleNext
  /\ UNCHANGED target

\* Interceptors, idle or not, are sent to confirmed tracks nobody flies at.
Ordered == {i \in Interceptors : target'[i] # target[i]}

Order ==
  /\ Passes("command", "fly")
  /\ target' \in [Interceptors -> Tracks \cup {NoTrack}]
  /\ \A i \in Ordered : target'[i] # NoTrack /\ Orderable(target'[i])
  /\ \A i, j \in Ordered : target'[i] = target'[j] => i = j
  /\ UNCHANGED stage

Kept(S) == [i \in Interceptors |-> IF i \in S THEN target[i] ELSE NoTrack]

Flying == {i \in Interceptors : Engaged(i)}

\* Nobody flies on without a confirmed track; others may give up in time.
Fly ==
  /\ Passes("fly", "resolve")
  /\ \E S \in SUBSET {i \in Flying : stage[target[i]] = "confirmed"} : target' = Kept(S)
  /\ UNCHANGED stage

\* Some of those that fly hit, and are idle again.
Resolve ==
  /\ Passes("resolve", "observe")
  /\ \E S \in SUBSET Flying : target' = Kept(S)
  /\ UNCHANGED stage

FlightsNext == Report \/ Order \/ Fly \/ Resolve

FlightsSpec == FlightsInit /\ [][FlightsNext]_flights

=============================================================================
