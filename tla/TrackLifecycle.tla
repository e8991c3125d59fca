--------------------------- MODULE TrackLifecycle ---------------------------
(***************************************************************************)
(* The life of a track as the rest of the program sees it: what a user of  *)
(* the tracker may rely on from one update to the next.                    *)
(***************************************************************************)
CONSTANT Tracks   \* the ids the tracker may ever hand out

VARIABLE stage    \* the stage each id has reached

Stage == {"unborn", "tentative", "confirmed", "gone"}

\* An id is never reused, a confirmed track never becomes tentative again, and
\* a track is there for one update at least.
NextStage(s) ==
  CASE s = "unborn"    -> {"unborn", "tentative", "confirmed"}
    [] s = "tentative" -> {"tentative", "confirmed", "gone"}
    [] s = "confirmed" -> {"confirmed", "gone"}
    [] s = "gone"      -> {"gone"}

LifecycleInit == stage = [t \in Tracks |-> "unborn"]

LifecycleNext ==
  /\ stage' \in [Tracks -> Stage]
  /\ \A t \in Tracks : stage'[t] \in NextStage(stage[t])

LifecycleSpec == LifecycleInit /\ [][LifecycleNext]_stage

=============================================================================
