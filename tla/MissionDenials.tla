--------------------------- MODULE MissionDenials ---------------------------
(***************************************************************************)
(* The mission loop with an account of its denials: for each track, how    *)
(* many ticks are left of the cooldown its own last denial began.          *)
(***************************************************************************)
EXTENDS MissionLoop

VARIABLE owed   \* ticks left of each track's own cooldown

\* The tree denies t in this step: the memory's cooldown starts again, on t.
DeniedNow(t) == denial' # denial /\ denial'.track = t /\ pc = "decide"

CountDown ==
  owed' = [t \in Tracks |->
             IF DeniedNow(t) THEN CooldownTicks
             ELSE IF pc = "observe" /\ owed[t] > 0 THEN owed[t] - 1
             ELSE owed[t]]

DenialSpec ==
  /\ Init /\ owed = [t \in Tracks |-> 0]
  /\ [][Next /\ CountDown]_<<vars, owed>>

\* A track that was denied is not denied again before its cooldown is over.
DenialsSpacedOut ==
  [][\A t \in Tracks : DeniedNow(t) => owed[t] = 0]_<<vars, owed>>

=============================================================================
