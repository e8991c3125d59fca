---------------------------- MODULE MissionTree -----------------------------
(***************************************************************************)
(* The mission behavior tree: the memory it carries from tick to tick, the *)
(* blackboard it reads and writes, and one call of tick.                   *)
(*                                                                         *)
(* A track is seen as one fact: not there (yet, or any more), tentative,   *)
(* or confirmed with a grade.  "weak" has a score at or below the engage   *)
(* threshold, "unsafe" has the score but fails the confidence or the range *)
(* check, "fit" passes them all.  Scores of interceptor-track pairs are    *)
(* finite and otherwise unknown: the tree may prefer any pair.             *)
(***************************************************************************)
EXTENDS Interceptors

CONSTANTS
  StableTicks,    \* stable_track_ticks_to_engage
  CooldownTicks   \* ticks from a denial to the end of denial_cooldown_s

ASSUME TreeAssumption == StableTicks \in Nat /\ CooldownTicks \in Nat

VARIABLES
  fact,        \* blackboard: the track facts
  engagement,  \* blackboard: the one EngagementState, {} when not active
  mode,        \* blackboard: the mission mode
  active,      \* memory_.active_engagements
  stable,      \* memory_.stable_tracks: consecutive confirmed ticks
  denial,      \* memory_.last_denied_track_id and the ticks its cooldown lasts
  commands     \* the engagement_commands of the last tick

boardVars == <<fact, engagement, mode>>
memoryVars == <<active, stable, denial>>
treeVars == <<fact, engagement, mode, active, stable, denial, commands>>

Grade == {"weak", "unsafe", "fit"}
Fact == {"unborn", "tentative", "gone"} \cup Grade
Mode == {"search", "track", "engage"}

\* An ActiveEngagement: its pair and its missing_ticks.
Entry == [interceptor : Interceptors, track : Tracks, missing : 0..StableTicks]

NewEntry(p) == [interceptor |-> p.interceptor, track |-> p.track, missing |-> 0]
PairOf(e) == [interceptor |-> e.interceptor, track |-> e.track]
TracksOf(entries) == {e.track : e \in entries}

Tracked(t) == fact[t] \in {"tentative"} \cup Grade
Confirmed(t) == fact[t] \in Grade
ConfirmedTracks == {t \in Tracks : Confirmed(t)}

TreeTypeOK ==
  /\ fact \in [Tracks -> Fact]
  /\ engagement = {} \/ \E p \in Pair : engagement = {p}
  /\ mode \in Mode
  /\ active \in SUBSET Entry
  /\ stable \in [Tracks -> 0..StableTicks]
  /\ denial \in [track : Tracks \cup {NoTrack}, left : 0..CooldownTicks]
  /\ commands \in SUBSET Pair

TreeInit ==
  /\ fact = [t \in Tracks |-> "unborn"]
  /\ engagement = {}
  /\ mode = "search"
  /\ active = {}
  /\ stable = [t \in Tracks |-> 0]
  /\ denial = [track |-> NoTrack, left |-> 0]
  /\ commands = {}

-----------------------------------------------------------------------------
(***************************************************************************)
(* The opening of tick.  The memory takes in the engagement on the         *)
(* blackboard and then every engaged interceptor, one entry per track: an  *)
(* entry whose track is claimed changes interceptor, the rest stay.        *)
(***************************************************************************)
Held == {[interceptor |-> i, track |-> target[i]] : i \in Interceptors \ Idle}

\* The last claim on a track wins; interceptors are read after the blackboard.
ClaimOn(t) ==
  IF t \in TracksOf(Held)
    THEN CHOOSE p \in Held : p.track = t
    ELSE CHOOSE p \in engagement : p.track = t

Claimed(t) ==
  LET known == {e \in active : e.track = t}
      claim == ClaimOn(t)
  IN  IF known = {}
        THEN NewEntry(claim)
        ELSE [(CHOOSE e \in known : TRUE) EXCEPT !.interceptor = claim.interceptor]

ClaimedTracks == TracksOf(Held) \cup TracksOf(engagement)

Refreshed ==
  {e \in active : e.track \notin ClaimedTracks}
    \cup {Claimed(t) : t \in ClaimedTracks}

\* Track and interceptor are both there and the interceptor flies at the track.
Agreed(e) == Tracked(e.track) /\ target[e.interceptor] = e.track

\* Mutant: nothing is reconciled.
ReconciledNothing == Refreshed

Reconciled == {e \in Refreshed : Agreed(e)}

\* Dropping the entry of the blackboard's engagement clears that engagement.
EngagementReconciled == engagement \ {PairOf(e) : e \in Refreshed \ Reconciled}

\* The maintain loop: an entry not agreed with is given StableTicks to recover.
Lapsed == {e \in Reconciled : ~Agreed(e) /\ e.missing + 1 >= StableTicks}

Maintained ==
  {[e EXCEPT !.missing = 0] : e \in {x \in Reconciled : Agreed(x)}}
    \cup {[e EXCEPT !.missing = @ + 1] :
            e \in {x \in Reconciled \ Lapsed : ~Agreed(x)}}

EngagementMaintained == IF Lapsed = {} THEN EngagementReconciled ELSE {}

\* Consecutive confirmed ticks of a track, counted only as far as they matter.
TicksStable(t) ==
  IF ~Confirmed(t) THEN 0
  ELSE IF stable[t] < StableTicks THEN stable[t] + 1
  ELSE stable[t]

IsStable(t) == Confirmed(t) /\ TicksStable(t) >= StableTicks

\* Mutant: a cooldown that does not end.
CoolingDownForGood(t) == denial.track = t

CoolingDown(t) == denial.track = t /\ denial.left > 0

Engageable(t, healthy) ==
  fact[t] = "fit" /\ healthy /\ ~CoolingDown(t) /\ IsStable(t)

\* Mutant: duplicate assignments are not suppressed.
OpenToAll(healthy) == {t \in Tracks : Engageable(t, healthy)}

\* Tracks the tree may still send an interceptor to.
Open(healthy) ==
  {t \in Tracks : Engageable(t, healthy) /\ t \notin TracksOf(Maintained)}

-----------------------------------------------------------------------------
(***************************************************************************)
(* The rest of tick, one disjunct per way out.  All of them start from the *)
(* reconciled and maintained memory and count the confirmed ticks.         *)
(***************************************************************************)

\* Mutant: orders for interceptors that are not idle.
OrdersToAll(healthy) == {o \in Pair : o.track \in Open(healthy)}

Orders(healthy) ==
  {o \in Pair : o.interceptor \in Idle /\ o.track \in Open(healthy)}

Conflict(o, p) == o.interceptor = p.interceptor \/ o.track = p.track

\* Mutants: the chosen interceptor stays among the idle ones; only one pair is
\* assigned in a tick.
GreedyByTrack(healthy) ==
  {s \in SUBSET Orders(healthy) :
     /\ \A o, p \in s : o.track = p.track => o = p
     /\ \A o \in Orders(healthy) : \E p \in s : o.track = p.track}

GreedyOnce(healthy) == {{o} : o \in Orders(healthy)}

\* Outcomes of the idle loop: the best pair is taken until no pair is left.
GreedyAssignments(healthy) ==
  {s \in SUBSET Orders(healthy) :
     /\ \A o, p \in s : Conflict(o, p) => o = p
     /\ \A o \in Orders(healthy) : \E p \in s : Conflict(o, p)}

AssignIdle(healthy) ==
  \E s \in GreedyAssignments(healthy) :
    /\ s # {}
    /\ commands' = s
    /\ active' = Maintained \cup {NewEntry(o) : o \in s}
    /\ \E last \in s : engagement' = {last}
    /\ mode' = "engage"
    /\ UNCHANGED denial

MaintainedEngagement == \E e \in Reconciled : Agreed(e)

\* With every interceptor busy, the pair that gains most may be swapped in.
Retask(healthy) ==
  /\ MaintainedEngagement
  /\ Idle = {}
  /\ \E e \in Maintained, t \in Open(healthy) :
       LET order == [interceptor |-> e.interceptor, track |-> t]
       IN  /\ Tracked(e.track)
           /\ commands' = {order}
           /\ active' = (Maintained \ {e}) \cup {NewEntry(order)}
           /\ engagement' = {order}
  /\ mode' = "engage"
  /\ UNCHANGED denial

\* No order to give, or the gain stays below the retask margin.
Hold(healthy) ==
  /\ MaintainedEngagement
  /\ Orders(healthy) = {}
  /\ commands' = {}
  /\ active' = Maintained
  /\ engagement' = EngagementMaintained
  /\ mode' = "engage"
  /\ UNCHANGED denial

(***************************************************************************)
(* Without an engagement the engage sequence runs on the confirmed track   *)
(* of highest priority.  Its branches that start or maintain an engagement *)
(* have nothing left to do here (NoFallbackAssignment in                   *)
(* MissionLoopProofs); what it can still do is deny the track.             *)
(***************************************************************************)
EngageDenied(best, healthy) ==
  /\ fact[best] # "weak"
  /\ ~CoolingDown(best)
  /\ \/ fact[best] = "unsafe"
     \/ ~healthy
     \/ IsStable(best) /\ best \notin TracksOf(Held) /\ Idle = {}

NothingEngaged(healthy) ==
  /\ ~MaintainedEngagement
  /\ Orders(healthy) = {}
  /\ commands' = {}
  /\ active' = Maintained
  /\ engagement' = EngagementMaintained
  /\ mode' = IF \E t \in Tracks : Tracked(t) THEN "track" ELSE "search"

Deny(healthy) ==
  /\ NothingEngaged(healthy)
  /\ \E best \in ConfirmedTracks :
       /\ EngageDenied(best, healthy)
       /\ denial' = [track |-> best, left |-> CooldownTicks]

StandBy(healthy) ==
  /\ NothingEngaged(healthy)
  /\ \/ ConfirmedTracks = {}
     \/ \E best \in ConfirmedTracks : ~EngageDenied(best, healthy)
  /\ UNCHANGED denial

Tick(healthy) ==
  /\ \/ AssignIdle(healthy)
     \/ Retask(healthy)
     \/ Hold(healthy)
     \/ Deny(healthy)
     \/ StandBy(healthy)
  /\ stable' = [t \in Tracks |-> TicksStable(t)]
  /\ UNCHANGED fact

=============================================================================
