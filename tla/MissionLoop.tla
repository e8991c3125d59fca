---------------------------- MODULE MissionLoop -----------------------------
(***************************************************************************)
(* The mission part of the simulation loop of run_sim: the tracker's       *)
(* tracks are put on the blackboard, the behavior tree ticks, its commands *)
(* go to the interceptor manager, the interceptors fly, hits are resolved  *)
(* and the loop's own ledger of engagements is brought up to date.         *)
(*                                                                         *)
(* One pass of the loop is five steps, in the order of the variable pc.    *)
(***************************************************************************)
EXTENDS MissionTree

CONSTANT HealthReports   \* what the sensor health on the blackboard may say

ASSUME HealthAssumption == HealthReports \subseteq BOOLEAN /\ HealthReports # {}

VARIABLES
  pc,           \* the next step of the loop
  ledger,       \* engagement_by_interceptor: the track, NoTrack when absent
  ledgerAge,    \* ticks since the start_time_s of the ledger entry
  failCounted   \* has intercept_fail_total ever been incremented

loopVars == <<pc, ledger, ledgerAge, failCounted>>
vars == <<interceptorVars, treeVars, loopVars>>

Phase == {"observe", "decide", "command", "fly", "resolve"}

TypeOK ==
  /\ InterceptorsTypeOK
  /\ TreeTypeOK
  /\ pc \in Phase
  /\ ledger \in [Interceptors -> Tracks \cup {NoTrack}]
  /\ ledgerAge \in [Interceptors -> 0..(TimeoutTicks + 1)]
  /\ failCounted \in BOOLEAN

Init ==
  /\ InterceptorsInit
  /\ TreeInit
  /\ pc = "observe"
  /\ ledger = [i \in Interceptors |-> NoTrack]
  /\ ledgerAge = [i \in Interceptors |-> 0]
  /\ failCounted = FALSE

Goto(from, to) == pc = from /\ pc' = to

-----------------------------------------------------------------------------
\* What the tracker may report next is what TrackManager is shown to promise;
\* sensors and filter are free to change the grade of a confirmed track.
StageOf(f) == IF f \in Grade THEN "confirmed" ELSE f

Lifecycle ==
  INSTANCE TrackLifecycle WITH stage <- [t \in Tracks |-> StageOf(fact[t])]

NextFacts(f) == {g \in Fact : StageOf(g) \in Lifecycle!NextStage(StageOf(f))}

\* Time advances; the tracks of this tick and their positions are published.
Observe ==
  /\ Goto("observe", "decide")
  /\ fact' \in [Tracks -> Fact]
  /\ \A t \in Tracks : fact'[t] \in NextFacts(fact[t])
  /\ UpdateTrackPositions(ConfirmedTracks')
  /\ denial' = [denial EXCEPT !.left = IF @ > 0 THEN @ - 1 ELSE 0]
  /\ ledgerAge' = [i \in Interceptors |->
                     IF ledger[i] = NoTrack THEN 0 ELSE ledgerAge[i] + 1]
  /\ UNCHANGED <<target, elapsed, engagement, mode, active, stable, commands,
                 ledger, failCounted>>

Decide ==
  /\ Goto("decide", "command")
  /\ \E healthy \in HealthReports : Tick(healthy)
  /\ UNCHANGED <<interceptorVars, ledger, ledgerAge, failCounted>>

OrdersFor(i) == {o \in commands : o.interceptor = i}

\* Every command is entered in the ledger, then handed to the manager.
Command ==
  /\ Goto("command", "fly")
  /\ ledger' = [i \in Interceptors |->
                  IF OrdersFor(i) = {} THEN ledger[i]
                  ELSE (CHOOSE o \in OrdersFor(i) : TRUE).track]
  /\ ledgerAge' = [i \in Interceptors |->
                     IF OrdersFor(i) = {} THEN ledgerAge[i] ELSE 0]
  /\ Assign(commands)
  /\ commands' = {}
  /\ UNCHANGED <<fact, engagement, mode, active, stable, denial, failCounted>>

Fly ==
  /\ Goto("fly", "resolve")
  /\ Step
  /\ UNCHANGED <<treeVars, ledger, ledgerAge, failCounted>>

\* Mutant: an entry is closed only when it also counts as a failure.
ClosedByTimeout ==
  {i \in Interceptors :
     ledger[i] # NoTrack /\ target[i] = NoTrack /\ ledgerAge[i] > TimeoutTicks}

\* Ledger entries whose interceptor is no longer engaged, and was not a hit.
Closed ==
  {i \in Interceptors : ledger[i] # NoTrack /\ target[i] = NoTrack}

(***************************************************************************)
(* Any interceptors whose target has a confirmed position may be close     *)
(* enough to hit it.  Each hit, and each entry closed without one, clears  *)
(* the engagement on the blackboard, whichever it is.                      *)
(***************************************************************************)
Resolve ==
  /\ Goto("resolve", "observe")
  /\ \E hits \in SUBSET {p \in Held : Confirmed(p.track)} :
       /\ HandleIntercepts(hits)
       /\ engagement' = IF hits = {} /\ Closed = {} THEN engagement ELSE {}
       /\ LET over == Closed \cup {h.interceptor : h \in hits}
          IN  /\ ledger' = [i \in Interceptors |->
                              IF i \in over THEN NoTrack ELSE ledger[i]]
              /\ ledgerAge' = [i \in Interceptors |->
                                 IF i \in over THEN 0 ELSE ledgerAge[i]]
       /\ failCounted' = (failCounted \/
                            \E i \in Closed : ledgerAge[i] > TimeoutTicks)
  /\ UNCHANGED <<fact, mode, active, stable, denial, commands>>

Next == Observe \/ Decide \/ Command \/ Fly \/ Resolve

Spec == Init /\ [][Next]_vars

\* The loop runs as long as the program does.
FairSpec == Spec /\ WF_vars(Next)

-----------------------------------------------------------------------------
(***************************************************************************)
(* Safety.                                                                 *)
(***************************************************************************)

\* Two interceptors never fly at the same track: the tree's suppression of
\* duplicate assignments holds at every point of the loop, through retasks,
\* timeouts, hits and tracks that disappear.
NoSharedTarget ==
  \A i, j \in Interceptors : target[i] = target[j] /\ Engaged(i) => i = j

\* The mission memory holds each track and each interceptor at most once.
MemoryIsOneToOne ==
  \A e, f \in active : Conflict(e, f) => e = f

\* Between two passes of the loop the memory knows every engagement that the
\* interceptors are carrying out: none flies without the tree knowing.
EngagementsRemembered ==
  pc = "observe" => Held \subseteq {PairOf(e) : e \in active}

\* Between two passes the loop's ledger and the interceptor manager agree on
\* who is engaged with what, so that times to intercept are measured from the
\* command that is being carried out.
LedgerAgrees == pc = "observe" => ledger = target

\* Between two passes the engagement on the blackboard, if any, is being
\* carried out; the tree would otherwise take a finished one into its memory.
BlackboardEngagementIsLive == pc = "observe" => engagement \subseteq Held

\* Between two passes all three records of who flies at what agree with the
\* interceptors: the tree's memory, the loop's ledger and the blackboard.
EngagementRecordsAgree ==
  EngagementsRemembered /\ LedgerAgrees /\ BlackboardEngagementIsLive

\* Once the interceptors have flown, every target is a confirmed track of this
\* tick: nobody flies on towards a track that was deleted.
TargetsAreConfirmed ==
  pc \in {"resolve", "observe"} => \A p \in Held : Confirmed(p.track)

\* The grace period for an entry that disagrees with the interceptors never
\* starts: reconciliation has removed such entries before it is looked at.
GraceNeverUsed == \A e \in active : e.missing = 0

\* The mode on the blackboard is engage exactly while the memory holds an
\* engagement, whichever way out of tick set it.
ModeMatchesMemory == (mode = "engage") <=> (active # {})

\* A command diverts a flying interceptor only when all are busy, and at most
\* one interceptor is diverted in a tick.
RetaskOnlyWhenAllBusy ==
  \A o, p \in commands :
    Engaged(o.interceptor) => Idle = {} /\ o = p

\* intercept_fail_total counts no engagement: the interceptor is released on
\* the tick its clock passes the timeout, when the time since the command is
\* still one tick short of passing it.
TimeoutNeverCounted == ~failCounted

\* Two branches of the code have no effect: the memory's grace period and the
\* counting of timed out engagements as failed intercepts.
DeadBranchesStayDead == GraceNeverUsed /\ TimeoutNeverCounted

\* An engagement the tree has just kept or ordered is not dropped by the next
\* flight step for want of a track, only because its time is up.
OnlyTimeoutEndsFlight ==
  [][\A e \in active :
       pc = "fly" /\ target[e.interceptor] = e.track /\ target'[e.interceptor] = NoTrack
         => elapsed[e.interceptor] = TimeoutTicks]_vars

\* A tick of the tree leaves no interceptor idle while an engageable track is
\* without one, as long as the sensors report healthy.
NoIdleWithOpenTrack ==
  [][pc = "decide" /\ HealthReports = {TRUE} =>
       \A i \in Idle, t \in Tracks :
         Engageable(t, TRUE) => t \in TracksOf(active') \/ OrdersFor(i)' # {}]_vars

(***************************************************************************)
(* Liveness.                                                               *)
(***************************************************************************)

\* With an interceptor for every track, a track that stays fit is engaged
\* again and again: no denial, cooldown or lost track can starve it.
FitTrackIsEngaged ==
  \A t \in Tracks : <>[](fact[t] = "fit") => []<>(t \in TracksOf(Held))

\* The promise to the readers of the log: the loop, seen by the stages of the
\* tracks and by who flies at what, does what MissionFlights says.
Flights ==
  INSTANCE MissionFlights WITH
    stage <- [t \in Tracks |-> StageOf(fact[t])],
    phase <- IF pc = "decide" THEN "command" ELSE pc

ImplementsFlights == Flights!FlightsSpec

-----------------------------------------------------------------------------
(***************************************************************************)
(* The inductive invariant: what each step of the loop hands to the next.  *)
(***************************************************************************)
Remembered == {PairOf(e) : e \in active}

\* The manager knows the positions of exactly the confirmed tracks.
PositionsCurrent == positions = ConfirmedTracks

\* A target was confirmed when it was assigned, so by now it is or it is gone.
TargetsWereConfirmed ==
  \A p \in Held : Confirmed(p.track) \/ fact[p.track] = "gone"

\* Commands exist only on their way from the tree to the manager; each is in
\* the memory and for a track nobody flies at.
CommandsFresh ==
  /\ \A o \in commands :
       /\ pc = "command"
       /\ o.track \in positions
       /\ o.track \notin TracksOf(Held)
       /\ o \in Remembered
  /\ \A o, p \in commands : Conflict(o, p) => o = p

\* The memory against the interceptors: between the tree's tick and the flight
\* an interceptor may still hold a track that is gone or that it is to leave.
MemoryFollowsInterceptors ==
  /\ pc \in {"observe", "decide", "resolve"} => Held \subseteq Remembered
  /\ pc \in {"command", "fly"} =>
       /\ \A p \in Held :
            Tracked(p.track) => p \in Remembered \/ OrdersFor(p.interceptor) # {}
       /\ \A e \in active : Confirmed(e.track)

\* The ledger against the interceptors: it may be behind only after a flight.
LedgerFollowsInterceptors ==
  /\ pc # "resolve" => ledger = target
  /\ pc = "resolve" => \A p \in Held : ledger[p.interceptor] = p.track

\* The engagement on the blackboard is carried out, about to be, or about to
\* be cleared because its interceptor was just released.
BlackboardFollowsInterceptors ==
  \A p \in engagement :
    /\ pc \in {"observe", "decide", "fly"} => p \in Held
    /\ pc = "command" =>
         p \in commands \/ (p \in Held /\ OrdersFor(p.interceptor) = {})
    /\ pc = "resolve" => ledger[p.interceptor] = p.track

\* The manager's clock is ahead of the ledger's from the flight until the
\* simulation time advances.
ClocksAgree ==
  \A i \in Interceptors :
    /\ ~Engaged(i) => elapsed[i] = 0
    /\ ledger[i] = NoTrack => ledgerAge[i] = 0
    /\ pc \in {"decide", "command", "fly"} => ledgerAge[i] = elapsed[i]
    /\ pc \in {"resolve", "observe"} /\ Engaged(i) => elapsed[i] = ledgerAge[i] + 1
    /\ pc = "resolve" => ledgerAge[i] <= TimeoutTicks

IInv ==
  /\ TypeOK
  /\ NoSharedTarget
  /\ PositionsCurrent
  /\ TargetsWereConfirmed
  /\ TargetsAreConfirmed
  /\ CommandsFresh
  /\ MemoryIsOneToOne
  /\ MemoryFollowsInterceptors
  /\ LedgerFollowsInterceptors
  /\ BlackboardFollowsInterceptors
  /\ ClocksAgree
  /\ GraceNeverUsed
  /\ ModeMatchesMemory
  /\ RetaskOnlyWhenAllBusy
  /\ TimeoutNeverCounted

=============================================================================
